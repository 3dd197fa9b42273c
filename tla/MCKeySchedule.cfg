CONSTANTS
  Tasks <- MCTasks
  MaxCores = 2
  Blocks = 2
  TaskMaxFailures = 2
SPECIFICATION ScheduleFairSpec
INVARIANTS
  OpensLiveSchedule
  OneCoreUsesLiveSchedule
  OneCoreResultsUnderKey
  OneCoreLeaksNothing
PROPERTY QueryEnds
CHECK_DEADLOCK FALSE
