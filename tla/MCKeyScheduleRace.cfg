CONSTANTS
  Tasks <- MCTasks
  MaxCores = 2
  Blocks = 2
  TaskMaxFailures = 2
SPECIFICATION ScheduleSpec
INVARIANTS
  UsesLiveSchedule
CHECK_DEADLOCK FALSE
