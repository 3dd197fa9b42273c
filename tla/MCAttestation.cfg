CONSTANTS
  Executors <- MCExecutors
  NumPartitions = 1
  MaxAttempts = 3
  MaxTaskFailures = 2
  MaxFaults = 2
  MaxRestarts = 1
SPECIFICATION FairSpec
INVARIANTS
  TypeOK
  AttestedCanReconstruct
  KeysAgreeIfNotRetried
PROPERTY Termination
CHECK_DEADLOCK FALSE
