CONSTANTS
  Executors <- MCExecutors
  NumPartitions = 1
  MaxAttempts = 3
  MaxTaskFailures = 2
  MaxFaults = 1
  MaxRestarts = 0
SPECIFICATION Spec
INVARIANTS
  KeysAgree
CHECK_DEADLOCK FALSE
