CONSTANTS
  Rows <- MCRows
  Key <- MCKey
  numPartitions = 3
SPECIFICATION Spec
INVARIANTS
  AggregateExact
CHECK_DEADLOCK FALSE
