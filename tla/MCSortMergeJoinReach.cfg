CONSTANTS
  Rows <- MCRows
  Key <- MCKey
  JoinKey <- MCJoinKey
  Tag <- MCTag
  numPartitions = 3
  RowsPerBlock = 2
SPECIFICATION Spec
INVARIANTS
  JoinComplete
CHECK_DEADLOCK FALSE
