CONSTANTS
  Rows <- MCRows
  Key <- MCKey
  JoinKey <- MCJoinKey
  Tag <- MCTag
  numPartitions = 3
  RowsPerBlock = 2
SPECIFICATION Spec
INVARIANTS
  JoinSound
  JoinCompleteWithinReach
CHECK_DEADLOCK FALSE
