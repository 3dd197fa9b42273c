CONSTANTS
  Rows <- MCRows
  Key <- MCKey
  MAX_NUM_STREAMS = 2
  RowsPerBlock = 2
  MaxBlocks = 4
SPECIFICATION FairSpec
INVARIANTS
  RowsConserved
  MergeOrder
  UnreadRunsNotEmpty
PROPERTIES
  PassesShrink
  ImplementsSort
CHECK_DEADLOCK FALSE
