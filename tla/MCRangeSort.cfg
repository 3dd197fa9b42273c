CONSTANTS
  Rows <- MCRows
  Key <- MCKey
  PartitionCounts <- MCPartitionCounts
  MaxLosses = 2
SPECIFICATION FairSpec
INVARIANTS
  TypeOK
  RangesOrdered
  OneBlockPerPartition
  NothingLost
  ResultIsSortedRDD
PROPERTIES
  ImplementsSort
CHECK_DEADLOCK FALSE
