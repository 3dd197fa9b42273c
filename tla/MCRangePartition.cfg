CONSTANTS
  Keys <- MCKeys
  RangeCounts <- MCRangeCounts
  MaxSample = 6
  MaxInput = 3
SPECIFICATION PartitionFairSpec
INVARIANTS
  FewerBoundsThanPartitions
  WritesInBounds
  RowsInOwnRange
  CutIsExact
  BoundariesExact
PROPERTY Termination
CHECK_DEADLOCK FALSE
