CONSTANTS
  Queries <- MCQueries
  Tables <- MCTables
  IntegerMax = 127
  LongMax = 1000
  output <- Output
  attribute <- toAttribute
  separated <- separateProjectAndAgg
SPECIFICATION Spec
INVARIANTS
  PlannedExactlyIfSupported
  PolicyChecksKept
  AnsweredAsWritten
CHECK_DEADLOCK FALSE
