CONSTANTS
  A = A
  B = B
  r1 = r1
  r2 = r2
  NoTable = NoTable
  Nobody = Nobody
  Tables <- MCTables
  Models <- MCTables
  Requests <- MCRequests
  Callers <- MCCallers
  Statements <- MCStatements
  Scenarios <- MCScenarios
  Exprs <- MCExprs
  Content <- MCContent
  NumRows = 3
  MaxSlices = 2
  MaxOutsourcings = 2
  IntegerMax = 127
  LongMax = 1000
  TCSNum = 2
  MaxRestarts = 1
  MaxFaults = 1
  Cores = 3
  MaxTaskFailures = 2
SPECIFICATION FairSpec
INVARIANTS
  TypeOK
  ReturnedTableIsWhole
  DataNotOlderThanSchema
  ResultOrException
  ExtractedTablesUnderOwnToken
  AnswersOnlyFromAttestedEnclave
  AnswersAreExact
PROPERTY EveryRequestAnswered
CHECK_DEADLOCK FALSE
