SPECIFICATION FairSpec
CONSTANTS
  Null = Null
  IntBits = 2
  MaxRows = 3
  BatchSizes = {1, 2}
  Sources <- MCSources
  Queries <- MCQueries
  Columns = 3
  Parallelisms = {0, 1, 2, 3}
  MaxWorkers = 3
  MaxErrors = 1
INVARIANTS AnswersAgree AllWorkersOrNone NoErrorWithoutCause
PROPERTIES EveryAggregateEnds
CHECK_DEADLOCK FALSE
