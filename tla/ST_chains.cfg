SPECIFICATION FairSpec
CONSTANTS
  Row <- MCRow
  Keep <- MCKeep
  Project <- MCProject
  Rank <- MCRank
  Inputs <- MCInputs
  Plans <- MCPlans
  UsizeMax = 9
  MaxErrors = 1
  MaxBatches = 3
  MaxRows = 4
INVARIANTS TypeOK LimitStopsReading
PROPERTIES KeepsThePromise EveryStreamEnds
CHECK_DEADLOCK FALSE
