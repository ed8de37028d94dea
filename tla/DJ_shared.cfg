SPECIFICATION Spec
CONSTANTS
  Jobs = {j1, j2}
  g1 = g1  g2 = g2  id1 = id1  id2 = id2  d1 = d1  d2 = d2
  Groups <- MCGroups
  Hash <- MCHash
  Queries <- TwoAggregates
  NumExecutors = 2
  ServerId <- SameId
  Ids = {id1, id2}
  ShuffleDir <- OneDir
  Dirs = {d1}
  DefaultPartitions = 2
  MaxCrashes = 1  MaxResets = 1  MaxCleanups = 1
INVARIANTS TypeOK AllOrNothing FinalStageReadsEverything ReportedFilesStay OneHandlerPerJob
PROPERTIES KeepsThePromise
CHECK_DEADLOCK FALSE
