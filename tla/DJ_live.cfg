SPECIFICATION FairSpec
CONSTANTS
  Jobs = {j1}
  g1 = g1  g2 = g2  id1 = id1  id2 = id2  d1 = d1  d2 = d2
  Groups <- MCGroups
  Hash <- MCHash
  Queries <- AllQueries
  NumExecutors = 2
  ServerId <- SameId
  Ids = {id1, id2}
  ShuffleDir <- OwnDir
  Dirs = {d1, d2}
  DefaultPartitions = 2
  MaxCrashes = 2  MaxResets = 2  MaxCleanups = 2
PROPERTIES AnswersAreFinal EveryQueryEnds
CHECK_DEADLOCK FALSE
