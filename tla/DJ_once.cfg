SPECIFICATION Spec
CONSTANTS
  Jobs = {j1}
  g1 = g1  g2 = g2  id1 = id1  id2 = id2  d1 = d1  d2 = d2
  Groups <- MCGroups
  Hash <- MCHash
  Queries <- FullAggregate
  NumExecutors = 1
  ServerId <- SameId
  Ids = {id1, id2}
  ShuffleDir <- OneDir
  Dirs = {d1}
  DefaultPartitions = 2
  MaxCrashes = 0  MaxResets = 0  MaxCleanups = 0
INVARIANTS ExactlyOnce
CHECK_DEADLOCK FALSE
