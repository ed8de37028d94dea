SPECIFICATION Spec
CONSTANTS
  Threads = {one, two}
  Plans <- MCPlans
  Keys <- MCKeys
  TargetKey = target
  BatchKey = batch
  LegacyKey = legacy
  target = target
  batch = batch
  legacy = legacy
  other = other
  eight = eight
  zeroEight = zeroEight
  four = four
  word = word
  one = one
  two = two
  Texts <- MCTexts
  Parse <- MCParse
  Printed <- MCPrinted
  DefaultPartitions = 2
  DefaultBatch = 1024
  Parts <- MCParts
  OwnId = OwnId
  None = None
INVARIANTS ViewsAgree BatchSizesAgree SettingsReachTasks NobodyIsRefused
PROPERTIES GivenStateIsKept EveryCallReturns
CHECK_DEADLOCK FALSE
