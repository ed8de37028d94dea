SPECIFICATION Spec
CONSTANTS
  Null = Null
  Values <- MCValues
  MaxLeft = 3
  MaxRight = 3
  JoinTypes = {"Inner", "Left", "Right", "Full"}
  Unrepeatable = TRUE
  Joins <- MCJoins
  LeftScans <- MCLeftScans
  Rights <- MCRights
  MaxErrors = 1
INVARIANTS AnswerIsTheJoin
CHECK_DEADLOCK FALSE
