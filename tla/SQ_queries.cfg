SPECIFICATION RemoteSpec
CONSTANTS
  Null = Null
  None = None
  Alphabet <- MCAlphabet
  Sources <- MCSources
  Files <- MCFiles
  Word = 256
  Views <- MCViews
  Queries <- MCQueries
  Extensions <- MCExtensions
  MaxOps = 1
  MaxCalls = 5
INVARIANTS AnswersAreRight PlainQueriesAreAnswered PushDownKeepsTheAnswer RemoteAnswersAgree TaskRunsAsPlanned
CHECK_DEADLOCK FALSE
