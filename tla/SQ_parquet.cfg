SPECIFICATION RemoteSpec
CONSTANTS
  Null = Null
  None = None
  Alphabet <- MCAlphabet
  Sources <- MCSources
  Files <- MCFiles
  Word = 256
  Views <- MCViews
  Queries <- MCQueries
  Extensions <- MCExtensions
  MaxOps = 1
  MaxCalls = 3
INVARIANT FormatDoesNotMatter
CHECK_DEADLOCK FALSE
