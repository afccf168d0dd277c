CONSTANTS
  COMMAND_MAX = 3
  MAXIMUM_HISTORY_LENGTH = 2
  Printable = {"a", " "}
  Unprintable = {"^L"}
  Names <- MCNames
  Exit <- MCExit
  MallocFails = TRUE
SPECIFICATION Spec
CHECK_DEADLOCK FALSE
INVARIANTS HistoryIsSound MatchIsLatest
PROPERTIES DownReturns CompletionIsCommon ScreenFollowsLine
CONSTRAINT MCBound
