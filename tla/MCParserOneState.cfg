CONSTANTS
  Names <- mcNames
  noEvent = "noEvent"
  noTransition = "noTransition"
  None = "none"
  Inputs <- mcOneState
SPECIFICATION ParserSpec
INVARIANTS
  ReturnsInformational
CHECK_DEADLOCK FALSE
