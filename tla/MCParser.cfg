CONSTANTS
  Names <- mcNames
  noEvent = "noEvent"
  noTransition = "noTransition"
  None = "none"
  Inputs <- mcInputs
SPECIFICATION ParserSpec
INVARIANTS
  SharersMutual
  ReturnsInReach
  RecordsRight
  SharedLast
  ReadAsWritten
CHECK_DEADLOCK FALSE
