CONSTANTS
  EventList <- mcEventList
  StateList <- mcStateList
  Actions = {"act"}
  NoAction = "none"
  NoTransition = "noTransition"
  Inputs <- mcInputs
  EntryFns = {"idle", "busy"}
  ExitFns = {"done"}
SPECIFICATION Spec
INVARIANTS
  CellsAsDeclared
  AlikeIffOneCell
  ListsAgree
  DiagramAgrees
  ChartAgrees
  CountersAgree
