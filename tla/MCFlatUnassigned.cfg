SPECIFICATION FlatSpec
CONSTANTS
  Programs <- mcPartialPrograms
  States <- mcStates
  Start = "idle"
  Events <- mcEvents
  First = "go"
  Reentrant = TRUE
  Threads = {t1, t2}
  NoTransition = "noTransition"
  Junk = "junk"
  Nobody = Nobody
PROPERTIES
  MovesByCell
