SPECIFICATION FairSpec
CONSTANTS
  Programs <- mcPrograms
  States <- mcStates
  Start = "idle"
  Events <- mcEvents
  First = "go"
  Reentrant = TRUE
  Threads = {t1, t2}
  NoTransition = "noTransition"
  Junk = "junk"
  Nobody = Nobody
INVARIANTS
  FlatTypeOK
  EntryExitPaired
  OneAtWork
PROPERTIES
  MovesByCell
  CallsEnd
CHECK_DEADLOCK FALSE
