SPECIFICATION Spec
CONSTANTS
  NM <- mcNM
  Parent <- mcParent
  First <- mcFirst
  NoEv <- mcNoEv
  Last <- mcLast
  States <- mcStates
  Start <- mcStart
  Target <- mcTarget
  Reply <- mcReply
  Sharers <- mcSharers
  Passes <- mcPasses
  Inhibits <- mcInhibits
  HasFns <- mcHasFns
INVARIANTS
  TypeOK
  InBounds
  NotReentered
  EntryExitPaired
PROPERTIES
  InhibitRespected
  ReturnsOnlyToOthers
