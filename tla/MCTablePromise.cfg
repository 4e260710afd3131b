SPECIFICATION FairSpec
CONSTANTS
  NM <- mcNM
  Parent <- mcParent
  First <- mcFirst
  NoEv <- mcNoEv
  Last <- mcLast
  States <- mcStates
  Start <- mcStart
  Target <- mcTarget
  Reply <- mcReply
  Sharers <- mcSharers
  Passes <- mcPasses
  Inhibits <- mcNoInhibits
  HasFns <- mcHasFns
PROPERTIES
  KeepsPromise
  Terminates
