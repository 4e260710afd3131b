CONSTANTS
  Words = {"top", "plain", "wrong"}
  Faulty = {"wrong"}
  SubMachines <- mcSubMachines
  Jobs <- mcJobs
SPECIFICATION Spec
INVARIANTS
  GoodOutputWhole
  NothingElseLeft
  AllClosed
  CrashOnlyUnopened
  PrintsWhatWouldBeMade
  ScannedAsWritten
PROPERTIES
  Ends
CHECK_DEADLOCK FALSE
