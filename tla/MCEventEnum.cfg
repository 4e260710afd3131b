SPECIFICATION Spec
CONSTANTS
  MaxNM = 5
  MaxEvents = 2
  MaxLevels = 3
INVARIANTS
  FinderReaches
  LayoutEstablished
  CrossReferenceAgrees
