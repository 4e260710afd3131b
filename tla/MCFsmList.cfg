\* Two lists in a heap of four elements, so that copies meet its end and
\* moved lists are moved again.
CONSTANTS
  Lists = {L1, L2}
  Elems = {n1, n2, n3, n4}
  Members = {x, y}
  NULL = NULL
SPECIFICATION Spec
INVARIANTS
  Integrity
PROPERTIES
  KeepsPromise
