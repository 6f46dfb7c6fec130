\* Three requests at once on a session of two parts.
CONSTANTS
  TotalParts = 2
  Requests = {r1, r2, r3}
SPECIFICATION Spec
SYMMETRY Symmetry
INVARIANTS
  TypeOK
  CompletedHasObject
  NoAcknowledgedByteLost
CHECK_DEADLOCK FALSE
