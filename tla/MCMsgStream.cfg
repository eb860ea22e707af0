SPECIFICATION Spec
CONSTANTS
  Kinds <- AllKinds
  Messages = 3
  MaxRecv = 21
INVARIANTS
  AppliedExactly
  DiesForCause
CHECK_DEADLOCK FALSE
