SPECIFICATION Spec
CONSTANTS
  Counts = {1, 3}
  Max = 2
  Submitters = {s1, s2}
  Workers = {w1, w2, w3}
  Jobs = {j1, j2, j3}
  None = None
SYMMETRY Symmetry
CHECK_DEADLOCK FALSE
INVARIANTS
  TypeOK
  ThreadsBounded
  BusyAccounted
  WokenFindsNewJob
  JobsAccounted
