SPECIFICATION Spec
CONSTANTS
  Counts = {1}
  Max = 2
  Submitters = {s1, s2}
  Workers = {w1, w2}
  Jobs = {j1, j2, j3, j4}
  None = None
SYMMETRY Symmetry
CHECK_DEADLOCK FALSE
PROPERTY DeletesIdleOnly
