SPECIFICATION Spec
CONSTANTS
  Workers = {w1, w2}
  Counts = {2}
  Main = main
  Items = {i1, i2, i3}
  NoItem = NoItem
  MaxWait = 2
INVARIANTS
  DestroyCompletesWork
CHECK_DEADLOCK FALSE
