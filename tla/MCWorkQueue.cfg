SPECIFICATION Spec
CONSTANTS
  Workers = {w1, w2, w3}
  Counts = {2, 3}
  Main = main
  Items = {i1, i2, i3}
  NoItem = NoItem
  MaxWait = 2
INVARIANTS
  TypeOK
  SemaphoreAccounting
  ItemsAccounted
  JoinedBeforeClean
PROPERTIES
  ImplementsJobPool
  EveryItemEnds
  DestroyEnds
CHECK_DEADLOCK FALSE
