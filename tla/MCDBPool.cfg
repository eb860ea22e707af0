SPECIFICATION Spec
CONSTANTS
  Users = {u1, u2, u3}
  Size = 2
  Inits = 2
  Uses = 2
  NoConn = NoConn
INVARIANTS
  TypeOK
  SemaphoreAccounting
  Exclusive
PROPERTIES
  Served
CHECK_DEADLOCK FALSE
