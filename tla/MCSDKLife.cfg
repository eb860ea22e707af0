SPECIFICATION Spec
CONSTANTS
  Fds = {1, 2, 3, 4}
  Lives = 2
  None = None
  Modes = {1, 2}
INVARIANTS
  TypeOK
  NoDangling
  OwnConnection
  EndsForCause
  AfterStop
  RelayNeedsRestart
PROPERTIES
  ReadableServed
CHECK_DEADLOCK FALSE
