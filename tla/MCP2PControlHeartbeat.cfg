SPECIFICATION Spec
CONSTANTS
  Codes = {0, 1}
  MaxBatch = 2
PROPERTIES
  HeartbeatTimeoutCloses
CHECK_DEADLOCK FALSE
