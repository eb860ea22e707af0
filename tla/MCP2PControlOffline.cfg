SPECIFICATION Spec
CONSTANTS
  Codes = {0, 1}
  MaxBatch = 2
PROPERTIES
  OfflinePeerStopsPunching
CHECK_DEADLOCK FALSE
