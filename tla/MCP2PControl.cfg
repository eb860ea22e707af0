SPECIFICATION Spec
CONSTANTS
  Codes = {0, 1}
  MaxBatch = 2
INVARIANTS
  TypeOK
  ReportsMatchNat
  RequestAccounting
  StepFollowsVerdict
  NoPunching
PROPERTIES
  RefusalRedetects
  ReportsDelivered
  FirstRequestDelivered
  BrokenLinkEnds
CHECK_DEADLOCK FALSE
