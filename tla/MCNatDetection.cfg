SPECIFICATION Spec
CONSTANTS
  Count = 7
  Copies = 2
  MaxRepeats = 1
  MaxForeign = 2
  NoPort = NoPort
  Steps <- MCSteps
  Garbage <- MCGarbage
INVARIANTS
  TypeOK
  NeverMoreOpen
  ExactWhenAnswered
  SecondTestRepeated
  StepTrustworthy
PROPERTY Ends
CHECK_DEADLOCK FALSE
