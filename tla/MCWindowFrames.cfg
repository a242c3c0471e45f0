CONSTANTS
  NullKey <- MCNull
  WindowSettings <- MCSettings
SPECIFICATION WindowFairSpec
INVARIANTS
  HandlesOwned
  StepCalled
PROPERTIES
  ReturnsFrame
  Terminates
CHECK_DEADLOCK FALSE
