\* Every accepted motion ends.
SPECIFICATION Spec
CONSTANTS
  Scenarios <- LiveScenarios
  MaxIds = 2
  Stable = 1
  Unstable = 1
  ArrivalTimeout = 2
  PauseTimeout = 1
PROPERTY MotionEnds
