\* A completed motion and a raw stream accepted after it.
SPECIFICATION Spec
CONSTANTS
  Scenarios <- StreamedScenarios
  MaxIds = 1
  Stable = 1
  Unstable = 1
  ArrivalTimeout = 2
  PauseTimeout = 1
PROPERTY LatestTargetWins
