\* The stationary phase and the arrival timeout.
SPECIFICATION Spec
CONSTANTS
  Scenarios <- SingleScenarios
  MaxIds = 1
  Stable = 2
  Unstable = 1
  ArrivalTimeout = 2
  PauseTimeout = 1
PROPERTY OwnDeadline
