\* Overload evidence across a change of strength.
SPECIFICATION Spec
CONSTANTS
  Scenarios <- SwitchedScenarios
  Closed = 3
  MinError = 1
  Offset = 1
  Distance = 1
  Window = 2
  ContactHold = 1
  OverloadHold = 1
  Retry = 2
  MaxStep = 1
PROPERTY OverloadOwnEvidence
