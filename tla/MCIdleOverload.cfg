\* An overload of an idle gripper.
SPECIFICATION Spec
CONSTANTS
  Scenarios <- LiveScenarios
  Closed = 3
  MinError = 1
  Offset = 1
  Distance = 1
  Window = 2
  ContactHold = 1
  OverloadHold = 1
  Retry = 2
  MaxStep = 1
PROPERTY SustainedOverloadRetreats
