\* A control cycle between the hold of an emergency stop and its state.
SPECIFICATION Spec
CONSTANTS
  Scenarios <- MovingStopScenarios
  Closed = 3
  MinError = 1
  Offset = 1
  Distance = 1
  Window = 2
  ContactHold = 1
  OverloadHold = 1
  Retry = 2
  MaxStep = 1
INVARIANT AlwaysHeldGently
