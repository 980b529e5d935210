\* Safety of the gripper.
SPECIFICATION Spec
CONSTANTS
  Scenarios <- SafetyScenarios
  Closed = 3
  MinError = 1
  Offset = 1
  Distance = 1
  Window = 2
  ContactHold = 1
  OverloadHold = 1
  Retry = 2
  MaxStep = 1
INVARIANTS HeldGently
PROPERTIES ContactEvidence RetreatOpens
