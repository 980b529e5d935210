SPECIFICATION Spec
CONSTANTS
  Transition = 2
  Limit = 0
  Inputs = {"gravity", "restop"}
PROPERTY StopReturnsToHold
