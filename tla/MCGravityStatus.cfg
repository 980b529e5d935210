SPECIFICATION Spec
CONSTANTS
  Transition = 2
  Limit = 0
  Inputs = {"gravity", "batch", "stop"}
INVARIANT StatusTrue
