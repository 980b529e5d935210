\* Gravity compensation and bimanual follow.
SPECIFICATION Spec
CONSTANTS
  Transition = 3
  Limit = 2
  Inputs = {"gravity", "target", "raw", "follow", "batch", "stop", "miss"}
INVARIANTS FollowOwnsTarget
PROPERTIES ScaleSmooth GravityExits
