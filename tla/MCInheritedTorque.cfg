SPECIFICATION Spec
CONSTANTS
  Clients = {c1, c2}
  NoClient = NoClient
  LeaseTicks = 2
  MaxLease = 2
  MaxSeq = 2
  StreamLifespan = 1
  QueueCapacity = 1
  Ops <- EnableOps
  Env = {}
  RetryInitial = 1
  RetryMax = 1
SYMMETRY ClientSymmetry
PROPERTIES
  NoInheritedTorque
