\* Safety of the service: power, streaming, motions, hand-over, object life.
SPECIFICATION ScenarioSpec
CONSTANTS
  Clients = {c1, c2}
  NoClient = NoClient
  LeaseTicks = 2
  MaxLease = 2
  MaxSeq = 4
  StreamLifespan = 1
  QueueCapacity = 2
  Ops <- AllOps
  Env <- AllEnv
  Scenarios <- SafetyScenarios
  RetryInitial = 1
  RetryMax = 2
SYMMETRY ClientSymmetry
INVARIANTS
  TypeOK
  ClosedInOrder
  StreamUnderOwnLease
  RunningMotionAwaited
  NoOrphanMotion
  NothingPendingWithoutLease
  AtMostOneLateOperation
PROPERTIES
  LiveLeaseNotTakenOver
  MotionEventOrder
  ExecutedInOrder
