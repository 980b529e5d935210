SPECIFICATION ScenarioFairSpec
CONSTANTS
  Clients = {c1}
  NoClient = NoClient
  LeaseTicks = 1
  MaxLease = 2
  MaxSeq = 2
  StreamLifespan = 0
  QueueCapacity = 1
  Ops <- AllOps
  Env <- AllEnv
  Scenarios <- LiveScenarios
  RetryInitial = 1
  RetryMax = 1
PROPERTIES
  RequestsAnswered
  LossHandled
  ShutdownCompletes
