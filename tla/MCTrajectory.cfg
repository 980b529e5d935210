\* Safety of finite motions.
SPECIFICATION Spec
CONSTANTS
  Scenarios <- SafetyScenarios
  MaxIds = 4
  Stable = 1
  Unstable = 1
  ArrivalTimeout = 2
  PauseTimeout = 1
INVARIANTS QueueConsistent ArrivedIsNewest
PROPERTIES NoReferenceJump CompletedAfterWindow TerminalFinal
