INIT Init
NEXT Next
CONSTANTS
  m1 = m1
  m2 = m2
  c1 = c1
  c2 = c2
  Motors <- SomeMotors
  Callers <- SomeCallers
  NoCaller = NoCaller
  Scenarios <- TimeoutScenarios
  Threshold = 1
INVARIANTS
  NoOldTarget
