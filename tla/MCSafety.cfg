SPECIFICATION Spec
CONSTANTS
  m1 = m1
  m2 = m2
  c1 = c1
  c2 = c2
  Motors <- SomeMotors
  Callers <- SomeCallers
  NoCaller = NoCaller
  Scenarios <- SafetyScenarios
  Threshold = 1
INVARIANTS
  ConfirmedOff
  EstopLatched
  TransitionOwned
  NoOldTarget
  Frozen
  GraceDropsNothing
