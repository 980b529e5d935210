SPECIFICATION Spec
CONSTANTS
  m1 = m1
  m2 = m2
  c1 = c1
  c2 = c2
  Motors <- SomeMotors
  Callers <- OneCaller
  NoCaller = NoCaller
  Scenarios <- LiveScenarios
  Threshold = 1
PROPERTIES
  CallsReturn
  StreamExpires
  EnabledEnds
CHECK_DEADLOCK FALSE
