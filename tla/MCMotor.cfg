\* The motor layer: register transactions, batch transmission, receive path.
SPECIFICATION LayerSpec
CONSTANTS
  Controllers = {p1, p2}
  Callers = {k1, k2}
  NoCaller = NoCaller
  MaxGeneration = 2
  Values = {1, 2}
  Initial = 1
  Retries = 2
  Required = {1}
  Optional = {2}
  Rounds = 2
  MaxFrames = 2
  MaxReceived = 1
INVARIANTS
  FramesInsideCall ConfirmedValue MotorsTrulyReported
PROPERTIES
  ImplementsBarrier LayerCallsReturn
