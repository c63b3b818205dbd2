SPECIFICATION Spec
CONSTANTS
  Addrs = {"a1", "a2"}
  TTL = 1
  TimeBound = 0
  Options <- DefaultOptions
  TokenLife = 1
  MaxRetries = 1
  FaultBound = 0
INVARIANT DoneIsReceived
CHECK_DEADLOCK FALSE
