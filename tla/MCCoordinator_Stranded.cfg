SPECIFICATION Spec
CONSTANTS
  p1 = p1
  p2 = p2
  main = main
  d1 = d1
  d2 = d2
  NoPeer = NoPeer
  Peers = {p1}
  Main = main
  Drainers = {d1}
  MaxEntries = 1
  MaxRetries = 2
  FailureBound = 1
  RetryBound = 2
INVARIANT NothingStranded
CHECK_DEADLOCK FALSE
