SPECIFICATION UpSpec
CONSTANTS
  p1 = p1
  p2 = p2
  main = main
  d1 = d1
  d2 = d2
  NoPeer = NoPeer
  Peers = {p1}
  Main = main
  Drainers = {d1, d2}
  MaxEntries = 1
  MaxRetries = 1
  FailureBound = 4
  RetryBound = 5
SYMMETRY DrainerSymmetry
INVARIANT InFlightOwned FailuresCounted AttemptsBounded
CHECK_DEADLOCK FALSE
