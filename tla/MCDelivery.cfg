SPECIFICATION Spec
CONSTANTS
  Addrs = {"a1", "a2"}
  TTL = 1
  TimeBound = 2
  Options <- MCOptions
  TokenLife = 1
  MaxRetries = 3
  FaultBound = 2
INVARIANT TypeOK OneRoute RetriesAreAccountedFor
PROPERTY ReceivedOnlyIfAgreed AnswerIsCurrent AgreedIsDelivered SendFileReturns
CHECK_DEADLOCK FALSE
