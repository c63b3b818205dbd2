SPECIFICATION FairSpec
CONSTANTS
  v1 = v1
  v2 = v2
  Sources = {v1, v2}
  N = 4
  SendFlags = {TRUE, FALSE}
  ReceiveFlags = {TRUE, FALSE}
  StreamWindow = 3
  FaultBound = 2
  ReceiverFaultBound = 2
INVARIANT TypeOK FileIsPrefix EndMeansComplete CrashOnlyRepeats WaitOnlyOnDisagreement
PROPERTY ProgressIsKept EveryFileSent
CHECK_DEADLOCK FALSE
