SPECIFICATION Spec
CONSTANTS
  v1 = v1
  v2 = v2
  Sources = {v1}
  N = 2
  SendFlags = {TRUE}
  ReceiveFlags = {TRUE}
  StreamWindow = 2
  FaultBound = 0
  ReceiverFaultBound = 1
INVARIANT AckTellsWhatIsWritten
CHECK_DEADLOCK FALSE
