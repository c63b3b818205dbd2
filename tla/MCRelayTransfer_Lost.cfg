SPECIFICATION Spec
CONSTANTS
  s1 = s1
  s2 = s2
  pair = pair
  single = single
  secret = secret
  large = large
  NoFile = NoFile
  Empty = {}
  Senders = {s1, s2}
  Files = {pair}
  SpaceFiles = {}
  ChunkCount <- Counts
  ChunkSize <- Sizes
  MaxTransfers = 2
  FaultBound = 0
  MaxAge = 0
  MaxClock = 0
  MaxLine = 10
  MaxChunkSize = 100
SYMMETRY SenderSymmetry
INVARIANT SentIsNotLost
CHECK_DEADLOCK FALSE
