SPECIFICATION Spec
CONSTANTS
  s1 = s1
  s2 = s2
  pair = pair
  single = single
  secret = secret
  large = large
  NoFile = NoFile
  Empty = {single}
  Senders = {s1}
  Files = {single}
  SpaceFiles = {}
  ChunkCount <- Counts
  ChunkSize <- Sizes
  MaxTransfers = 1
  FaultBound = 1
  MaxAge = 0
  MaxClock = 0
  MaxLine = 10
  MaxChunkSize = 100
INVARIANT SentIsNotLost
CHECK_DEADLOCK FALSE
