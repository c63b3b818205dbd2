SPECIFICATION Spec
CONSTANTS
  s1 = s1
  s2 = s2
  pair = pair
  single = single
  secret = secret
  large = large
  NoFile = NoFile
  Empty = {secret}
  Senders = {s1}
  Files = {secret}
  SpaceFiles = {secret}
  ChunkCount <- Counts
  ChunkSize <- Sizes
  MaxTransfers = 1
  FaultBound = 0
  MaxAge = 0
  MaxClock = 0
  MaxLine = 10
  MaxChunkSize = 100
INVARIANT SentIsNotLost
CHECK_DEADLOCK FALSE
