SPECIFICATION Spec
CONSTANTS
  s1 = s1
  s2 = s2
  pair = pair
  single = single
  secret = secret
  large = large
  NoFile = NoFile
  Empty = {}
  Senders = {s1, s2}
  Files = {pair, single, secret, large}
  SpaceFiles = {secret}
  ChunkCount <- Counts
  ChunkSize <- Sizes
  MaxTransfers = 2
  FaultBound = 2
  MaxAge = 1
  MaxClock = 2
  MaxLine = 4
  MaxChunkSize = 100
SYMMETRY SenderSymmetry
INVARIANT TypeOK WrittenFromOneTransfer WrittenOnce
PROPERTY LeavesByPullOrAge
CHECK_DEADLOCK FALSE
