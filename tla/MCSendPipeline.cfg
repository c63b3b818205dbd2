SPECIFICATION FairSpec
CONSTANTS
  w1 = w1
  w2 = w2
  Workers = {w1, w2}
  N = 12
  ResumeIndex = 1
INVARIANT TypeOK WireInOrder SuccessIsComplete NoChunkLost
PROPERTY EverybodyReturns
