SPECIFICATION Spec
CONSTANTS
  w1 = w1
  w2 = w2
  Byte = {0, 1}
  WindowSize = 2
  MinChunkSize = 2
  MaxChunkSize = 4
  MaskBits = {0, 1}
  Table <- MCTable
  ReadBufSize = 3
  Files <- MCFiles
  Writers = {w1, w2}
  Hashes <- ChunkData
  NoHash = NoHash
  ErrorBound = 1
  SendBound = 2
SYMMETRY WriterSymmetry
INVARIANT TypeOK CutsByContent NoByteLost ListedIsWhole NoTempLeft SentReadsBack
CHECK_DEADLOCK FALSE
