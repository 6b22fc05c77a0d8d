SPECIFICATION Spec
CONSTANTS
  TokenBits = 6
  MinBits = 2
  ChunkMax = 16
  ByteBits = 3
  Letters = {0, 5}
  MaxLen = 7
  MaxBody = 0
  NoData = NoData
  Inputs <- MCRepeats
  Containers <- MCContainers
CHECK_DEADLOCK FALSE
INVARIANT Lossless
