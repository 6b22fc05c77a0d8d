SPECIFICATION FairSpec
CONSTANTS
  TokenBits = 4
  MinBits = 2
  ChunkMax = 8
  ByteBits = 2
  Letters = {0, 3}
  MaxLen = 9
  MaxBody = 3
  NoData = NoData
  Inputs <- MCInputs
  Containers <- MCContainers
CHECK_DEADLOCK FALSE
INVARIANTS TypeOK Lossless FailsOnlyIfLong
PROPERTY Returns
