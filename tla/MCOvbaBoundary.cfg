SPECIFICATION Spec
CONSTANTS
  TokenBits = 4
  MinBits = 2
  ChunkMax = 8
  ByteBits = 2
  Letters = {0, 1, 2, 3}
  MaxLen = 5
  MaxBody = 0
  NoData = NoData
  Inputs <- MCInputs
  Containers <- MCContainers
CHECK_DEADLOCK FALSE
INVARIANT RefusedOnlyIfTooLarge
