CONSTANTS
  Size <- MCSize
  ReadCap <- MCReadCap
  WriteCap <- MCWriteCap
  IsoLimit = 7
  Field = 12
  Offsets <- MCOffsets
  Lengths <- MCLengths
  Buffers <- MCBuffers
  MaxCalls = 4
SPECIFICATION Spec
CHECK_DEADLOCK FALSE
INVARIANT
  EfFlagTrue
