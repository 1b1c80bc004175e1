SPECIFICATION Spec
CONSTANTS
  Char <- MCChar
  CR = "CR"  LF = "LF"  NUL = "NUL"
  HeadUnit = "head"
  HeadLen = 2
  ChunkSize <- MCChunkSize
  Hex <- MCHex
  Streams <- FewStreams
  RecvMax = 3
  MaxCalls = 1
CHECK_DEADLOCK FALSE
INVARIANT
  BodyIsComplete
