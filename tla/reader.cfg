SPECIFICATION LiveSpec
CONSTANTS
  Char <- MCChar
  CR = "CR"  LF = "LF"  NUL = "NUL"
  HeadUnit = "head"
  HeadLen = 2
  ChunkSize <- MCChunkSize
  Hex <- MCHex
  Streams <- MCStreams
  RecvMax = 3
  MaxCalls = 2
CHECK_DEADLOCK FALSE
INVARIANTS
  TypeOK
  ErrorReturned
  LengthKept
  ChunksDecoded
PROPERTIES
  Returns
  CallProgresses
