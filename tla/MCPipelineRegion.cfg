SPECIFICATION Spec
CONSTANTS
  p = p
  f = f
  m = m
  Transfers = {p}
  Endpoints <- MCEndpoints
  Kind <- MCKind
  Cells <- MCCells
  Start <- MCStart
  Source <- MCSource
  Dest <- MCDest
  SrcOff <- MCSrcOff
  DstOff <- MCDstOff
  Chunks <- MCChunks
  Legs <- MCLegs
  Verified <- MCVerified
  MaxCalls = 1
  Depth = 2
  Buffers = {b1, b2}
  Recycled <- MCRecycled
INVARIANT
  CompletedMeansCopied
