SPECIFICATION Spec
CONSTANTS
  p = p
  q = q
  f = f
  m = m
  n = n
  Transfers <- MCTransfers
  Endpoints <- MCEndpoints
  Kind <- MCKind
  Cells <- MCCells
  Start <- MCStart
  Source <- MCSource
  Dest <- MCDest
  SrcOff <- MCSrcOff
  DstOff <- MCDstOff
  Chunks <- MCChunks
  Legs <- MCLegs
  Verified <- MCVerified
  MaxCalls = 2
  Depth = 2
  Buffers = {b1, b2}
  Recycled <- MCRecycled
INVARIANT
  CompletedMeansCopied
