SPECIFICATION Spec
CONSTANTS
  p = p
  q = q
  r = r
  k = k
  l = l
  m = m
  x = x
  y = y
  z = z
  Transfers <- MCTransfers
  Endpoints <- MCEndpoints
  Kind <- MCKind
  Cells <- MCCells
  Start <- MCStart
  Source <- MCSource
  Dest <- MCDest
  SrcOff <- MCSrcOff
  DstOff <- MCDstOff
  Chunks <- MCChunks
  Legs <- MCLegs
  Verified <- MCVerified
  MaxCalls = 3
  Depth = 1
  Buffers = {b1, b2}
  Recycled <- MCRecycled
INVARIANT
  CompletedMeansCopied
