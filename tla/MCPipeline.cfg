SPECIFICATION Spec
CONSTANTS
  dd = dd
  via = via
  copy = copy
  dev = dev
  dew = dew
  f = f
  g = g
  h = h
  i = i
  b1 = b1
  b2 = b2
  b3 = b3
  Transfers <- MCTransfers
  Endpoints <- MCEndpoints
  Kind <- MCKind
  Cells <- MCCells
  Start <- MCStart
  Source <- MCSource
  Dest <- MCDest
  SrcOff <- MCSrcOff
  DstOff <- MCDstOff
  Chunks <- MCChunks
  Legs <- MCLegs
  Verified <- MCVerified
  MaxCalls = 2
  Depth = 2
  Buffers <- MCBuffers
  Recycled <- MCRecycled
INVARIANTS
  VerifiedMeansCopied
  UnsharedMeansCopied
  StagedDataIntact
PROPERTIES
  UntouchedAfterReturn
  TransfersReturn
