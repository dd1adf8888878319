CONSTANTS
  ByteWrap = 8
  Requests <- MCRequests
  ByteBits = 2
  Poly <- MCPoly
  Content <- MCContent
  Before <- MCBefore
  Starts = {0, 3}
  BlockSize = 4
  LengthSize = 2
  FileBuffer = 3
  DeviceBuffer = 5
SPECIFICATION Spec
INVARIANT ExactCopy
INVARIANT WithinEndpoints
INVARIANT VerificationExact
PROPERTY ChunksDisjoint
