CONSTANTS
  Addresses = {a1, a2, a3}
  Sizes = {2, 3}
  ByteWrap = 16
  Clients = {c1, c2}
  Capacity = 6
  MaxRequests = 3
SPECIFICATION Spec
INVARIANT ExclusiveBuffers
INVARIANT AccountingExact
INVARIANT WithinCapacity
PROPERTY CancelledAllocationReturns
