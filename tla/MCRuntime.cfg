CONSTANTS
  t1 = t1
  t2 = t2
  t3 = t3
  Transfers <- Two
  Deps <- NoDeps
  Chunks <- TwoChunks
  ChunkSize <- UnitChunks
  Staged <- ThroughBoth
  Verified <- Checked
  Priority <- SamePriority
  Depth = 2
  Capacity <- Room
  MaxQueued = 1
  WorkerThreads = 2
  Addresses = {a1, a2, a3}
  Sizes = {1}
  ByteWrap = 64
SPECIFICATION Spec
SYMMETRY AddressSymmetry
INVARIANT TypeOK
INVARIANT OutcomeHonest
INVARIANT CountersClose
INVARIANT StagingReachable
INVARIANT BoundedStaging
PROPERTY LegalLifecycle
