CONSTANTS
  t1 = t1
  t2 = t2
  t3 = t3
  Transfers <- Three
  Deps <- FanDeps
  Chunks <- EmptyThird
  ChunkSize <- UnitChunks
  Staged <- Direct
  Verified <- Unchecked
  Priority <- SamePriority
  Depth = 2
  Capacity <- Room
  MaxQueued = 1
  WorkerThreads = 1
  Addresses = {a1}
  Sizes = {1}
  ByteWrap = 64
SPECIFICATION Spec
INVARIANT DependenciesFirst
PROPERTY SubmitReturns
PROPERTY QueuedTransfersEnd
PROPERTY ShutdownReturns
