CONSTANTS
  r1 = r1
  r2 = r2
  r3 = r3
  Records <- MCRecords
  Kind <- MCKind
  NoRecord = NoRecord
  Transfers = {t1, t2}
  Ids = {i1, i2}
SPECIFICATION LSpec
INVARIANT HandlesExact
INVARIANT OpenWhileUsed
INVARIANT NoOrphans
CHECK_DEADLOCK FALSE
