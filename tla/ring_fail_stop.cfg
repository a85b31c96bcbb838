SPECIFICATION Spec
CONSTANTS
  Orders = {o1, o2}
  None = None
  Capacity = 2
  MaxBatch = 1
  ClosedBit = 8
  SyncEachBatch = TRUE
INVARIANT FailStopDrains
CHECK_DEADLOCK FALSE
