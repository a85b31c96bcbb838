SPECIFICATION ModeSpec
CONSTANTS
  Orders = {o1, o2}
  None = None
  Capacity = 1
  MaxBatch = 1
  ClosedBit = 8
  SyncEachBatch = FALSE
INVARIANTS
  DrainedShutdown
  PlainRingInOrder
PROPERTIES
  PublishReturns
  WaitAnswered
  ShutdownCompletes
CHECK_DEADLOCK FALSE
