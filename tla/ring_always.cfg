SPECIFICATION Spec
CONSTANTS
  Orders = {o1, o2, o3}
  None = None
  Capacity = 2
  MaxBatch = 2
  ClosedBit = 8
  SyncEachBatch = TRUE
SYMMETRY OrderSymmetry
INVARIANTS
  TypeOK
  AckImpliesDurable
  EngineFollowsJournal
  SlotsKept
  NoLostWakeup
  RefusedLeavesNoTrace
  UnconfirmedNotExecuted
PROPERTIES
  ImplementsOrderLog
CHECK_DEADLOCK FALSE
