SPECIFICATION StorageSpec
CONSTANTS
  Orders = {o1, o2, o3, o4}
  QueueRoom = 1
  BatchSize = 2
  MaxEvents = 6
  MaxBatch = 2
  MaxCrashes = 3
  JunkLengths = {0, 2, 3}
INVARIANTS
  NoSendOnClosed
  EveryOrderSomewhereOnce
  CloseDrains
  NothingLostNothingInvented
  EndsInLineFeed
PROPERTIES
  ReplayIsTrue
  CloseReturns
CHECK_DEADLOCK FALSE
