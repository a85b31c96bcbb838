SPECIFICATION HangingSpec
CONSTANTS
  Orders = {o1, o2, o3, o4}
  QueueRoom = 1
  BatchSize = 2
PROPERTIES
  CloseReturns
CHECK_DEADLOCK FALSE
