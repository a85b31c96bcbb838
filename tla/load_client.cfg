SPECIFICATION LoadSpec
CONSTANTS
  Clients = {0, 1}
  Total = 3
  Windows = {0, 1}
  BufferRoom = 1
  WireRoom = 1
INVARIANTS
  ReportTrue
PROPERTIES
  RunEnds
CHECK_DEADLOCK FALSE
