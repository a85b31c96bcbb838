SPECIFICATION LogSpec
CONSTANTS
  MaxEvents = 5
  MaxBatch = 2
  MaxCrashes = 3
  JunkLengths = {0, 1}
INVARIANTS
  EndsInLineFeed
CHECK_DEADLOCK FALSE
