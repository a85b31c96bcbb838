SPECIFICATION FairSpec
CONSTANTS
  pipelining = pipelining
  idle = idle
  Clients <- MCClients
  Frames <- MCFrames
  MaxPipeline = 2
  AckRoom = 1
INVARIANTS
  GracefulMeansQuiet
PROPERTIES
  ImplementsWire
  ShutdownReturns
CHECK_DEADLOCK FALSE
