SPECIFICATION FairSpec
CONSTANTS
  h = h
  t = t
  Orders <- MCOrders
  IdOf <- MCIdOf
  Invalid = {}
  Front <- MCFront
  TradeRoom = 1
  Workers = 1
INVARIANTS
  NoTradeOnClosedChannel
  WALOutlivesJournaler
  CleanShutdown
PROPERTIES
  ShutdownEnds
CHECK_DEADLOCK FALSE
