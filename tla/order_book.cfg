SPECIFICATION MatchingSpec
CONSTANTS
  Prices = {1, 2, 3}
  Quantities = {1, 2}
  MaxOrders = 5
  TradeRoom = 1
  SnapshotDepth = 2
  NoTaker = NoTaker
  MaxPrice = 9
  Depths = {1, 2, 3}
INVARIANTS
  BookConsistent
  SnapshotTrue
  BestPricesExact
PROPERTIES
  TradesPublishedOnce
  ImplementsPriceTime
CHECK_DEADLOCK FALSE
