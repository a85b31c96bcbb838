---------------------------- MODULE MCOrderBook -----------------------------
(***************************************************************************)
(* The order book against the naive price-time book, and the consistency   *)
(* of its redundant parts: map, heap, cached best price, cached volume.    *)
(***************************************************************************)
EXTENDS OrderBook, Functions

TotalOf(orders) ==
  LET first[n \in 0..Len(orders)] == IF n = 0 THEN 0 ELSE first[n - 1] + orders[n].qty
  IN first[Len(orders)]
Idle == taker = NoTaker

OrderType == [id : 1..MaxOrders, side : Sides, price : Prices, qty : Nat]

\* Every variable has its type: no quantity falls below zero, TradeCh keeps to its room.
TypeOK ==
  /\ \A s \in Sides :
       /\ DOMAIN level[s] \subseteq Prices
       /\ \A p \in DOMAIN level[s] : /\ Range(level[s][p].orders) \subseteq OrderType
                                     /\ level[s][p].volume \in Nat
  /\ heap \in [Sides -> Seq(Prices)]
  /\ best \in [Sides -> Prices \cup {0}]
  /\ taker \in OrderType \cup {NoTaker}
  /\ isRestoring \in BOOLEAN /\ arrived \in 0..MaxOrders
  /\ Len(tradeCh) <= TradeRoom

\* The heap, the map and the cached best price of a side always speak of the same
\* levels; no level is empty or holds a spent order, each queue is in order of
\* arrival and TotalVolume is what its orders add up to (orderbook.go 46-65).
\* Between orders the best bid is below the best ask.
BookConsistent ==
  /\ TypeOK
  /\ Idle /\ best["Buy"] > 0 /\ best["Sell"] > 0 => best["Buy"] < best["Sell"]
  /\ \A s \in Sides :
       /\ Len(heap[s]) = Cardinality(DOMAIN level[s])
       /\ Range(heap[s]) = DOMAIN level[s]
       /\ best[s] = IF heap[s] = <<>> THEN 0 ELSE heap[s][1]
       /\ \A p \in DOMAIN level[s] :
            LET lvl == level[s][p]
            IN /\ lvl.orders # <<>>
               /\ \A i \in DOMAIN lvl.orders : lvl.orders[i].qty > 0
               /\ \A i, j \in DOMAIN lvl.orders : i < j => lvl.orders[i].id < lvl.orders[j].id
               /\ lvl.volume = TotalOf(lvl.orders)

\* The market data shows, best first, the best prices there are with their volume,
\* and all of them when there are no more than SnapshotDepth (orderbook.go 305-319).
SnapshotTrue ==
  Idle => \A s \in Sides :
    LET shown == Snapshot(s)
        live  == DOMAIN level[s]
    IN /\ Len(shown) = IF Cardinality(live) < SnapshotDepth THEN Cardinality(live) ELSE SnapshotDepth
       /\ \A i \in DOMAIN shown :
            /\ shown[i].price \in live
            /\ Cardinality({p \in live : Better(s, p, shown[i].price)}) = i - 1
            /\ shown[i].qty = TotalOf(level[s][shown[i].price].orders)

\* TradeCh grows only in a step that executes a trade, by that trade and not while the
\* journal is replayed; a live trade is dropped only when the channel is full; and what
\* is in the channel leaves it at its head.  So what the SQS
\* workers receive is, in order, live trades, none of them twice, whatever was dropped
\* in between (orderbook.go 171-185; sqs.go 67).
TradesPublishedOnce ==
  [][ LET executes == /\ executed' # <<>>
                      /\ executed' = Append(executed, executed'[Len(executed')])
          publishes == tradeCh' = Append(tradeCh, executed'[Len(executed')])
          full == Len(tradeCh) = TradeRoom
      IN \/ executes /\ ~isRestoring /\ publishes
         \/ executes /\ (isRestoring \/ full) /\ UNCHANGED tradeCh
         \/ UNCHANGED <<executed, tradeCh>>
         \/ UNCHANGED executed /\ tradeCh # <<>> /\ tradeCh' = Tail(tradeCh)
    ]_vars

\* What the naive book sees of this one.
IsOrder(o) == o \in OrderType
Resting == UNION {UNION {Range(level[s][p].orders) : p \in DOMAIN level[s]} : s \in Sides}

Naive == INSTANCE PriceTimeBook WITH
  IsOrder  <- IsOrder,
  resting  <- Resting,
  incoming <- taker,
  trades   <- executed

\* The engine trades exactly as the naive book does, trade by trade: best price
\* first, oldest first within a price, at the resting order's price.
ImplementsPriceTime == Naive!BookSpec
=============================================================================
