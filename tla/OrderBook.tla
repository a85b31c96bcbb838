----------------------------- MODULE OrderBook ------------------------------
(***************************************************************************)
(* The matching engine of internal/matching: OrderBook.Process as the      *)
(* engine goroutine calls it, one step per turn of its inner loop.  ob.mu  *)
(* is held from Arrive to Leave; GetSnapshot takes it shared, so it sees   *)
(* the states with no taker only.  matchBuy and matchSell mirror each      *)
(* other and are one definition over the taker's side.                     *)
(***************************************************************************)
EXTENDS PriceHeap

CONSTANTS Prices, Quantities,  \* what ingest.Validate lets through: 1 and up
          MaxOrders,           \* bound: how many orders arrive
          TradeRoom,           \* cap(cloudPublisher.TradeCh)
          SnapshotDepth,
          NoTaker

ASSUME BookAssumption ==
  /\ Prices \subseteq Nat \ {0} /\ Quantities \subseteq Nat \ {0}
  /\ MaxOrders \in Nat /\ TradeRoom \in Nat /\ SnapshotDepth \in Nat \ {0}
  /\ NoTaker \notin [id : Nat, side : {"Buy", "Sell"}, price : Nat, qty : Nat]

VARIABLES
  level,       \* bidsMap / asksMap: side -> price -> [orders, volume]
  heap,        \* bidPrices / askPrices: side -> array
  best,        \* bestBid / bestAsk: side -> price, 0 when the side is empty
  taker,       \* the order being processed, or NoTaker
  isRestoring,
  tradeCh,     \* cloudPublisher.TradeCh: the trades no SQS worker has received yet
  arrived,     \* how many orders have been processed or started
  executed     \* ghost: every trade, published or not

bookState == <<level, heap, best>>
vars == <<bookState, taker, isRestoring, tradeCh, arrived, executed>>

Sides == {"Buy", "Sell"}
Opposite(side) == IF side = "Buy" THEN "Sell" ELSE "Buy"

Init ==
  /\ level = [s \in Sides |-> <<>>]
  /\ heap = [s \in Sides |-> <<>>]
  /\ best = [s \in Sides |-> 0]
  /\ taker = NoTaker
  /\ isRestoring = TRUE
  /\ tradeCh = <<>> /\ arrived = 0 /\ executed = <<>>

\* main: the journal has been replayed, from here on trades are published.
EndRestore ==
  /\ isRestoring /\ taker = NoTaker
  /\ isRestoring' = FALSE
  /\ UNCHANGED <<bookState, taker, tradeCh, arrived, executed>>

Arrive ==
  /\ taker = NoTaker
  /\ arrived < MaxOrders
  /\ arrived' = arrived + 1
  /\ \E s \in Sides, p \in Prices, q \in Quantities :
       taker' = [id |-> arrived + 1, side |-> s, price |-> p, qty |-> q]
  /\ UNCHANGED <<bookState, isRestoring, tradeCh, executed>>

\* The outer loop's condition on the best price of the other side.
Crosses ==
  LET top == best[Opposite(taker.side)]
  IN top > 0 /\ (taker.price = top \/ Better(taker.side, taker.price, top))

CanTrade == taker # NoTaker /\ taker.qty > 0 /\ Crosses

FaultyFilled(lvl, q) ==
  LET left == [Head(lvl.orders) EXCEPT !.qty = @ - q]
  IN [orders |-> IF left.qty = 0 THEN Tail(lvl.orders) ELSE Append(Tail(lvl.orders), left),
      volume |-> lvl.volume - q]

\* A level after q of its first order was traded: the order goes when it is spent.
Filled(lvl, q) ==
  LET left == [Head(lvl.orders) EXCEPT !.qty = @ - q]
  IN [orders |-> IF left.qty = 0 THEN Tail(lvl.orders) ELSE <<left>> \o Tail(lvl.orders),
      volume |-> lvl.volume - q]

WithoutPrice(levels, p) == [x \in DOMAIN levels \ {p} |-> levels[x]]
WithLevel(levels, p, lvl) == [x \in DOMAIN levels \cup {p} |-> IF x = p THEN lvl ELSE levels[x]]

\* An empty level leaves the map and the heap; the heap's new top is the new best.
DropLevel(side) ==
  /\ level' = [level EXCEPT ![side] = WithoutPrice(@, best[side])]
  /\ heap' = [heap EXCEPT ![side] = HeapPop(side, @)]
  /\ best' = [best EXCEPT ![side] = IF heap'[side] = <<>> THEN 0 ELSE heap'[side][1]]

FaultyPublished(trade) == IF Len(tradeCh) < TradeRoom THEN Append(tradeCh, trade) ELSE tradeCh

\* The non-blocking send: a full channel drops the trade.
Published(trade) ==
  IF ~isRestoring /\ Len(tradeCh) < TradeRoom THEN Append(tradeCh, trade) ELSE tradeCh

TradeQty(front) == IF taker.qty < front.qty THEN taker.qty ELSE front.qty

\* One turn of the inner loop, and what follows the loop when the level is empty.
Fill ==
  /\ CanTrade
  /\ LET side  == Opposite(taker.side)
         lvl   == level[side][best[side]]
         q     == TradeQty(Head(lvl.orders))
         trade == [price |-> best[side], qty |-> q]
         after == Filled(lvl, q)
     IN /\ taker' = [taker EXCEPT !.qty = @ - q]
        /\ tradeCh' = Published(trade)
        /\ executed' = Append(executed, trade)
        /\ IF after.orders = <<>>
             THEN DropLevel(side)
             ELSE /\ level' = [level EXCEPT ![side][best[side]] = after]
                  /\ UNCHANGED <<heap, best>>
  /\ UNCHANGED <<isRestoring, arrived>>

UpdateBestPrices(side, price) ==
  best' = [best EXCEPT ![side] = IF Better(side, price, @) \/ @ = 0 THEN price ELSE @]

FaultyAddOrder(o) ==
  LET old == IF o.price \in DOMAIN level[o.side] THEN level[o.side][o.price]
                                                 ELSE [orders |-> <<>>, volume |-> 0]
      new == [orders |-> Append(old.orders, o), volume |-> old.volume + o.qty]
  IN /\ level' = [level EXCEPT ![o.side] = WithLevel(@, o.price, new)]
     /\ heap' = [heap EXCEPT ![o.side] = HeapPush(o.side, @, o.price)]
     /\ UpdateBestPrices(o.side, o.price)

\* The order joins the queue of its price; a price new to the side enters the heap.
AddOrder(o) ==
  LET known == o.price \in DOMAIN level[o.side]
      old == IF known THEN level[o.side][o.price] ELSE [orders |-> <<>>, volume |-> 0]
      new == [orders |-> Append(old.orders, o), volume |-> old.volume + o.qty]
  IN /\ level' = [level EXCEPT ![o.side] = WithLevel(@, o.price, new)]
     /\ heap' = [heap EXCEPT ![o.side] = IF known THEN @ ELSE HeapPush(o.side, @, o.price)]
     /\ UpdateBestPrices(o.side, o.price)

\* The end of matchBuy / matchSell: what is left of the taker rests.
Leave ==
  /\ taker # NoTaker /\ ~CanTrade
  /\ IF taker.qty > 0 THEN AddOrder(taker) ELSE UNCHANGED bookState
  /\ taker' = NoTaker
  /\ UNCHANGED <<isRestoring, tradeCh, arrived, executed>>

\* One of the SQS workers receives the oldest trade; it does not take ob.mu.
TakeTrade ==
  /\ tradeCh # <<>>
  /\ tradeCh' = Tail(tradeCh)
  /\ UNCHANGED <<bookState, taker, isRestoring, arrived, executed>>

Next == EndRestore \/ Arrive \/ Fill \/ Leave \/ TakeTrade

Spec == Init /\ [][Next]_vars

\* GetSnapshot, one side.
Snapshot(side) ==
  LET shown == BestPrices(side, heap[side], SnapshotDepth)
  IN [i \in DOMAIN shown |-> [price |-> shown[i], qty |-> level[side][shown[i]].volume]]
=============================================================================
