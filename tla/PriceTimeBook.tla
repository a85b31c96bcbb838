--------------------------- MODULE PriceTimeBook ----------------------------
(***************************************************************************)
(* Price-time priority, with no levels, no heaps and no cached best price: *)
(* a set of resting orders, of which the best price trades first and, at   *)
(* one price, the oldest.  It is the naive book that the repository tests  *)
(* its engine against (internal/matching/reference_test.go, refBook), one  *)
(* step per trade.                                                         *)
(***************************************************************************)
EXTENDS Naturals, Sequences

CONSTANTS NoTaker,   \* nobody is being matched
          IsOrder(_) \* the orders that may arrive

VARIABLES resting,   \* set of [id, side, price, qty]; a smaller id arrived first
          incoming,  \* the order being matched, or NoTaker
          trades     \* every trade executed, as [price, qty], oldest first

bookVars == <<resting, incoming, trades>>

Beats(a, b) ==
  \/ a.price = b.price /\ a.id < b.id
  \/ a.side = "Sell" /\ a.price < b.price
  \/ a.side = "Buy"  /\ a.price > b.price

\* The orders that would trade with the incoming one, at their own price.
Matching ==
  {r \in resting : r.side # incoming.side
                   /\ IF incoming.side = "Buy" THEN r.price <= incoming.price
                                               ELSE r.price >= incoming.price}

BookInit == resting = {} /\ incoming = NoTaker /\ trades = <<>>

Arrive ==
  /\ incoming = NoTaker
  /\ incoming' # NoTaker /\ IsOrder(incoming')
  /\ UNCHANGED <<resting, trades>>

Trade ==
  /\ incoming # NoTaker /\ incoming.qty > 0
  /\ \E r \in Matching :
       LET q == IF r.qty < incoming.qty THEN r.qty ELSE incoming.qty IN
       /\ \A s \in Matching \ {r} : Beats(r, s)
       /\ trades' = Append(trades, [price |-> r.price, qty |-> q])
       /\ incoming' = [incoming EXCEPT !.qty = @ - q]
       /\ resting' = (resting \ {r})
                       \cup (IF r.qty > q THEN {[r EXCEPT !.qty = @ - q]} ELSE {})

Rest ==
  /\ incoming # NoTaker
  /\ IF incoming.qty = 0 THEN UNCHANGED resting
       ELSE Matching = {} /\ resting' = resting \cup {incoming}
  /\ incoming' = NoTaker
  /\ UNCHANGED trades

BookNext == Arrive \/ Trade \/ Rest

BookSpec == BookInit /\ [][BookNext]_bookVars
=============================================================================
