----------------------------- MODULE MCPriceHeap ----------------------------
(***************************************************************************)
(* Every heap array that pushes of distinct prices and pops can build, for *)
(* both orders, against the set of prices it should hold.  The order book  *)
(* never pushes a price twice: a price is in the heap while its level is.  *)
(***************************************************************************)
EXTENDS PriceHeap

CONSTANTS MaxPrice, Depths

ASSUME DepthAssumption == MaxPrice \in Nat /\ Depths \subseteq Nat \ {0}

VARIABLES kind, array, held   \* whose heap, its array, the prices it should hold

heapVars == <<kind, array, held>>

HeapInit == kind \in {"Buy", "Sell"} /\ array = <<>> /\ held = {}

PushPrice(p) ==
  /\ p \notin held
  /\ array' = HeapPush(kind, array, p)
  /\ held' = held \cup {p}
  /\ UNCHANGED kind

PopPrice ==
  /\ array # <<>>
  /\ array' = HeapPop(kind, array)
  /\ held' = held \ {array[1]}
  /\ UNCHANGED kind

HeapNext == PopPrice \/ \E p \in 1..MaxPrice : PushPrice(p)

HeapSpec == HeapInit /\ [][HeapNext]_heapVars

BetterThan(p) == {q \in held : Better(kind, q, p)}

\* The array holds each live price once with the best of them first, over any mix of
\* heap.Push and heap.Pop (heaps.go; orderbook.go 107-111, 205-212), and bestPrices
\* returns the k best prices, best first, although it looks only at the first 2^k - 1
\* entries of the array (orderbook.go 321-347).
BestPricesExact ==
  /\ Len(array) = Cardinality(held)
  /\ {array[i] : i \in DOMAIN array} = held
  /\ held # {} => BetterThan(array[1]) = {}
  /\ \A k \in Depths :
       LET out == BestPrices(kind, array, k)
       IN /\ Len(out) = IF k < Cardinality(held) THEN k ELSE Cardinality(held)
          /\ \A i \in DOMAIN out : out[i] \in held /\ Cardinality(BetterThan(out[i])) = i - 1
=============================================================================
