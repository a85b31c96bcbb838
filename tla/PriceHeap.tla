----------------------------- MODULE PriceHeap ------------------------------
(***************************************************************************)
(* The price heaps of internal/matching/heaps.go as container/heap drives  *)
(* them, and bestPrices (orderbook.go), which reads the k best prices off  *)
(* the heap array without sorting it.  Positions count from 1.  Better is  *)
(* Less of the heap: < for asks, > for bids.                               *)
(***************************************************************************)
EXTENDS Naturals, Sequences, FiniteSets

Better(side, p, q) == IF side = "Sell" THEN p < q ELSE p > q

Swap(h, i, j) == [h EXCEPT ![i] = h[j], ![j] = h[i]]

\* heap.Push: the price goes to the end and climbs while it beats its parent.
HeapPush(side, h, price) ==
  LET positions == 1..(Len(h) + 1)
      up[s \in [positions -> Nat] \X positions] ==
        LET g == s[1]
            i == s[2]
            parent == i \div 2
        IN IF i > 1 /\ Better(side, g[i], g[parent])
             THEN up[<<Swap(g, i, parent), parent>>]
             ELSE g
  IN up[<<Append(h, price), Len(h) + 1>>]

\* The better child of position i, the left one on a tie; i itself if it has none.
BetterChild(side, g, i) ==
  IF 2 * i > Len(g) THEN i
  ELSE IF 2 * i + 1 <= Len(g) /\ Better(side, g[2 * i + 1], g[2 * i])
         THEN 2 * i + 1
         ELSE 2 * i

\* heap.Pop: the last price replaces the top and sinks below every better child.
HeapPop(side, h) ==
  LET down[s \in [1..(Len(h) - 1) -> Nat] \X (1..Len(h))] ==
        LET g == s[1]
            i == s[2]
            child == BetterChild(side, g, i)
        IN IF child # i /\ Better(side, g[child], g[i])
             THEN down[<<Swap(g, i, child), child>>]
             ELSE g
      shortened == SubSeq(Swap(h, 1, Len(h)), 1, Len(h) - 1)
  IN down[<<shortened, 1>>]

\* One turn of bestPrices: a price that beats the worst of k takes its place and
\* moves to its rank; out stays sorted from best to worst.
KeepBest(side, out, k, price) ==
  IF Len(out) = k /\ ~Better(side, price, out[k]) THEN out
  ELSE LET kept == IF Len(out) < k THEN out ELSE SubSeq(out, 1, k - 1)
           rank == Cardinality({i \in DOMAIN kept : ~Better(side, price, kept[i])})
       IN SubSeq(kept, 1, rank) \o <<price>> \o SubSeq(kept, rank + 1, Len(kept))

\* 2^k - 1, the positions of the first k levels of a binary heap.
FullLevels[k \in Nat] == IF k = 0 THEN 0 ELSE 2 * FullLevels[k - 1] + 1

FaultyWindow(h, k) == IF Len(h) > FullLevels[k - 1] THEN FullLevels[k - 1] + 1 ELSE Len(h)

\* The k-th best of a binary heap sits no deeper than level k.
Window(h, k) == IF k < 62 /\ Len(h) > FullLevels[k] THEN FullLevels[k] ELSE Len(h)

BestPrices(side, h, k) ==
  LET scan[n \in 0..Len(h)] ==
        IF n = 0 THEN <<>> ELSE KeepBest(side, scan[n - 1], k, h[n])
  IN scan[Window(h, k)]
=============================================================================
