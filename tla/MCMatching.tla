----------------------------- MODULE MCMatching -----------------------------
(***************************************************************************)
(* internal/matching: the order book, and its price heaps alone with more  *)
(* prices than the book can be run with.  A behaviour explores one of the  *)
(* two, `part`, and the other stays where it starts.                       *)
(***************************************************************************)
EXTENDS MCOrderBook, MCPriceHeap

VARIABLE part

allVars == <<part, vars, heapVars>>

MatchingInit ==
  /\ part \in {"book", "heap"} /\ Init /\ HeapInit
  /\ part = "book" => kind = "Buy"

MatchingNext ==
  \/ part = "book" /\ Next /\ UNCHANGED <<part, heapVars>>
  \/ part = "heap" /\ HeapNext /\ UNCHANGED <<part, vars>>

MatchingSpec == MatchingInit /\ [][MatchingNext]_allVars
=============================================================================
