----------------------------- MODULE MCExchange -----------------------------
(***************************************************************************)
(* Two connections.  The first pipelines two orders; the second retries    *)
(* the first of them behind a malformed frame that has the id of the       *)
(* second.                                                                 *)
(***************************************************************************)
EXTENDS Exchange

CONSTANTS a1, a2, b, bad, A, B, c1, c2

MCOrders  == {a1, a2, b, bad}
MCInvalid == {bad}
MCIdOf    ==
  [o \in MCOrders |-> IF o \in {a1, a2} THEN A ELSE B]
MCConns   == {c1, c2}
MCScript  ==
  [c \in MCConns |-> IF c = c1 THEN <<a1, b>> ELSE <<bad, a2>>]
=============================================================================
