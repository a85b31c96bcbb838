----------------------------- MODULE MCShutdown -----------------------------
(* A request over HTTP and one over TCP, at any point of their way when the *)
(* shutdown begins and as it goes on.                                       *)
EXTENDS Shutdown

CONSTANTS h, t

MCOrders == {h, t}
MCIdOf   == [o \in MCOrders |-> o]
MCFront  == [o \in MCOrders |-> IF o = h THEN "http" ELSE "tcp"]
=============================================================================
