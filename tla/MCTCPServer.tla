---------------------------- MODULE MCTCPServer -----------------------------
(* One client pipelines more frames than a batch holds, the other connects  *)
(* and says nothing.                                                        *)
EXTENDS TCPServer

CONSTANTS pipelining, idle

MCClients == {pipelining, idle}
MCFrames  == [c \in MCClients |-> IF c = pipelining THEN 3 ELSE 0]
=============================================================================
