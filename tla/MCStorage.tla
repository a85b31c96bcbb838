----------------------------- MODULE MCStorage ------------------------------
(***************************************************************************)
(* internal/storage: the archiver and the write-ahead log.  They share no  *)
(* state, so a behaviour explores one of them, `part`, and the other stays *)
(* where it starts.                                                        *)
(***************************************************************************)
EXTENDS MCBatcher, WAL

VARIABLE part

allVars == <<part, vars, logVars>>

StorageInit == part \in {"archiver", "log"} /\ Init /\ LogInit

Archiving(A) == part = "archiver" /\ A /\ UNCHANGED <<part, logVars>>

StorageNext ==
  \/ Archiving(Next)
  \/ part = "log" /\ LogNext /\ UNCHANGED <<part, vars>>

\* PromptSpec of Batcher, for the part that moves.
StorageSpec ==
  /\ StorageInit /\ [][StorageNext]_allVars
  /\ \A o \in Orders : WF_allVars(Archiving(push[o] # "new" /\ Push(o)))
  /\ WF_allVars(Archiving(Worker)) /\ WF_allVars(Archiving(Sink))
  /\ WF_allVars(Archiving(Close)) /\ WF_allVars(Archiving(Expire))
=============================================================================
