------------------------------ MODULE OrderLog ------------------------------
(***************************************************************************)
(* What the journaled ring promises to the front door and to the engine,   *)
(* with no ring, no goroutines and no bytes: a journal that only grows at  *)
(* its end, of which a prefix is released; an engine that executes the     *)
(* released prefix in order; and for every order one verdict.  An acked    *)
(* order is released.  A refused one is not in the journal and never will  *)
(* be.  An unconfirmed one, which only a failed journal produces, may be   *)
(* in it but is not released.                                              *)
(*                                                                         *)
(* This is the contract in the comment above RingBuffer                    *)
(* (internal/disruptor/buffer.go, "Garantias"), the one internal/ingest    *)
(* builds on: it frees an order_id as soon as Publish refuses the order.   *)
(***************************************************************************)
EXTENDS Naturals, Sequences, FiniteSets

CONSTANT Orders      \* the calls of Publish, each with its order

VARIABLES written,   \* the journal: the orders handed to the OS, in order
          committed, \* how many of them are released to engine and WaitDurable
          executed,  \* how many the engine has processed
          closed,    \* no order is taken any more
          failed,    \* the journal has failed: nothing is written any more
          status     \* what the caller of each Publish knows

logVars == <<written, committed, executed, closed, failed, status>>

Statuses == {"new", "open", "published", "acked", "unconfirmed", "refused"}

SetStatus(o, s) == status' = [status EXCEPT ![o] = s]
InJournal(o) == \E i \in DOMAIN written : written[i] = o
Released(o) == \E i \in 1..committed : written[i] = o

LogInit ==
  /\ written = <<>> /\ committed = 0 /\ executed = 0 /\ closed = FALSE /\ failed = FALSE
  /\ status = [o \in Orders |-> "new"]

Submit(o) ==
  /\ status[o] = "new" /\ SetStatus(o, "open")
  /\ UNCHANGED <<written, committed, executed, closed, failed>>

Accept(o) ==
  /\ status[o] = "open" /\ SetStatus(o, "published")
  /\ UNCHANGED <<written, committed, executed, closed, failed>>

Refuse(o) ==
  /\ status[o] = "open" /\ (closed \/ failed) /\ SetStatus(o, "refused")
  /\ UNCHANGED <<written, committed, executed, closed, failed>>

\* Published orders, none of them there before, join the journal.
Write ==
  /\ ~failed
  /\ \E S \in (SUBSET {o \in Orders : status[o] = "published" /\ ~InJournal(o)}) \ {{}} :
       \E batch \in [1..Cardinality(S) -> S] :
         /\ \A o \in S : \E i \in DOMAIN batch : batch[i] = o
         /\ written' = written \o batch
  /\ UNCHANGED <<committed, executed, closed, failed, status>>

Commit ==
  /\ ~failed
  /\ \E n \in (committed + 1)..Len(written) : committed' = n
  /\ UNCHANGED <<written, executed, closed, failed, status>>

Fail ==
  /\ ~failed /\ failed' = TRUE
  /\ UNCHANGED <<written, committed, executed, closed, status>>

Close ==
  /\ ~closed /\ closed' = TRUE
  /\ UNCHANGED <<written, committed, executed, failed, status>>

Execute ==
  /\ executed < committed /\ executed' = executed + 1
  /\ UNCHANGED <<written, committed, closed, failed, status>>

Acknowledge(o) ==
  /\ status[o] = "published" /\ Released(o)
  /\ SetStatus(o, "acked")
  /\ UNCHANGED <<written, committed, executed, closed, failed>>

Unconfirm(o) ==
  /\ status[o] = "published" /\ failed /\ ~Released(o)
  /\ SetStatus(o, "unconfirmed")
  /\ UNCHANGED <<written, committed, executed, closed, failed>>

LogNext ==
  \/ Write \/ Commit \/ Fail \/ Close \/ Execute
  \/ \E o \in Orders :
       Submit(o) \/ Accept(o) \/ Refuse(o) \/ Acknowledge(o) \/ Unconfirm(o)

LogSpec == LogInit /\ [][LogNext]_logVars
=============================================================================
