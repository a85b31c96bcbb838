------------------------------- MODULE Batcher ------------------------------
(***************************************************************************)
(* The Postgres archiver of internal/storage/batcher.go: callers of Push,  *)
(* the worker goroutine with the sink (the bulk INSERT), and one caller of *)
(* Close with its context.                                                 *)
(*                                                                         *)
(* closeMu is Go's RWMutex: a Lock that waits keeps new RLocks out, so it  *)
(* has a state of its own here.                                            *)
(***************************************************************************)
EXTENDS Naturals, Sequences, FiniteSets

CONSTANTS Orders,      \* the confirmed orders, each pushed once
          QueueRoom,   \* cap(orderCh)
          BatchSize

ASSUME BatcherAssumption == QueueRoom \in Nat \ {0} /\ BatchSize \in Nat \ {0}

VARIABLES
  push,        \* per order: "new", "locked", "send", "ok", "refused"
  lock,        \* the writer's side of closeMu: "free", "waiting", "held"
  closed,      \* b.closed
  chClosed,    \* orderCh is closed
  orderCh,
  worker,      \* "receive", "flush", "last flush", "done"
  batch,
  cancelled,   \* flushCtx
  archived,    \* what the sink has stored, in order
  lost,        \* what failed flushes reported as lost ("ordens perdidas do arquivo")
  accepted,    \* ghost: what went into orderCh, in the order of the sends
  closer,      \* where the caller of Close stands
  expired      \* its ctx

pushVars   == <<push, closed, chClosed, lock>>
workerVars == <<worker, batch, archived, lost>>
closeVars  == <<closer, cancelled, expired>>
queueVars  == <<orderCh, accepted>>
vars == <<pushVars, queueVars, workerVars, closeVars>>

PushSteps   == {"new", "locked", "send", "ok", "refused"}
WorkerSteps == {"receive", "flush", "last flush", "done"}
CloserSteps == {"idle", "lock", "mark", "wait", "grace", "returned"}

Init ==
  /\ push = [o \in Orders |-> "new"]
  /\ lock = "free" /\ closed = FALSE /\ chClosed = FALSE /\ orderCh = <<>>
  /\ worker = "receive" /\ batch = <<>> /\ cancelled = FALSE
  /\ archived = <<>> /\ lost = {} /\ accepted = <<>>
  /\ closer = "idle" /\ expired = FALSE

-----------------------------------------------------------------------------
(* Push *)

Readers == {o \in Orders : push[o] \in {"locked", "send"}}

RLock(o) ==
  /\ push[o] = "new" /\ lock = "free"
  /\ push' = [push EXCEPT ![o] = "locked"]
  /\ UNCHANGED <<lock, closed, chClosed, queueVars, workerVars, closeVars>>

FaultyLook(o) ==
  /\ push[o] = "locked"
  /\ push' = [push EXCEPT ![o] = "send"]
  /\ UNCHANGED <<lock, closed, chClosed, queueVars, workerVars, closeVars>>

Look(o) ==
  /\ push[o] = "locked"
  /\ push' = [push EXCEPT ![o] = IF closed THEN "refused" ELSE "send"]
  /\ UNCHANGED <<lock, closed, chClosed, queueVars, workerVars, closeVars>>

\* The send blocks while the queue is full, with the read lock held.
Send(o) ==
  /\ push[o] = "send" /\ Len(orderCh) < QueueRoom
  /\ orderCh' = Append(orderCh, o) /\ accepted' = Append(accepted, o)
  /\ push' = [push EXCEPT ![o] = "ok"]
  /\ UNCHANGED <<lock, closed, chClosed, workerVars, closeVars>>

Push(o) == RLock(o) \/ Look(o) \/ Send(o)

-----------------------------------------------------------------------------
(* The worker *)

Receive ==
  /\ worker = "receive" /\ orderCh # <<>>
  /\ batch' = Append(batch, Head(orderCh))
  /\ orderCh' = Tail(orderCh)
  /\ worker' = IF Len(batch') >= BatchSize THEN "flush" ELSE "receive"
  /\ UNCHANGED <<pushVars, accepted, archived, lost, closeVars>>

\* The ticker; flush does nothing on an empty batch.
Tick ==
  /\ worker = "receive" /\ batch # <<>>
  /\ worker' = "flush"
  /\ UNCHANGED <<pushVars, queueVars, batch, archived, lost, closeVars>>

ChannelClosed ==
  /\ worker = "receive" /\ chClosed /\ orderCh = <<>>
  /\ worker' = IF batch = <<>> THEN "done" ELSE "last flush"
  /\ UNCHANGED <<pushVars, queueVars, batch, archived, lost, closeVars>>

AfterFlush == IF worker = "flush" THEN "receive" ELSE "done"
Flushing == worker \in {"flush", "last flush"}

FaultySinkStores ==
  /\ Flushing
  /\ archived' = archived \o batch
  /\ worker' = AfterFlush
  /\ UNCHANGED <<pushVars, queueVars, batch, lost, closeVars>>

SinkStores ==
  /\ Flushing
  /\ archived' = archived \o batch
  /\ batch' = <<>> /\ worker' = AfterFlush
  /\ UNCHANGED <<pushVars, queueVars, lost, closeVars>>

FaultySinkFails ==
  /\ Flushing
  /\ lost' = lost \cup {batch[i] : i \in DOMAIN batch}
  /\ batch' = <<>> /\ worker' = "done"
  /\ UNCHANGED <<pushVars, queueVars, archived, closeVars>>

\* The INSERT, cancelled or not, reported an error: the batch is given up.  One
\* statement stores all of it or nothing, and an error does not say which.
SinkFails ==
  /\ Flushing
  /\ archived' \in {archived, archived \o batch}
  /\ lost' = lost \cup {batch[i] : i \in DOMAIN batch}
  /\ batch' = <<>> /\ worker' = AfterFlush
  /\ UNCHANGED <<pushVars, queueVars, closeVars>>

Sink == SinkStores \/ SinkFails
Worker == Receive \/ Tick \/ ChannelClosed

-----------------------------------------------------------------------------
(* Close *)

LockWaits ==
  /\ closer = "idle" /\ closer' = "lock" /\ lock' = "waiting"
  /\ UNCHANGED <<push, closed, chClosed, queueVars, workerVars, cancelled, expired>>

LockTaken ==
  /\ closer = "lock" /\ Readers = {}
  /\ closer' = "mark" /\ lock' = "held"
  /\ UNCHANGED <<push, closed, chClosed, queueVars, workerVars, cancelled, expired>>

\* closed is set, the channel closed and the lock released.
CloseChannel ==
  /\ closer = "mark"
  /\ closed' = TRUE /\ chClosed' = TRUE
  /\ closer' = "wait" /\ lock' = "free"
  /\ UNCHANGED <<push, queueVars, workerVars, cancelled, expired>>

FaultyWorkerDone ==
  /\ closer = "wait"
  /\ closer' = "returned" /\ cancelled' = TRUE
  /\ UNCHANGED <<pushVars, queueVars, workerVars, expired>>

WorkerDone ==
  /\ closer \in {"wait", "grace"} /\ worker = "done"
  /\ closer' = "returned" /\ cancelled' = TRUE
  /\ UNCHANGED <<pushVars, queueVars, workerVars, expired>>

\* ctx.Done(): the INSERT under way is cancelled and gets two more seconds.
GiveUp ==
  /\ closer = "wait" /\ expired
  /\ closer' = "grace" /\ cancelled' = TRUE
  /\ UNCHANGED <<pushVars, queueVars, workerVars, expired>>

GraceOver ==
  /\ closer = "grace" /\ closer' = "returned"
  /\ UNCHANGED <<pushVars, queueVars, workerVars, cancelled, expired>>

\* The deadline of ctx runs from the call of Close.
Expire ==
  /\ closer # "idle" /\ ~expired /\ expired' = TRUE
  /\ UNCHANGED <<pushVars, queueVars, workerVars, closer, cancelled>>

Close == LockTaken \/ CloseChannel \/ WorkerDone \/ GiveUp \/ GraceOver

Next ==
  \/ \E o \in Orders : Push(o)
  \/ Worker \/ Sink \/ LockWaits \/ Close \/ Expire

Spec == Init /\ [][Next]_vars

\* Goroutines run, ctx has a deadline, and an INSERT whose context is cancelled
\* returns.  Nothing obliges the database to answer before that.
HangingSink ==
  /\ \A o \in Orders : WF_vars(push[o] # "new" /\ Push(o))
  /\ WF_vars(Worker) /\ WF_vars(Close) /\ WF_vars(Expire)
  /\ WF_vars(cancelled /\ Sink)

\* The database answers every INSERT, one way or the other.
PromptSink == WF_vars(Sink)

HangingSpec == Spec /\ HangingSink
PromptSpec  == Spec /\ HangingSink /\ PromptSink
=============================================================================
