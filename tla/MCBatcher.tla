----------------------------- MODULE MCBatcher ------------------------------
(* The archiver's promises, on a few orders and a queue of one.             *)
EXTENDS Batcher, SequencesExt

\* Every variable has its type; the queue and the batch keep to their room.
TypeOK ==
  /\ push \in [Orders -> PushSteps] /\ lock \in {"free", "waiting", "held"}
  /\ closed \in BOOLEAN /\ chClosed \in BOOLEAN /\ cancelled \in BOOLEAN /\ expired \in BOOLEAN
  /\ orderCh \in Seq(Orders) /\ batch \in Seq(Orders) /\ archived \in Seq(Orders)
  /\ accepted \in Seq(Orders)
  /\ lost \subseteq Orders
  /\ worker \in WorkerSteps /\ closer \in CloserSteps
  /\ Len(orderCh) <= QueueRoom /\ Len(batch) <= BatchSize

\* Nobody is about to send on orderCh once it is closed (it would panic): what the
\* read lock around Push is for (batcher.go 105-113).
NoSendOnClosed == chClosed => \A o \in Orders : push[o] # "send"

\* s is made of entries of t, in the order they have there.
InOrderOf(s, t) ==
  \A i, j \in DOMAIN s : i < j =>
    \E k, m \in DOMAIN t : k < m /\ t[k] = s[i] /\ t[m] = s[j]

\* What has been through a flush: all that was taken but the batch and the queue.
Flushed == SubSeq(accepted, 1, Len(accepted) - Len(batch) - Len(orderCh))

\* Every order that Push took, and no other, is in the queue, in the batch, in the
\* table or among those reported as lost, in the first three at most once all told,
\* and all three keep the order of the Pushes.  Only an order that was reported as
\* lost may be in the table all the same: its INSERT took effect and then failed
\* (batcher.go 105-113, 147-185, 191).
EveryOrderSomewhereOnce ==
  /\ TypeOK
  /\ IsInjective(accepted) /\ ToSet(accepted) = {o \in Orders : push[o] = "ok"}
  /\ accepted = Flushed \o batch \o orderCh
  /\ ToSet(archived) \cup lost = ToSet(Flushed)
  /\ IsInjective(archived) /\ InOrderOf(archived, Flushed)

\* A Close that returns before its ctx expired has nothing left in memory
\* ("grava tudo que já foi enfileirado", batcher.go:115).
CloseDrains ==
  closer = "returned" /\ ~expired => worker = "done" /\ batch = <<>> /\ orderCh = <<>>

\* Close returns.  With a database that answers it always does.  With one that hangs
\* it should once ctx expires ("se ctx expirar antes, aborta a gravação em andamento
\* e devolve ctx.Err()", batcher.go:115-117).
CloseReturns == closer = "lock" ~> closer = "returned"
=============================================================================
