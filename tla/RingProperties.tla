--------------------------- MODULE RingProperties ---------------------------
(***************************************************************************)
(* What the journaled ring of RingBuffer must never do, what it must       *)
(* eventually do, and the contract (OrderLog) it implements.               *)
(***************************************************************************)
EXTENDS RingBuffer

\* Every variable has its type; batch and log hold published orders only.
TypeOK ==
  /\ claimCursor \in Nat /\ consumerCursor \in Nat /\ journalCursor \in Nat
  /\ event \in [Slots -> Orders \cup {None}]
  /\ stamp \in [Slots -> Nat]
  /\ finalSeq \in Nat /\ closedFlag \in BOOLEAN /\ failedFlag \in BOOLEAN
  /\ durMu \in Orders \cup {None}
  /\ pc \in [Orders -> OrderSteps]
  /\ seq \in [Orders -> Nat \cup {-1}]
  /\ jpc \in JournalerSteps /\ batch \in Seq(Orders) /\ dirty \in BOOLEAN
  /\ cpc \in EngineSteps /\ executed \in Seq(Orders)
  /\ spc \in ShutdownSteps /\ waited \subseteq {"journaler", "engine"}
  /\ log \in Seq(Orders) /\ synced \in Nat

\* An order WaitDurable confirmed is in the journal at its own sequence, and
\* fsynced when every batch is: what "ack = durable" promises the client.
AckImpliesDurable ==
  \A o \in Orders : pc[o] = "acked" =>
    /\ seq[o] < Len(log)
    /\ log[seq[o] + 1] = o
    /\ SyncEachBatch => seq[o] < synced

\* The engine executes the journal's orders in the journal's order and never one
\* that has not passed the journal (and its fsync, when every batch has one), so
\* that a replay of the file rebuilds the same book.
EngineFollowsJournal ==
  /\ Len(executed) <= Len(log)
  /\ \A i \in 1..Len(executed) : executed[i] = log[i]
  /\ SyncEachBatch => Len(executed) <= synced

\* A published slot is not overwritten until the engine has freed it, and no two
\* producers are ever inside the same slot.
SlotsKept ==
  /\ \A o \in Orders : Stamped(o) /\ seq[o] >= consumerCursor =>
       event[SlotOf(seq[o])] = o /\ stamp[SlotOf(seq[o])] = seq[o] + 1
  /\ \A o, p \in Orders :
       pc[o] \in {"write", "stamp"} /\ pc[p] \in {"write", "stamp"} /\ o # p =>
         SlotOf(seq[o]) # SlotOf(seq[p])

\* Nobody sleeps on durCond past the moment its answer exists, except while the
\* journaler is still on its way to the Broadcast.
NoLostWakeup ==
  \A o \in Orders : pc[o] = "asleep" =>
    /\ ~failedFlag
    /\ Journaled(o) => jpc = "wake"

\* An order whose Publish returned an error leaves no trace: neither the journal
\* nor the engine ever sees it (ingest frees its order_id on that promise).
RefusedLeavesNoTrace ==
  \A o \in Orders : pc[o] \in {"refuse", "failed", "closed"} =>
    o \notin {event[k] : k \in Slots} \cup {batch[i] : i \in DOMAIN batch}
               \cup {log[i] : i \in DOMAIN log} \cup {executed[i] : i \in DOMAIN executed}

\* An order WaitDurable gave up on has not been executed: it is past the cursor
\* that the failed journaler left behind (main replays it, if at all, at restart).
UnconfirmedNotExecuted ==
  \A o \in Orders : pc[o] = "unconfirmed" =>
    /\ failedFlag
    /\ \A i \in DOMAIN executed : executed[i] # o

\* A Shutdown that waited for both stages, with a healthy journal, returns with
\* every order that got a sequence journaled, fsynced and executed.
DrainedShutdown ==
  spc = "returned" /\ waited = {"journaler", "engine"} /\ ~failedFlag =>
    /\ \A o \in Orders : seq[o] >= 0 => \E i \in DOMAIN executed : executed[i] = o
    /\ synced = Len(log)
    /\ executed = log

\* "Bloqueia [...] até o journal falhar (após processar tudo que já estava em
\* disco)", says the comment of StartConsumer (buffer.go:196-197): an engine that
\* stops because the journal failed has processed all that the journal released.
FailStopDrains ==
  cpc = "done" /\ jpc = "done" /\ failedFlag => Len(executed) = journalCursor

\* Publish returns, whatever the journal does, once the stages run: backpressure
\* ends because the engine moves or because the ring has failed.
PublishReturns ==
  \A o \in Orders :
    pc[o] \in Publishing ~> pc[o] \in {"published", "failed", "closed"}

\* Whoever waits for durability gets an answer.
WaitAnswered ==
  \A o \in Orders : pc[o] \in Waiting ~> pc[o] \in {"acked", "unconfirmed"}

\* A Shutdown under way completes: the stages it waits for drain or fail, even
\* though producers that claimed a sequence before Close are still writing.
ShutdownCompletes == spc = "flag" ~> spc \in {"returned", "expired"}

-----------------------------------------------------------------------------
\* The ring as an order log: what is below journalCursor is released, what the
\* engine has been handed is executed, and a call of Publish is open until it
\* returns.
StatusAt(step) ==
  CASE step \in {"published"} \cup Waiting -> "published"
    [] step \in Publishing                 -> "open"
    [] step \in {"failed", "closed"}       -> "refused"
    [] OTHER                               -> step

Ring == INSTANCE OrderLog WITH
  written   <- log,
  committed <- journalCursor,
  executed  <- Len(executed),
  closed    <- IsClosed(claimCursor),
  failed    <- failedFlag,
  status    <- [o \in Orders |-> StatusAt(pc[o])]

\* Every behaviour of the ring is one of the order log: verdicts are final, the
\* journal only grows at its end, each order enters it once and only after Publish
\* accepted it, an acked one is released, an unconfirmed one is not.
ImplementsOrderLog == Ring!LogSpec
=============================================================================
