----------------------------- MODULE RingBuffer -----------------------------
(***************************************************************************)
(* The journaled ring buffer of internal/disruptor/buffer.go.              *)
(*                                                                         *)
(* Goroutines and the step each takes atomically:                          *)
(*  - one per order, running Publish and then, if its caller asks for it,  *)
(*    WaitDurable;  pc[o] is where it stands;                              *)
(*  - the journaler (StartJournaler), at jpc;                              *)
(*  - the engine (StartConsumer), at cpc;                                  *)
(*  - one caller of Shutdown, at spc.                                      *)
(*                                                                         *)
(* Every sync/atomic load, store and add of the code is a step of its own, *)
(* and so is the plain write of an event into its slot.  Two critical      *)
(* sections of durMu are one step each (Wake, Fail): what they write is    *)
(* read only under durMu, except failedFlag, which they write once.        *)
(*                                                                         *)
(* An order stands for its OrderEvent.  Orders that one connection sends   *)
(* in a pipeline are separate entries here: every interleaving of the real *)
(* sequence of calls is one of the interleavings of this module.           *)
(***************************************************************************)
EXTENDS Integers, Sequences, FiniteSets

CONSTANTS
  Orders,         \* the OrderEvents published, each by one call of Publish
  None,           \* the zero OrderEvent of a fresh slot, and "durMu is free"
  Capacity,       \* len(b.slots)
  MaxBatch,       \* jopts.maxBatch()
  ClosedBit,      \* 1 << 63
  SyncEachBatch   \* jopts.SyncInterval <= 0

ASSUME RingAssumption ==
  /\ None \notin Orders
  /\ Capacity \in Nat \ {0}
  /\ MaxBatch \in Nat \ {0}
  /\ ClosedBit \in Nat \ {0}
  /\ SyncEachBatch \in BOOLEAN

VARIABLES
  claimCursor, consumerCursor, journalCursor,  \* the three cursors
  event, stamp,        \* slot.event and slot.published, by position
  finalSeq, closedFlag, failedFlag,            \* life cycle
  durMu,               \* the order that holds durMu, or None
  pc, seq,             \* per order: where it stands, its sequence (-1: none)
  jpc, batch, dirty,   \* the journaler and its locals
  cpc,                 \* the engine
  spc, waited,         \* the caller of Shutdown, and the stages it waited for
  log, synced,         \* the Journal: what Append gave the OS, how much is fsynced
  executed             \* the events handed to OnEvent, in order

ringVars     == <<claimCursor, consumerCursor, journalCursor, event, stamp>>
lifeVars     == <<finalSeq, closedFlag, failedFlag>>
orderVars    == <<pc, seq, durMu>>
journalVars  == <<jpc, batch, dirty, log, synced>>
engineVars   == <<cpc, executed>>
shutdownVars == <<spc, waited>>
vars == <<ringVars, lifeVars, orderVars, journalVars, engineVars, shutdownVars>>

Slots == 0..(Capacity - 1)
SlotOf(s) == s % Capacity

\* Where an order stands.  The second set is reached through Publish, the third
\* is where WaitDurable runs and the fourth where the caller has its answer.
Publishing == {"claim", "gate", "full", "write", "stamp", "refuse"}
Waiting    == {"lock", "check", "sleep", "asleep"}
Answered   == {"acked", "unconfirmed", "failed", "closed"}
OrderSteps == {"new", "published"} \cup Publishing \cup Waiting \cup Answered

\* The event of an order at one of these is in its slot, stamped.
Stamped(o) == pc[o] \in {"published", "acked", "unconfirmed"} \cup Waiting

JournalerSteps == {"new", "collect", "append", "sync", "advance", "wake",
                   "idle", "idleSync", "close", "finalSync", "failing", "done"}
EngineSteps    == {"new", "barrier", "event", "advance", "failCheck", "closeCheck", "done"}
ShutdownSteps  == {"running", "flag", "checkJournaler", "waitJournaler",
                   "checkEngine", "waitEngine", "returned", "expired"}

Init ==
  /\ claimCursor = 0 /\ consumerCursor = 0 /\ journalCursor = 0
  /\ event = [k \in Slots |-> None]
  /\ stamp = [k \in Slots |-> 0]
  /\ finalSeq = 0 /\ closedFlag = FALSE /\ failedFlag = FALSE
  /\ durMu = None
  /\ pc = [o \in Orders |-> "new"]
  /\ seq = [o \in Orders |-> -1]
  /\ jpc = "new" /\ batch = <<>> /\ dirty = FALSE
  /\ cpc = "new" /\ executed = <<>>
  /\ spc = "running" /\ waited = {}
  /\ log = <<>> /\ synced = 0

-----------------------------------------------------------------------------
(* Publish *)

Goto(o, step) == pc' = [pc EXCEPT ![o] = step]

\* Publish starts by looking at failedFlag.
PublishCheck(o) ==
  /\ pc[o] = "new"
  /\ Goto(o, IF failedFlag THEN "refuse" ELSE "claim")
  /\ UNCHANGED <<ringVars, lifeVars, seq, durMu, journalVars, engineVars, shutdownVars>>

\* Bound: fewer than 2^63 calls of Publish before Close, and as many after it,
\* so that neither the count nor the closed bit is carried away.
CounterRoom == claimCursor + 1 \notin {ClosedBit, 2 * ClosedBit}

IsClosed(cursor) == cursor >= ClosedBit

\* The atomic add: a sequence of our own, or ErrClosed if Close came first.
Claim(o) ==
  /\ pc[o] = "claim"
  /\ CounterRoom
  /\ claimCursor' = claimCursor + 1
  /\ IF IsClosed(claimCursor)
       THEN Goto(o, "closed") /\ UNCHANGED seq
       ELSE Goto(o, "gate") /\ seq' = [seq EXCEPT ![o] = claimCursor]
  /\ UNCHANGED <<consumerCursor, journalCursor, event, stamp, lifeVars, durMu,
                 journalVars, engineVars, shutdownVars>>

FaultyHasRoom(o) == seq[o] - consumerCursor <= Capacity

HasRoom(o) == seq[o] - consumerCursor < Capacity

\* Backpressure: a full ring makes the producer look at failedFlag and try again.
Gate(o) ==
  /\ pc[o] = "gate"
  /\ Goto(o, IF HasRoom(o) THEN "write" ELSE "full")
  /\ UNCHANGED <<ringVars, lifeVars, seq, durMu, journalVars, engineVars, shutdownVars>>

FaultyFullCheck(o) ==
  /\ pc[o] = "full"
  /\ Goto(o, "gate")
  /\ UNCHANGED <<ringVars, lifeVars, seq, durMu, journalVars, engineVars, shutdownVars>>

FullCheck(o) ==
  /\ pc[o] = "full"
  /\ Goto(o, IF failedFlag THEN "refuse" ELSE "gate")
  /\ UNCHANGED <<ringVars, lifeVars, seq, durMu, journalVars, engineVars, shutdownVars>>

\* journalFailure reads failErr under durMu; either way Publish returns an error.
Refuse(o) ==
  /\ pc[o] = "refuse"
  /\ durMu = None
  /\ Goto(o, "failed")
  /\ UNCHANGED <<ringVars, lifeVars, seq, durMu, journalVars, engineVars, shutdownVars>>

WriteEvent(o) ==
  /\ pc[o] = "write"
  /\ event' = [event EXCEPT ![SlotOf(seq[o])] = o]
  /\ Goto(o, "stamp")
  /\ UNCHANGED <<claimCursor, consumerCursor, journalCursor, stamp, lifeVars, seq, durMu,
                 journalVars, engineVars, shutdownVars>>

FaultyStamp(o) ==
  /\ pc[o] = "stamp"
  /\ stamp' = [stamp EXCEPT ![SlotOf(seq[o])] = seq[o] + 1]
  /\ Goto(o, IF failedFlag THEN "refuse" ELSE "published")
  /\ UNCHANGED <<claimCursor, consumerCursor, journalCursor, event, lifeVars, seq, durMu,
                 journalVars, engineVars, shutdownVars>>

\* The stamp publishes the slot and Publish returns the sequence.
Stamp(o) ==
  /\ pc[o] = "stamp"
  /\ stamp' = [stamp EXCEPT ![SlotOf(seq[o])] = seq[o] + 1]
  /\ Goto(o, "published")
  /\ UNCHANGED <<claimCursor, consumerCursor, journalCursor, event, lifeVars, seq, durMu,
                 journalVars, engineVars, shutdownVars>>

Publish(o) ==
  \/ PublishCheck(o) \/ Claim(o) \/ Gate(o) \/ FullCheck(o)
  \/ Refuse(o) \/ WriteEvent(o) \/ Stamp(o)

-----------------------------------------------------------------------------
(* WaitDurable *)

FaultyJournaled(o) == journalCursor >= seq[o]

Journaled(o) == journalCursor > seq[o]

\* The fast path, without the lock.
WaitDurable(o) ==
  /\ pc[o] = "published"
  /\ Goto(o, IF Journaled(o) THEN "acked" ELSE "lock")
  /\ UNCHANGED <<ringVars, lifeVars, seq, durMu, journalVars, engineVars, shutdownVars>>

Lock(o) ==
  /\ pc[o] = "lock"
  /\ durMu = None
  /\ durMu' = o
  /\ Goto(o, "check")
  /\ UNCHANGED <<ringVars, lifeVars, seq, journalVars, engineVars, shutdownVars>>

\* The loop condition, under durMu; journalCursor itself moves without durMu.
Check(o) ==
  /\ pc[o] = "check"
  /\ IF Journaled(o)
       THEN Goto(o, "acked") /\ durMu' = None
       ELSE Goto(o, "sleep") /\ UNCHANGED durMu
  /\ UNCHANGED <<ringVars, lifeVars, seq, journalVars, engineVars, shutdownVars>>

\* failErr set: give up.  Otherwise Wait joins the sleepers and releases durMu.
Sleep(o) ==
  /\ pc[o] = "sleep"
  /\ Goto(o, IF failedFlag THEN "unconfirmed" ELSE "asleep")
  /\ durMu' = None
  /\ UNCHANGED <<ringVars, lifeVars, seq, journalVars, engineVars, shutdownVars>>

\* durCond.Broadcast: every sleeper goes back to take durMu.
Broadcast == pc' = [o \in Orders |-> IF pc[o] = "asleep" THEN "lock" ELSE pc[o]]

-----------------------------------------------------------------------------
(* The journaler *)

StartJournaler ==
  /\ jpc = "new"
  /\ jpc' = "collect"
  /\ UNCHANGED <<ringVars, lifeVars, orderVars, batch, dirty, log, synced, engineVars, shutdownVars>>

\* The sequence the journaler looks at next: `end` of its collecting loop.
BatchEnd == journalCursor + Len(batch)

FaultyCollectable == Len(batch) < MaxBatch

Collectable == Len(batch) < MaxBatch /\ stamp[SlotOf(BatchEnd)] = BatchEnd + 1

Collect ==
  /\ jpc = "collect"
  /\ Collectable
  /\ batch' = Append(batch, event[SlotOf(BatchEnd)])
  /\ UNCHANGED <<ringVars, lifeVars, orderVars, jpc, dirty, log, synced, engineVars, shutdownVars>>

\* The first missing stamp, or a full batch, ends the loop.
CollectDone ==
  /\ jpc = "collect"
  /\ ~Collectable
  /\ jpc' = IF batch = <<>> THEN "idle" ELSE "append"
  /\ UNCHANGED <<ringVars, lifeVars, orderVars, batch, dirty, log, synced, engineVars, shutdownVars>>

\* Nothing to do: with an fsync pending, SyncInterval may have passed.
Idle ==
  /\ jpc = "idle"
  /\ jpc' \in IF dirty THEN {"idleSync", "close"} ELSE {"close"}
  /\ UNCHANGED <<ringVars, lifeVars, orderVars, batch, dirty, log, synced, engineVars, shutdownVars>>

\* Closed, and everything below `next` has been dealt with.
Drained(next) == closedFlag /\ next >= finalSeq

FaultyCloseCheck ==
  /\ jpc = "close"
  /\ jpc' = IF Drained(journalCursor) THEN "done" ELSE "collect"
  /\ UNCHANGED <<ringVars, lifeVars, orderVars, batch, dirty, log, synced, engineVars, shutdownVars>>

CloseCheck ==
  /\ jpc = "close"
  /\ jpc' = IF Drained(journalCursor)
              THEN IF dirty THEN "finalSync" ELSE "done"
              ELSE "collect"
  /\ UNCHANGED <<ringVars, lifeVars, orderVars, batch, dirty, log, synced, engineVars, shutdownVars>>

\* Where Append leads: to the fsync of the batch or, in interval mode, to it
\* only when SyncInterval has passed.
AfterAppend == IF SyncEachBatch THEN {"sync"} ELSE {"sync", "advance"}

AppendOk ==
  /\ jpc = "append"
  /\ log' = log \o batch
  /\ jpc' \in AfterAppend
  /\ dirty' = IF SyncEachBatch THEN dirty ELSE TRUE
  /\ UNCHANGED <<ringVars, lifeVars, orderVars, batch, synced, engineVars, shutdownVars>>

\* A failing Append may have handed any part of the batch to the OS.
AppendFails ==
  /\ jpc = "append"
  /\ \E n \in 0..Len(batch) : log' = log \o SubSeq(batch, 1, n)
  /\ jpc' = "failing"
  /\ UNCHANGED <<ringVars, lifeVars, orderVars, batch, dirty, synced, engineVars, shutdownVars>>

\* The three calls of syncNow, and where each continues.
SyncSites == {"sync", "idleSync", "finalSync"}
AfterSync == [site \in SyncSites |-> CASE site = "sync"      -> "advance"
                                       [] site = "idleSync"  -> "close"
                                       [] site = "finalSync" -> "done"]

SyncOk ==
  /\ jpc \in SyncSites
  /\ synced' = Len(log)
  /\ dirty' = FALSE
  /\ jpc' = AfterSync[jpc]
  /\ UNCHANGED <<ringVars, lifeVars, orderVars, batch, log, engineVars, shutdownVars>>

SyncFails ==
  /\ jpc \in SyncSites
  /\ jpc' = "failing"
  /\ UNCHANGED <<ringVars, lifeVars, orderVars, batch, dirty, log, synced, engineVars, shutdownVars>>

\* The store of journalCursor: it releases the batch to the engine.
Advance ==
  /\ jpc = "advance"
  /\ journalCursor' = BatchEnd
  /\ batch' = <<>>
  /\ jpc' = "wake"
  /\ UNCHANGED <<claimCursor, consumerCursor, event, stamp, lifeVars, orderVars,
                 dirty, log, synced, engineVars, shutdownVars>>

FaultyWake ==
  /\ jpc = "wake"
  /\ Broadcast
  /\ jpc' = "collect"
  /\ UNCHANGED <<ringVars, lifeVars, seq, durMu, batch, dirty, log, synced, engineVars, shutdownVars>>

\* Broadcast under durMu.
Wake ==
  /\ jpc = "wake"
  /\ durMu = None
  /\ Broadcast
  /\ jpc' = "collect"
  /\ UNCHANGED <<ringVars, lifeVars, seq, durMu, batch, dirty, log, synced, engineVars, shutdownVars>>

FaultyFail ==
  /\ jpc = "failing"
  /\ durMu = None
  /\ failedFlag' = TRUE
  /\ jpc' = "done"
  /\ UNCHANGED <<ringVars, finalSeq, closedFlag, pc, seq, durMu, batch, dirty, log, synced,
                 engineVars, shutdownVars>>

\* fail: failErr and failedFlag are set under durMu, the sleepers are woken, the
\* journaler returns.
Fail ==
  /\ jpc = "failing"
  /\ durMu = None
  /\ failedFlag' = TRUE
  /\ Broadcast
  /\ jpc' = "done"
  /\ UNCHANGED <<ringVars, finalSeq, closedFlag, seq, durMu, batch, dirty, log, synced,
                 engineVars, shutdownVars>>

Journaler ==
  \/ StartJournaler \/ Collect \/ CollectDone \/ Idle \/ CloseCheck
  \/ AppendOk \/ AppendFails \/ SyncOk \/ SyncFails \/ Advance \/ Wake \/ Fail

-----------------------------------------------------------------------------
(* The engine.  Its local nextSequence is consumerCursor until the final store. *)

StartConsumer ==
  /\ cpc = "new"
  /\ cpc' = "barrier"
  /\ UNCHANGED <<ringVars, lifeVars, orderVars, journalVars, executed, shutdownVars>>

FaultyConsumable == stamp[SlotOf(consumerCursor)] = consumerCursor + 1

Consumable == consumerCursor < journalCursor

Barrier ==
  /\ cpc = "barrier"
  /\ cpc' = IF Consumable THEN "event" ELSE "failCheck"
  /\ UNCHANGED <<ringVars, lifeVars, orderVars, journalVars, executed, shutdownVars>>

\* The slot is read and its event handed to the matching engine.
OnEvent ==
  /\ cpc = "event"
  /\ executed' = Append(executed, event[SlotOf(consumerCursor)])
  /\ cpc' = "advance"
  /\ UNCHANGED <<ringVars, lifeVars, orderVars, journalVars, shutdownVars>>

\* The store of consumerCursor frees the slot for the next lap.
FreeSlot ==
  /\ cpc = "advance"
  /\ consumerCursor' = consumerCursor + 1
  /\ cpc' = "barrier"
  /\ UNCHANGED <<claimCursor, journalCursor, event, stamp, lifeVars, orderVars, journalVars,
                 executed, shutdownVars>>

FaultyFailCheck ==
  /\ cpc = "failCheck"
  /\ cpc' = "closeCheck"
  /\ UNCHANGED <<ringVars, lifeVars, orderVars, journalVars, executed, shutdownVars>>

FailCheck ==
  /\ cpc = "failCheck"
  /\ cpc' = IF failedFlag THEN "done" ELSE "closeCheck"
  /\ UNCHANGED <<ringVars, lifeVars, orderVars, journalVars, executed, shutdownVars>>

DrainCheck ==
  /\ cpc = "closeCheck"
  /\ cpc' = IF Drained(consumerCursor) THEN "done" ELSE "barrier"
  /\ UNCHANGED <<ringVars, lifeVars, orderVars, journalVars, executed, shutdownVars>>

Consumer == StartConsumer \/ Barrier \/ OnEvent \/ FreeSlot \/ FailCheck \/ DrainCheck

-----------------------------------------------------------------------------
(* Close and Shutdown *)

\* The add of closedBit.  finalSeq is stored here: nobody reads it before closedFlag.
CloseClaims ==
  /\ spc = "running"
  /\ claimCursor' = claimCursor + ClosedBit
  /\ finalSeq' = claimCursor
  /\ spc' = "flag"
  /\ UNCHANGED <<consumerCursor, journalCursor, event, stamp, closedFlag, failedFlag, orderVars,
                 journalVars, engineVars, waited>>

CloseFlag ==
  /\ spc = "flag"
  /\ closedFlag' = TRUE
  /\ spc' = "checkJournaler"
  /\ UNCHANGED <<ringVars, finalSeq, failedFlag, orderVars, journalVars, engineVars, waited>>

\* Only stages that have started are waited for.
CheckJournaler ==
  /\ spc = "checkJournaler"
  /\ spc' = IF jpc = "new" THEN "checkEngine" ELSE "waitJournaler"
  /\ UNCHANGED <<ringVars, lifeVars, orderVars, journalVars, engineVars, waited>>

WaitJournaler ==
  /\ spc = "waitJournaler"
  /\ jpc = "done"
  /\ spc' = "checkEngine"
  /\ waited' = waited \cup {"journaler"}
  /\ UNCHANGED <<ringVars, lifeVars, orderVars, journalVars, engineVars>>

CheckEngine ==
  /\ spc = "checkEngine"
  /\ spc' = IF cpc = "new" THEN "returned" ELSE "waitEngine"
  /\ UNCHANGED <<ringVars, lifeVars, orderVars, journalVars, engineVars, waited>>

WaitEngine ==
  /\ spc = "waitEngine"
  /\ cpc = "done"
  /\ spc' = "returned"
  /\ waited' = waited \cup {"engine"}
  /\ UNCHANGED <<ringVars, lifeVars, orderVars, journalVars, engineVars>>

\* ctx.Done() in either select.
Expire ==
  /\ spc \in {"waitJournaler", "waitEngine"}
  /\ spc' = "expired"
  /\ UNCHANGED <<ringVars, lifeVars, orderVars, journalVars, engineVars, waited>>

\* What Shutdown does after the add of closedBit, while ctx lasts.
Draining ==
  CloseFlag \/ CheckJournaler \/ WaitJournaler \/ CheckEngine \/ WaitEngine

Shutdown == CloseClaims \/ Draining \/ Expire

-----------------------------------------------------------------------------
OrderNext(o) == Publish(o) \/ WaitDurable(o) \/ Lock(o) \/ Check(o) \/ Sleep(o)

Next == (\E o \in Orders : OrderNext(o)) \/ Journaler \/ Consumer \/ Shutdown

Spec == Init /\ [][Next]_vars

\* What the Go scheduler guarantees: a goroutine that can run does run.  Nobody is
\* obliged to publish an order, to wait for one, or to call Shutdown, and ctx may
\* never expire.
Fairness ==
  /\ \A o \in Orders :
       /\ WF_vars(pc[o] # "new" /\ Publish(o))
       /\ WF_vars(Lock(o) \/ Check(o) \/ Sleep(o))
  /\ WF_vars(Journaler)
  /\ WF_vars(Consumer)
  /\ WF_vars(Draining)

FairSpec == Spec /\ Fairness
=============================================================================
