--------------------------- MODULE RingInvariant ----------------------------
(***************************************************************************)
(* The inductive invariant of the ring: why the properties of              *)
(* RingProperties hold for every number of orders, capacity, batch size    *)
(* and sync mode.  RingProofs proves it.                                   *)
(***************************************************************************)
EXTENDS RingProperties

\* How many sequences have been given out.
Claims == IF spc = "running" THEN claimCursor ELSE finalSeq

\* The order has a sequence and no stamp for it: it is on its way, or was refused.
Unstamped(o) == seq[o] >= 0 /\ ~Stamped(o)

\* Sequences are given out once, all below Claims, and none after Close.
ClaimInv ==
  /\ IsClosed(claimCursor) <=> spc # "running"
  /\ \A o \in Orders :
       /\ seq[o] < Claims
       /\ pc[o] \in {"new", "claim", "closed"} => seq[o] = -1
       /\ pc[o] \in {"gate", "full", "write", "stamp"} \/ Stamped(o) => seq[o] >= 0
       /\ \A p \in Orders : seq[o] >= 0 /\ seq[o] = seq[p] => o = p

\* Whoever passed the gate is less than a lap ahead of the engine; whoever is not
\* stamped is ahead of everything the journaler has taken.
WindowInv ==
  \A o \in Orders :
    /\ pc[o] \in {"write", "stamp"} \/ Stamped(o) => HasRoom(o)
    /\ Unstamped(o) => seq[o] >= BatchEnd /\ seq[o] >= Len(log)

\* The slot of a stamped order holds it until the engine has freed it; only stamped
\* orders leave stamps.
SlotInv ==
  /\ \A o \in Orders :
       /\ pc[o] = "stamp" => event[SlotOf(seq[o])] = o
       /\ Stamped(o) /\ seq[o] >= consumerCursor =>
            event[SlotOf(seq[o])] = o /\ stamp[SlotOf(seq[o])] = seq[o] + 1
  /\ \A k \in Slots :
       /\ stamp[k] # 0 => \E o \in Orders : Stamped(o) /\ seq[o] + 1 = stamp[k]
       /\ event[k] # None => pc[event[k]] = "stamp" \/ Stamped(event[k])

\* What holds of claims and slots whichever stage consumes them: with a journal the
\* engine follows the journaler, without one (PlainRing) it follows the stamps.
RingCore == TypeOK /\ ClaimInv /\ WindowInv /\ SlotInv

\* Nobody is inside a slot that the engine has already passed.
Ahead == \A o \in Orders : pc[o] \in {"write", "stamp"} => seq[o] >= consumerCursor

\* The journal and the batch hold the stamped orders in the order of their sequences,
\* and the file is level with journalCursor except around an append.
JournalInv ==
  /\ \A i \in DOMAIN log : Stamped(log[i]) /\ seq[log[i]] = i - 1
  /\ \A i \in DOMAIN batch : Stamped(batch[i]) /\ seq[batch[i]] = journalCursor + i - 1
  /\ journalCursor <= Len(log) /\ synced <= Len(log)
  /\ SyncEachBatch => journalCursor <= synced
  /\ jpc \notin {"sync", "advance", "failing", "done"} => Len(log) = journalCursor
  /\ jpc \in {"sync", "advance"} => Len(log) = BatchEnd
  /\ jpc = "advance" /\ SyncEachBatch => synced = Len(log)
  /\ failedFlag => jpc = "done"

\* The engine is behind journalCursor, one event past its own cursor while it has
\* not stored it.
EngineInv ==
  /\ consumerCursor <= journalCursor
  /\ cpc \in {"event", "advance"} => consumerCursor < journalCursor
  /\ Len(executed) = IF cpc = "advance" THEN consumerCursor + 1 ELSE consumerCursor
  /\ \A i \in DOMAIN executed : executed[i] = log[i]

\* durMu belongs to the order between Lock and its release; with it held, the
\* Broadcast that answers the order cannot have passed.
WaitInv ==
  \A o \in Orders :
    /\ durMu = o <=> pc[o] \in {"check", "sleep"}
    /\ pc[o] = "acked" => Journaled(o)
    /\ pc[o] \in {"refuse", "failed", "unconfirmed"} => failedFlag
    /\ pc[o] = "unconfirmed" => ~Journaled(o)
    /\ pc[o] = "asleep" => ~failedFlag
    /\ pc[o] \in {"sleep", "asleep"} /\ Journaled(o) => jpc = "wake"

\* The inductive invariant.
RingInv == RingCore /\ JournalInv /\ EngineInv /\ WaitInv

\* What makes a Shutdown that waited for both stages a drained one: the journaler
\* returns only above finalSeq with nothing left to fsync, the engine only above
\* finalSeq, unless the journal has failed.
DrainInv ==
  /\ closedFlag <=> spc \notin {"running", "flag"}
  /\ jpc \notin {"sync", "failing", "done"} /\ ~dirty => synced = Len(log)
  /\ jpc = "finalSync" => Drained(journalCursor)
  /\ jpc = "done" /\ ~failedFlag => Drained(journalCursor) /\ synced = Len(log)
  /\ cpc = "done" /\ ~failedFlag => Drained(consumerCursor)
  /\ "journaler" \in waited => jpc = "done"
  /\ "engine" \in waited => cpc = "done"
=============================================================================
