----------------------------- MODULE PlainRing ------------------------------
(***************************************************************************)
(* The ring of NewRingBuffer, with a journal or without one: b.journal     *)
(* never changes.  Without one there is no journaler, the engine takes a   *)
(* slot as soon as it is stamped, and WaitDurable returns at once.         *)
(***************************************************************************)
EXTENDS RingProperties

VARIABLE journaled   \* b.journal # nil

ringAndMode == <<vars, journaled>>

ModeInit == Init /\ journaled \in BOOLEAN

WaitNothing(o) ==
  /\ pc[o] = "published"
  /\ Goto(o, "acked")
  /\ UNCHANGED <<ringVars, lifeVars, seq, durMu, journalVars, engineVars, shutdownVars>>

FaultyPlainConsumable == stamp[SlotOf(consumerCursor)] # 0

\* The stamp of this lap, not one of an earlier lap.
PlainConsumable == stamp[SlotOf(consumerCursor)] = consumerCursor + 1

PlainBarrier ==
  /\ cpc = "barrier"
  /\ cpc' = IF PlainConsumable THEN "event" ELSE "failCheck"
  /\ UNCHANGED <<ringVars, lifeVars, orderVars, journalVars, executed, shutdownVars>>

PlainConsumer ==
  StartConsumer \/ PlainBarrier \/ OnEvent \/ FreeSlot \/ FailCheck \/ DrainCheck

PlainNext ==
  \/ \E o \in Orders : Publish(o) \/ WaitNothing(o)
  \/ PlainConsumer \/ Shutdown

InMode(A) == A /\ UNCHANGED journaled

ModeNext == InMode((journaled /\ Next) \/ (~journaled /\ PlainNext))

\* Fairness of RingBuffer, in both modes.
ModeSpec ==
  /\ ModeInit /\ [][ModeNext]_ringAndMode
  /\ \A o \in Orders :
       /\ WF_ringAndMode(InMode(pc[o] # "new" /\ Publish(o)))
       /\ WF_ringAndMode(InMode(Lock(o) \/ Check(o) \/ Sleep(o)))
  /\ WF_ringAndMode(InMode(journaled /\ Journaler))
  /\ WF_ringAndMode(InMode((journaled /\ Consumer) \/ (~journaled /\ PlainConsumer)))
  /\ WF_ringAndMode(InMode(Draining))

\* Without a journal too the engine runs each claimed order once, in the order of the
\* sequences, although producers stamp out of order and the stamps of an earlier lap
\* are still in the slots; and a Shutdown that waited for it has run them all
\* (buffer.go 100-102, 193, 369-371).
PlainRingInOrder ==
  ~journaled =>
    /\ \A i \in DOMAIN executed : seq[executed[i]] = i - 1
    /\ spc = "returned" /\ waited = {"engine"} =>
         \A o \in Orders : seq[o] >= 0 => seq[o] < Len(executed)
=============================================================================
