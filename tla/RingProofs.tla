----------------------------- MODULE RingProofs -----------------------------
(***************************************************************************)
(* Proofs about the journaled ring, for any number of orders, any          *)
(* capacity, batch size and sync mode:                                     *)
(*  - RingInv is inductive, and the safety properties of RingProperties    *)
(*    follow from it;                                                      *)
(*  - a Shutdown that waited for both stages leaves nothing behind         *)
(*    (DrainedShutdown);                                                   *)
(*  - the ring implements the order log of OrderLog (ImplementsOrderLog);  *)
(*  - without a journal the engine still runs each claimed order once, in  *)
(*    the order of the sequences (PlainRingInOrder).                       *)
(***************************************************************************)
EXTENDS PlainRing, RingInvariant, FiniteSetTheorems, SequenceTheorems, TLAPS

-----------------------------------------------------------------------------
(* Slots: two sequences less than a lap apart that share a slot are equal.   *)

\* A multiple of c that is less than c and not negative is zero.
LEMMA SmallMultiple ==
  ASSUME NEW c \in Nat \ {0}, NEW q \in Int, c * q < c, -(c * q) < c
  PROVE  q = 0
<1>1. CASE q >= 1  BY <1>1
<1>2. CASE q <= -1 BY <1>2
<1> QED BY <1>1, <1>2

\* Two naturals less than c apart with the same remainder modulo c are equal.
LEMMA SameResidue ==
  ASSUME NEW c \in Nat \ {0}, NEW a \in Nat, NEW b \in Nat,
         a % c = b % c, a - b < c, b - a < c
  PROVE  a = b
<1>1. /\ a = c * (a \div c) + (a % c) /\ a \div c \in Int /\ a % c \in Int
      /\ b = c * (b \div c) + (b % c) /\ b \div c \in Int
  OBVIOUS
<1> DEFINE q == (a \div c) - (b \div c)
<1>2. q \in Int /\ a - b = c * q BY <1>1
<1>3. c * q < c /\ -(c * q) < c BY <1>2
<1>4. q = 0 BY <1>2, <1>3, SmallMultiple
<1> QED BY <1>2, <1>4

\* A sequence always lands in a slot of the ring.
LEMMA SlotInSlots == \A s \in Nat : SlotOf(s) \in Slots
<1>1. ASSUME NEW c \in Nat \ {0}, NEW s \in Nat PROVE s % c \in 0..(c - 1)
  OBVIOUS
<1> QED BY <1>1, RingAssumption DEF SlotOf, Slots

\* Two orders inside the window share no slot.
LEMMA OneSlotEach ==
  ASSUME TypeOK, ClaimInv, NEW o \in Orders, NEW p \in Orders,
         seq[o] >= consumerCursor, seq[p] >= consumerCursor, HasRoom(o), HasRoom(p),
         SlotOf(seq[o]) = SlotOf(seq[p])
  PROVE  o = p
<1>1. seq[o] \in Nat /\ seq[p] \in Nat /\ consumerCursor \in Nat BY DEF TypeOK
<1>2. seq[o] - seq[p] < Capacity /\ seq[p] - seq[o] < Capacity
  BY <1>1, RingAssumption DEF HasRoom
<1>3. seq[o] = seq[p] BY <1>1, <1>2, SameResidue, RingAssumption DEF SlotOf
<1> QED BY <1>1, <1>3 DEF ClaimInv

\* What the journaler has taken has been claimed.
LEMMA TakenIsClaimed ==
  ASSUME TypeOK, ClaimInv, JournalInv
  PROVE  Len(log) <= Claims /\ BatchEnd <= Claims
<1>1. Claims \in Nat /\ Len(log) \in Nat /\ Len(batch) \in Nat /\ journalCursor \in Nat
  BY DEF TypeOK, Claims
<1>2. Len(log) <= Claims
  <2>1. CASE Len(log) = 0 BY <2>1, <1>1
  <2>2. CASE Len(log) > 0
    <3>1. Len(log) \in DOMAIN log /\ log[Len(log)] \in Orders BY <2>2, <1>1 DEF TypeOK
    <3>2. seq[log[Len(log)]] = Len(log) - 1 BY <3>1 DEF JournalInv
    <3> QED BY <3>1, <3>2, <1>1 DEF ClaimInv
  <2> QED BY <2>1, <2>2, <1>1
<1>3. BatchEnd <= Claims
  <2>1. CASE Len(batch) = 0 BY <2>1, <1>1, <1>2 DEF BatchEnd, JournalInv
  <2>2. CASE Len(batch) > 0
    <3>1. Len(batch) \in DOMAIN batch /\ batch[Len(batch)] \in Orders
      BY <2>2, <1>1 DEF TypeOK
    <3>2. seq[batch[Len(batch)]] = journalCursor + Len(batch) - 1 BY <3>1 DEF JournalInv
    <3> QED BY <3>1, <3>2, <1>1 DEF ClaimInv, BatchEnd
  <2> QED BY <2>1, <2>2, <1>1
<1> QED BY <1>2, <1>3

-----------------------------------------------------------------------------
(* Frames: what a step must leave alone for a part of the invariant to last. *)

\* ClaimInv lasts when no sequence is given out and the orders' places agree with theirs.
LEMMA ClaimFrame ==
  ASSUME ClaimInv, UNCHANGED <<claimCursor, finalSeq, seq>>,
         spc' = "running" <=> spc = "running",
         \A p \in Orders :
           /\ pc'[p] \in {"new", "claim", "closed"} => seq[p] = -1
           /\ pc'[p] \in {"gate", "full", "write", "stamp"} \/ Stamped(p)' => seq[p] >= 0
  PROVE  ClaimInv'
BY DEF ClaimInv, Claims, IsClosed

\* WindowInv lasts when no cursor, batch or journal moves and whoever passes the gate has room.
LEMMA WindowFrame ==
  ASSUME WindowInv, UNCHANGED <<consumerCursor, journalCursor, batch, log, seq>>,
         \A p \in Orders :
           /\ pc'[p] \in {"write", "stamp"} \/ Stamped(p)' => HasRoom(p)
           /\ Stamped(p) => Stamped(p)'
  PROVE  WindowInv'
BY DEF WindowInv, HasRoom, Unstamped, BatchEnd

\* SlotInv lasts when no slot changes and no order gains or loses its stamp.
LEMMA SlotFrame ==
  ASSUME TypeOK, SlotInv, UNCHANGED <<event, stamp, consumerCursor>>,
         \A p \in Orders :
           /\ Stamped(p)' <=> Stamped(p)
           /\ pc'[p] = "stamp" <=> pc[p] = "stamp"
           /\ Stamped(p) \/ pc[p] = "stamp" => seq'[p] = seq[p]
  PROVE  SlotInv'
<1>1. ASSUME NEW o \in Orders
      PROVE  /\ pc'[o] = "stamp" => event'[SlotOf(seq'[o])] = o
             /\ Stamped(o)' /\ seq'[o] >= consumerCursor' =>
                  event'[SlotOf(seq'[o])] = o /\ stamp'[SlotOf(seq'[o])] = seq'[o] + 1
  BY DEF SlotInv
<1>2. ASSUME NEW k \in Slots
      PROVE  /\ stamp'[k] # 0 => \E o \in Orders : Stamped(o)' /\ seq'[o] + 1 = stamp'[k]
             /\ event'[k] # None => pc'[event'[k]] = "stamp" \/ Stamped(event[k])'
  <2>1. stamp[k] # 0 => \E o \in Orders : Stamped(o)' /\ seq'[o] + 1 = stamp[k]
    BY DEF SlotInv
  <2>2. event[k] # None => event[k] \in Orders BY DEF TypeOK
  <2>3. event[k] # None => pc'[event[k]] = "stamp" \/ Stamped(event[k])'
    <3>1. CASE event[k] = None BY <3>1
    <3>2. CASE event[k] # None
      <4>1. event[k] \in Orders /\ (pc[event[k]] = "stamp" \/ Stamped(event[k]))
        BY <3>2, <2>2 DEF SlotInv
      <4> DEFINE e == event[k]
      <4>2. \A p \in Orders : pc[p] = "stamp" \/ Stamped(p) => pc'[p] = "stamp" \/ Stamped(p)'
        OBVIOUS
      <4> QED BY <4>1, <4>2 DEF Stamped
    <3> QED BY <3>1, <3>2
  <2> QED BY <2>1, <2>3
<1> QED BY <1>1, <1>2 DEF SlotInv

\* JournalInv lasts when the journaler stands still and stamped orders stay stamped.
LEMMA JournalFrame ==
  ASSUME TypeOK, JournalInv, UNCHANGED <<jpc, batch, log, synced, journalCursor, failedFlag>>,
         \A p \in Orders : Stamped(p) => Stamped(p)' /\ seq'[p] = seq[p]
  PROVE  JournalInv'
BY DEF TypeOK, JournalInv, BatchEnd

\* EngineInv lasts when neither the engine nor what it reads moves.
LEMMA EngineFrame ==
  ASSUME EngineInv, UNCHANGED <<consumerCursor, journalCursor, cpc, executed, log>>
  PROVE  EngineInv'
BY DEF EngineInv

\* WaitInv lasts when no order moves and the journaler does not leave its broadcast behind.
LEMMA WaitFrame ==
  ASSUME WaitInv, UNCHANGED <<durMu, pc, seq, journalCursor, failedFlag>>,
         jpc = "wake" => jpc' = "wake"
  PROVE  WaitInv'
BY DEF WaitInv, Journaled

-----------------------------------------------------------------------------
(* Steps of an order that change no slot and no cursor.                      *)

USE DEF ringVars, lifeVars, orderVars, journalVars, engineVars, shutdownVars

\* An order that moves without touching slots or cursors keeps claims and slots as they are.
LEMMA CoreOrderMoves ==
  ASSUME RingCore, NEW o \in Orders, NEW step \in OrderSteps, Goto(o, step),
         UNCHANGED <<ringVars, lifeVars, seq, journalVars, engineVars, shutdownVars>>,
         durMu' \in Orders \cup {None},
         Stamped(o) <=> step \in {"published", "acked", "unconfirmed"} \cup Waiting,
         pc[o] # "stamp", step # "stamp",
         step = "write" => HasRoom(o),
         step \in {"new", "claim", "closed"} => seq[o] = -1,
         step \in {"gate", "full", "write"} => seq[o] >= 0
  PROVE  RingCore' /\ \A p \in Orders : Stamped(p)' <=> Stamped(p)
<1>1. TypeOK' BY DEF RingCore, TypeOK, Goto
<1>2. \A p \in Orders : pc'[p] = IF p = o THEN step ELSE pc[p]
  BY DEF RingCore, TypeOK, Goto
<1>3. \A p \in Orders : Stamped(p)' <=> Stamped(p) BY <1>2 DEF Stamped
<1>4. ClaimInv' BY <1>2, <1>3, ClaimFrame DEF RingCore, ClaimInv
<1>5. WindowInv' BY <1>2, <1>3, WindowFrame DEF RingCore, WindowInv
<1>6. SlotInv' BY <1>2, <1>3, SlotFrame DEF RingCore
<1> QED BY <1>1, <1>3, <1>4, <1>5, <1>6 DEF RingCore

\* With a journal such a move keeps all but WaitInv.
LEMMA OrderMoves ==
  ASSUME RingInv, NEW o \in Orders, NEW step \in OrderSteps, Goto(o, step),
         UNCHANGED <<ringVars, lifeVars, seq, journalVars, engineVars, shutdownVars>>,
         durMu' \in Orders \cup {None},
         Stamped(o) <=> step \in {"published", "acked", "unconfirmed"} \cup Waiting,
         pc[o] # "stamp", step # "stamp",
         step = "write" => HasRoom(o),
         step \in {"new", "claim", "closed"} => seq[o] = -1,
         step \in {"gate", "full", "write"} => seq[o] >= 0
  PROVE  RingCore' /\ JournalInv' /\ EngineInv'
<1>1. RingCore' /\ \A p \in Orders : Stamped(p)' <=> Stamped(p)
  BY CoreOrderMoves DEF RingInv
<1>2. JournalInv' BY <1>1, JournalFrame DEF RingInv, RingCore
<1>3. EngineInv' BY EngineFrame DEF RingInv
<1> QED BY <1>1, <1>2, <1>3

\* Publish's first look at failedFlag keeps the invariant.
LEMMA PublishCheckKeeps ==
  ASSUME RingInv, NEW o \in Orders, PublishCheck(o)
  PROVE  RingInv'
<1> DEFINE step == IF failedFlag THEN "refuse" ELSE "claim"
<1>1. pc[o] = "new" /\ seq[o] = -1 /\ Goto(o, step) BY DEF RingInv, RingCore, ClaimInv, PublishCheck
<1>2. RingCore' /\ JournalInv' /\ EngineInv'
  <2>1. step \in OrderSteps /\ step \in {"refuse", "claim"} BY DEF OrderSteps, Publishing
  <2> HIDE DEF step
  <2> QED BY <1>1, <2>1, OrderMoves DEF PublishCheck, RingInv, RingCore, TypeOK, Stamped, Waiting
<1>3. WaitInv' BY <1>1 DEF RingInv, RingCore, TypeOK, WaitInv, Journaled, Goto, PublishCheck
<1> QED BY <1>2, <1>3 DEF RingInv, RingCore

\* The backpressure test keeps the invariant: whoever passes has room.
LEMMA GateKeeps ==
  ASSUME RingInv, NEW o \in Orders, Gate(o)
  PROVE  RingInv'
<1> DEFINE step == IF HasRoom(o) THEN "write" ELSE "full"
<1>1. pc[o] = "gate" /\ seq[o] >= 0 /\ Goto(o, step) BY DEF RingInv, RingCore, ClaimInv, Gate
<1>2. RingCore' /\ JournalInv' /\ EngineInv'
  <2>1. step \in OrderSteps /\ step \in {"write", "full"} /\ (step = "write" => HasRoom(o))
    BY DEF OrderSteps, Publishing
  <2> HIDE DEF step
  <2> QED BY <1>1, <2>1, OrderMoves DEF Gate, RingInv, RingCore, TypeOK, Stamped, Waiting
<1>3. WaitInv' BY <1>1 DEF RingInv, RingCore, TypeOK, WaitInv, Journaled, Goto, Gate
<1> QED BY <1>2, <1>3 DEF RingInv, RingCore

\* The look at failedFlag on a full ring keeps the invariant.
LEMMA FullCheckKeeps ==
  ASSUME RingInv, NEW o \in Orders, FullCheck(o)
  PROVE  RingInv'
<1> DEFINE step == IF failedFlag THEN "refuse" ELSE "gate"
<1>1. pc[o] = "full" /\ seq[o] >= 0 /\ Goto(o, step) BY DEF RingInv, RingCore, ClaimInv, FullCheck
<1>2. RingCore' /\ JournalInv' /\ EngineInv'
  <2>1. step \in OrderSteps /\ step \in {"refuse", "gate"} BY DEF OrderSteps, Publishing
  <2> HIDE DEF step
  <2> QED BY <1>1, <2>1, OrderMoves DEF FullCheck, RingInv, RingCore, TypeOK, Stamped, Waiting
<1>3. WaitInv' BY <1>1 DEF RingInv, RingCore, TypeOK, WaitInv, Journaled, Goto, FullCheck
<1> QED BY <1>2, <1>3 DEF RingInv, RingCore

\* A Publish that returns the journal's error keeps the invariant.
LEMMA RefuseKeeps ==
  ASSUME RingInv, NEW o \in Orders, Refuse(o)
  PROVE  RingInv'
<1>1. pc[o] = "refuse" /\ Goto(o, "failed") BY DEF Refuse
<1>2. RingCore' /\ JournalInv' /\ EngineInv'
  BY <1>1, OrderMoves DEF Refuse, RingInv, RingCore, TypeOK, Stamped, Waiting, OrderSteps, Answered
<1>3. WaitInv' BY <1>1 DEF RingInv, RingCore, TypeOK, WaitInv, Journaled, Goto, Refuse
<1> QED BY <1>2, <1>3 DEF RingInv, RingCore

\* WaitDurable's fast path keeps the invariant.
LEMMA WaitDurableKeeps ==
  ASSUME RingInv, NEW o \in Orders, WaitDurable(o)
  PROVE  RingInv'
<1> DEFINE step == IF Journaled(o) THEN "acked" ELSE "lock"
<1>1. pc[o] = "published" /\ Goto(o, step) BY DEF WaitDurable
<1>2. RingCore' /\ JournalInv' /\ EngineInv'
  <2>1. step \in OrderSteps /\ step \in {"acked", "lock"}
    BY DEF OrderSteps, Answered, Waiting
  <2> HIDE DEF step
  <2> QED BY <1>1, <2>1, OrderMoves DEF WaitDurable, RingInv, RingCore, TypeOK, Stamped, Waiting
<1>3. WaitInv' BY <1>1 DEF RingInv, RingCore, TypeOK, WaitInv, Journaled, Goto, WaitDurable
<1> QED BY <1>2, <1>3 DEF RingInv, RingCore

\* Taking durMu keeps the invariant.
LEMMA LockKeeps ==
  ASSUME RingInv, NEW o \in Orders, Lock(o)
  PROVE  RingInv'
<1>1. pc[o] = "lock" /\ Goto(o, "check") BY DEF Lock
<1>2. RingCore' /\ JournalInv' /\ EngineInv'
  BY <1>1, OrderMoves DEF Lock, Stamped, Waiting, OrderSteps
<1>3. WaitInv' BY <1>1, RingAssumption DEF RingInv, RingCore, TypeOK, WaitInv, Journaled, Goto, Lock
<1> QED BY <1>2, <1>3 DEF RingInv, RingCore

\* The waiter's look at journalCursor under durMu keeps the invariant.
LEMMA CheckKeeps ==
  ASSUME RingInv, NEW o \in Orders, Check(o)
  PROVE  RingInv'
<1> DEFINE step == IF Journaled(o) THEN "acked" ELSE "sleep"
<1>1. /\ pc[o] = "check" /\ durMu = o /\ Goto(o, step)
      /\ durMu' = IF Journaled(o) THEN None ELSE o
  BY DEF RingInv, RingCore, WaitInv, Check
<1>2. RingCore' /\ JournalInv' /\ EngineInv'
  <2>1. step \in OrderSteps /\ step \in {"acked", "sleep"}
    BY DEF OrderSteps, Answered, Waiting
  <2>2. durMu' \in Orders \cup {None} BY <1>1
  <2> HIDE DEF step
  <2> QED BY <1>1, <2>1, <2>2, OrderMoves DEF Check, Stamped, Waiting
<1>3. WaitInv'
  BY <1>1, RingAssumption DEF RingInv, RingCore, TypeOK, WaitInv, Journaled, Goto, Check
<1> QED BY <1>2, <1>3 DEF RingInv, RingCore

\* Joining the sleepers keeps the invariant: no broadcast can have passed under durMu.
LEMMA SleepKeeps ==
  ASSUME RingInv, NEW o \in Orders, Sleep(o)
  PROVE  RingInv'
<1> DEFINE step == IF failedFlag THEN "unconfirmed" ELSE "asleep"
<1>1. pc[o] = "sleep" /\ durMu = o /\ durMu' = None /\ Goto(o, step)
  BY DEF RingInv, RingCore, WaitInv, Sleep
<1>2. RingCore' /\ JournalInv' /\ EngineInv'
  <2>1. step \in OrderSteps /\ step \in {"unconfirmed", "asleep"}
    BY DEF OrderSteps, Answered, Waiting
  <2> HIDE DEF step
  <2> QED BY <1>1, <2>1, OrderMoves DEF Sleep, Stamped, Waiting
<1>3. failedFlag => ~Journaled(o) BY <1>1 DEF RingInv, RingCore, WaitInv, JournalInv
<1>4. WaitInv'
  BY <1>1, <1>3, RingAssumption DEF RingInv, RingCore, TypeOK, WaitInv, Journaled, Goto, Sleep
<1> QED BY <1>2, <1>4 DEF RingInv, RingCore

-----------------------------------------------------------------------------
(* The steps of Publish that give out a sequence and fill its slot.          *)

\* The atomic add keeps claims and slots in order: the sequence is new, and none is
\* given after Close.
LEMMA CoreClaim ==
  ASSUME RingCore, Len(log) <= Claims, BatchEnd <= Claims, NEW o \in Orders, Claim(o)
  PROVE  RingCore' /\ \A p \in Orders : (Stamped(p)' <=> Stamped(p)) /\
                                         (Stamped(p) => seq'[p] = seq[p])
<1>1. /\ TypeOK /\ ClaimInv /\ WindowInv /\ SlotInv
      /\ pc[o] = "claim" /\ seq[o] = -1 /\ claimCursor' = claimCursor + 1
      /\ claimCursor \in Nat /\ claimCursor + 1 # ClosedBit
      /\ ClosedBit \in Nat \ {0}
  BY RingAssumption DEF RingCore, TypeOK, ClaimInv, Claim, CounterRoom
<1>2. CASE IsClosed(claimCursor)
  <2>1. Goto(o, "closed") /\ seq' = seq BY <1>2 DEF Claim
  <2>2. \A p \in Orders : pc'[p] = IF p = o THEN "closed" ELSE pc[p]
    BY <2>1, <1>1 DEF TypeOK, Goto
  <2>3. \A p \in Orders : Stamped(p)' <=> Stamped(p)
    BY <2>2, <1>1 DEF Stamped, Waiting
  <2>4. TypeOK'
    BY <1>1, <2>1 DEF TypeOK, Claim, Goto, OrderSteps, Answered
  <2>5. ClaimInv'
    <3>1. IsClosed(claimCursor') /\ spc # "running" /\ Claims' = Claims
      BY <1>1, <1>2 DEF ClaimInv, Claims, IsClosed, Claim
    <3> QED BY <1>1, <2>1, <2>2, <2>3, <3>1 DEF ClaimInv, Claim
  <2>6. WindowInv' BY <1>1, <2>1, <2>2, <2>3, WindowFrame DEF Claim, WindowInv
  <2>7. SlotInv' BY <1>1, <2>1, <2>2, <2>3, SlotFrame DEF Claim
  <2> QED BY <2>1, <2>3, <2>4, <2>5, <2>6, <2>7 DEF RingCore
<1>3. CASE ~IsClosed(claimCursor)
  <2>1. Goto(o, "gate") /\ seq' = [seq EXCEPT ![o] = claimCursor] BY <1>3 DEF Claim
  <2>2. \A p \in Orders : /\ pc'[p] = IF p = o THEN "gate" ELSE pc[p]
                          /\ seq'[p] = IF p = o THEN claimCursor ELSE seq[p]
    BY <2>1, <1>1 DEF TypeOK, Goto
  <2>3. \A p \in Orders : Stamped(p)' <=> Stamped(p)
    BY <2>2, <1>1 DEF Stamped, Waiting
  <2>4. spc = "running" /\ spc' = spc /\ Claims = claimCursor /\ Claims' = claimCursor + 1
    BY <1>1, <1>3 DEF ClaimInv, Claims, Claim
  <2>5. TypeOK'
    <3>1. seq' \in [Orders -> Nat \cup {-1}] BY <1>1, <2>1 DEF TypeOK
    <3>2. pc' \in [Orders -> OrderSteps]
      BY <1>1, <2>1 DEF TypeOK, Goto, OrderSteps, Publishing
    <3> QED BY <1>1, <3>1, <3>2 DEF TypeOK, Claim
  <2>6. ClaimInv'
    <3>1. ~IsClosed(claimCursor') BY <1>1, <1>3 DEF IsClosed
    <3>2. \A p \in Orders : seq[p] \in Int /\ seq[p] < claimCursor
      BY <1>1, <2>4 DEF ClaimInv, TypeOK
    <3>5. \A p \in Orders : seq'[p] < Claims'
      BY <1>1, <2>2, <2>4, <3>2
    <3>3. \A p \in Orders :
            /\ pc'[p] \in {"new", "claim", "closed"} => seq'[p] = -1
            /\ pc'[p] \in {"gate", "full", "write", "stamp"} \/ Stamped(p)' => seq'[p] >= 0
      BY <1>1, <2>2, <2>3 DEF ClaimInv, Stamped, Waiting
    <3>4. \A p, q \in Orders : seq'[p] >= 0 /\ seq'[p] = seq'[q] => p = q
      <4>1. \A p, q \in Orders : seq[p] >= 0 /\ seq[p] = seq[q] => p = q
        BY <1>1 DEF ClaimInv
      <4> QED BY <1>1, <2>2, <3>2, <4>1
    <3> QED BY <2>4, <3>1, <3>3, <3>4, <3>5 DEF ClaimInv
  <2>7. WindowInv'
    <3>1. claimCursor >= BatchEnd /\ claimCursor >= Len(log)
      BY <1>1, <2>4 DEF TypeOK, BatchEnd
    <3>2. BatchEnd' = BatchEnd /\ log' = log /\ consumerCursor' = consumerCursor
      BY DEF BatchEnd, Claim
    <3>3. \A p \in Orders : pc'[p] \in {"write", "stamp"} \/ Stamped(p)' => HasRoom(p)'
      BY <1>1, <2>2, <2>3, <3>2 DEF WindowInv, HasRoom, Stamped, Waiting
    <3>4. \A p \in Orders : Unstamped(p)' => seq'[p] >= BatchEnd' /\ seq'[p] >= Len(log')
      BY <1>1, <2>2, <2>3, <3>1, <3>2 DEF WindowInv, Unstamped
    <3> QED BY <3>3, <3>4 DEF WindowInv
  <2>8. SlotInv' BY <1>1, <2>2, <2>3, SlotFrame DEF Claim, Stamped, Waiting
  <2>9. \A p \in Orders : Stamped(p) => seq'[p] = seq[p]
    BY <1>1, <2>2 DEF Stamped, Waiting
  <2> QED BY <2>3, <2>5, <2>6, <2>7, <2>8, <2>9 DEF RingCore
<1> QED BY <1>2, <1>3

\* The atomic add keeps the invariant.
LEMMA ClaimKeeps ==
  ASSUME RingInv, NEW o \in Orders, Claim(o)
  PROVE  RingInv'
<1>1. /\ TypeOK /\ ClaimInv /\ JournalInv /\ EngineInv /\ WaitInv
      /\ pc[o] = "claim" /\ seq[o] = -1
  BY DEF RingInv, RingCore, ClaimInv, Claim
<1>2. RingCore' /\ \A p \in Orders : (Stamped(p)' <=> Stamped(p)) /\
                                      (Stamped(p) => seq'[p] = seq[p])
  BY <1>1, CoreClaim, TakenIsClaimed DEF RingInv
<1>3. JournalInv' BY <1>1, <1>2, JournalFrame DEF Claim
<1>4. EngineInv' BY <1>1, EngineFrame DEF Claim
<1>5. WaitInv'
  <2>1. \A p \in Orders : p # o => pc'[p] = pc[p] /\ seq'[p] = seq[p]
    BY <1>1 DEF TypeOK, Goto, Claim
  <2>2. pc'[o] \in {"gate", "closed"} BY <1>1 DEF TypeOK, Goto, Claim
  <2> QED BY <1>1, <2>1, <2>2 DEF WaitInv, Journaled, Claim
<1> QED BY <1>2, <1>3, <1>4, <1>5 DEF RingInv

\* Nobody is inside a slot that the engine has already passed.
LEMMA ProducersAhead == RingInv => Ahead
<1> SUFFICES ASSUME RingInv, NEW q \in Orders, pc[q] \in {"write", "stamp"}
             PROVE  seq[q] >= consumerCursor
  BY DEF Ahead
<1>1. Unstamped(q) BY DEF RingInv, RingCore, ClaimInv, Unstamped, Stamped, Waiting
<1>2. seq[q] >= BatchEnd BY <1>1 DEF RingInv, RingCore, WindowInv
<1>3. /\ seq[q] \in Int /\ consumerCursor \in Nat /\ journalCursor \in Nat
      /\ Len(batch) \in Nat /\ consumerCursor <= journalCursor
  BY DEF RingInv, RingCore, TypeOK, EngineInv
<1> QED BY <1>2, <1>3 DEF BatchEnd

\* An order inside its slot is in the window, so that nobody else's event is there.
LEMMA OwnSlot ==
  ASSUME RingCore, Ahead, NEW o \in Orders, pc[o] \in {"write", "stamp"}, NEW p \in Orders,
         pc[p] \in {"write", "stamp"} \/ (Stamped(p) /\ seq[p] >= consumerCursor),
         SlotOf(seq[p]) = SlotOf(seq[o])
  PROVE  p = o
<1>1. \A q \in Orders : pc[q] \in {"write", "stamp"} => seq[q] >= consumerCursor /\ HasRoom(q)
  BY DEF RingCore, WindowInv, Ahead
<1>2. HasRoom(p) /\ seq[p] >= consumerCursor BY <1>1 DEF RingCore, WindowInv
<1> QED BY <1>1, <1>2, OneSlotEach DEF RingCore

\* Writing the event keeps claims and slots in order: the slot is nobody else's.
LEMMA CoreWriteEvent ==
  ASSUME RingCore, Ahead, NEW o \in Orders, WriteEvent(o)
  PROVE  RingCore' /\ \A p \in Orders : Stamped(p)' <=> Stamped(p)
<1>1. /\ TypeOK /\ ClaimInv /\ WindowInv /\ SlotInv
      /\ pc[o] = "write" /\ Goto(o, "stamp") /\ seq' = seq /\ seq[o] \in Nat
      /\ event' = [event EXCEPT ![SlotOf(seq[o])] = o]
  BY DEF RingCore, TypeOK, ClaimInv, WriteEvent
<1>2. \A p \in Orders : pc'[p] = IF p = o THEN "stamp" ELSE pc[p]
  BY <1>1 DEF TypeOK, Goto
<1>3. \A p \in Orders : Stamped(p)' <=> Stamped(p) BY <1>1, <1>2 DEF Stamped, Waiting
<1>4. \A k \in Slots : event'[k] = IF k = SlotOf(seq[o]) THEN o ELSE event[k]
  BY <1>1 DEF TypeOK
<1>5. TypeOK'
  <2>1. event' \in [Slots -> Orders \cup {None}] BY <1>1 DEF TypeOK
  <2>2. pc' \in [Orders -> OrderSteps] BY <1>1 DEF TypeOK, Goto, OrderSteps, Publishing
  <2> QED BY <1>1, <2>1, <2>2 DEF TypeOK, WriteEvent
<1>6. ClaimInv' BY <1>1, <1>2, <1>3, ClaimFrame DEF ClaimInv, WriteEvent
<1>7. WindowInv' BY <1>1, <1>2, <1>3, WindowFrame DEF WindowInv, WriteEvent
<1>8. SlotInv'
  <2>1. ASSUME NEW p \in Orders
        PROVE  /\ pc'[p] = "stamp" => event'[SlotOf(seq'[p])] = p
               /\ Stamped(p)' /\ seq'[p] >= consumerCursor' =>
                    event'[SlotOf(seq'[p])] = p /\ stamp'[SlotOf(seq'[p])] = seq'[p] + 1
    <3>1. CASE p = o
      BY <3>1, <1>1, <1>2, <1>3, <1>4, SlotInSlots DEF Stamped, Waiting
    <3>2. CASE p # o /\ (pc[p] = "stamp" \/ (Stamped(p) /\ seq[p] >= consumerCursor))
      <4>1. SlotOf(seq[p]) # SlotOf(seq[o]) BY <3>2, <1>1, OwnSlot
      <4>2. SlotOf(seq[p]) \in Slots
        <5>1. seq[p] \in Nat \cup {-1} /\ seq[p] >= 0 BY <3>2, <1>1 DEF ClaimInv, TypeOK
        <5> QED BY <5>1, SlotInSlots
      <4>3. event'[SlotOf(seq[p])] = event[SlotOf(seq[p])] BY <4>1, <4>2, <1>4
      <4> QED BY <3>2, <4>3, <1>1, <1>2, <1>3 DEF SlotInv, WriteEvent
    <3>3. CASE p # o /\ ~(pc[p] = "stamp" \/ (Stamped(p) /\ seq[p] >= consumerCursor))
      BY <3>3, <1>1, <1>2, <1>3 DEF WriteEvent
    <3> QED BY <3>1, <3>2, <3>3
  <2>2. ASSUME NEW k \in Slots, stamp'[k] # 0
        PROVE  \E p \in Orders : Stamped(p)' /\ seq'[p] + 1 = stamp'[k]
    BY <2>2, <1>1, <1>3 DEF SlotInv, WriteEvent
  <2>3. ASSUME NEW k \in Slots, event'[k] # None
        PROVE  pc'[event'[k]] = "stamp" \/ Stamped(event[k])'
    <3>1. CASE event'[k] = o BY <3>1, <1>2
    <3>2. CASE event'[k] # o
      <4>1. event'[k] = event[k] /\ event[k] \in Orders
        BY <3>2, <2>3, <1>4, <1>1 DEF TypeOK
      <4>2. pc[event[k]] = "stamp" \/ Stamped(event[k]) BY <4>1, <2>3, <1>1 DEF SlotInv
      <4> QED BY <4>1, <4>2, <3>2, <1>2 DEF Stamped
    <3> QED BY <3>1, <3>2
  <2> QED BY <2>1, <2>2, <2>3 DEF SlotInv
<1> QED BY <1>3, <1>5, <1>6, <1>7, <1>8 DEF RingCore

\* Writing the event keeps the invariant.
LEMMA WriteEventKeeps ==
  ASSUME RingInv, NEW o \in Orders, WriteEvent(o)
  PROVE  RingInv'
<1>1. TypeOK /\ JournalInv /\ EngineInv /\ WaitInv BY DEF RingInv, RingCore
<1>2. RingCore' /\ \A p \in Orders : Stamped(p)' <=> Stamped(p)
  BY CoreWriteEvent, ProducersAhead DEF RingInv
<1>3. JournalInv' BY <1>1, <1>2, JournalFrame DEF WriteEvent
<1>4. EngineInv' BY <1>1, EngineFrame DEF WriteEvent
<1>5. \A p \in Orders : pc'[p] = IF p = o THEN "stamp" ELSE pc[p]
  BY <1>1 DEF TypeOK, Goto, WriteEvent
<1>6. WaitInv' BY <1>1, <1>5 DEF WaitInv, Journaled, WriteEvent
<1> QED BY <1>2, <1>3, <1>4, <1>6 DEF RingInv

\* The stamp keeps claims and slots in order: it publishes the order's own slot.
LEMMA CoreStamp ==
  ASSUME RingCore, Ahead, NEW o \in Orders, Stamp(o)
  PROVE  RingCore' /\ \A p \in Orders : Stamped(p)' <=> Stamped(p) \/ p = o
<1>1. /\ TypeOK /\ ClaimInv /\ WindowInv /\ SlotInv
      /\ pc[o] = "stamp" /\ Goto(o, "published") /\ seq' = seq /\ seq[o] \in Nat
      /\ stamp' = [stamp EXCEPT ![SlotOf(seq[o])] = seq[o] + 1]
      /\ event' = event
  BY DEF RingCore, TypeOK, ClaimInv, Stamp
<1>2. \A p \in Orders : pc'[p] = IF p = o THEN "published" ELSE pc[p]
  BY <1>1 DEF TypeOK, Goto
<1>3. \A p \in Orders : Stamped(p)' <=> Stamped(p) \/ p = o
  BY <1>1, <1>2 DEF Stamped
<1>4. \A k \in Slots : stamp'[k] = IF k = SlotOf(seq[o]) THEN seq[o] + 1 ELSE stamp[k]
  BY <1>1 DEF TypeOK
<1>5. TypeOK'
  <2>1. stamp' \in [Slots -> Nat]
    <3>1. stamp \in [Slots -> Nat] /\ seq[o] + 1 \in Nat BY <1>1 DEF TypeOK
    <3> QED BY <1>1, <3>1
  <2>2. pc' \in [Orders -> OrderSteps] BY <1>1 DEF TypeOK, Goto, OrderSteps
  <2> QED BY <1>1, <2>1, <2>2 DEF TypeOK, Stamp
<1>6. ClaimInv' BY <1>1, <1>2, <1>3, ClaimFrame DEF ClaimInv, Stamp
<1>7. WindowInv' BY <1>1, <1>2, <1>3, WindowFrame DEF WindowInv, Stamp
<1>8. SlotInv'
  <2>1. ASSUME NEW p \in Orders
        PROVE  /\ pc'[p] = "stamp" => event'[SlotOf(seq'[p])] = p
               /\ Stamped(p)' /\ seq'[p] >= consumerCursor' =>
                    event'[SlotOf(seq'[p])] = p /\ stamp'[SlotOf(seq'[p])] = seq'[p] + 1
    <3>1. CASE p = o
      BY <3>1, <1>1, <1>2, <1>4, SlotInSlots DEF SlotInv
    <3>2. CASE p # o /\ pc[p] = "stamp"
      BY <3>2, <1>1, <1>2, <1>3 DEF SlotInv, Stamped, Waiting
    <3>3. CASE p # o /\ Stamped(p) /\ seq[p] >= consumerCursor
      <4>1. SlotOf(seq[p]) # SlotOf(seq[o]) BY <3>3, <1>1, OwnSlot
      <4>2. SlotOf(seq[p]) \in Slots
        <5>1. seq[p] \in Nat \cup {-1} /\ seq[p] >= 0 BY <3>3, <1>1 DEF ClaimInv, TypeOK
        <5> QED BY <5>1, SlotInSlots
      <4>3. stamp'[SlotOf(seq[p])] = stamp[SlotOf(seq[p])] BY <4>1, <4>2, <1>4
      <4>4. pc'[p] # "stamp" BY <3>3, <1>2 DEF Stamped, Waiting
      <4> QED BY <3>3, <4>3, <4>4, <1>1 DEF SlotInv
    <3>4. CASE p # o /\ pc[p] # "stamp" /\ ~(Stamped(p) /\ seq[p] >= consumerCursor)
      BY <3>4, <1>1, <1>2, <1>3 DEF Stamp
    <3> QED BY <3>1, <3>2, <3>3, <3>4
  <2>2. ASSUME NEW k \in Slots, stamp'[k] # 0
        PROVE  \E p \in Orders : Stamped(p)' /\ seq'[p] + 1 = stamp'[k]
    <3>1. CASE k = SlotOf(seq[o]) BY <3>1, <1>1, <1>3, <1>4
    <3>2. CASE k # SlotOf(seq[o]) BY <3>2, <2>2, <1>1, <1>3, <1>4 DEF SlotInv
    <3> QED BY <3>1, <3>2
  <2>3. ASSUME NEW k \in Slots, event'[k] # None
        PROVE  pc'[event'[k]] = "stamp" \/ Stamped(event[k])'
    <3>1. event[k] \in Orders /\ (pc[event[k]] = "stamp" \/ Stamped(event[k]))
      BY <2>3, <1>1 DEF SlotInv, TypeOK
    <3> QED BY <3>1, <1>1, <1>2 DEF Stamped
  <2> QED BY <2>1, <2>2, <2>3 DEF SlotInv
<1> QED BY <1>3, <1>5, <1>6, <1>7, <1>8 DEF RingCore

\* The stamp keeps the invariant.
LEMMA StampKeeps ==
  ASSUME RingInv, NEW o \in Orders, Stamp(o)
  PROVE  RingInv'
<1>1. TypeOK /\ JournalInv /\ EngineInv /\ WaitInv BY DEF RingInv, RingCore
<1>2. RingCore' /\ \A p \in Orders : Stamped(p)' <=> Stamped(p) \/ p = o
  BY CoreStamp, ProducersAhead DEF RingInv
<1>3. JournalInv' BY <1>1, <1>2, JournalFrame DEF Stamp
<1>4. EngineInv' BY <1>1, EngineFrame DEF Stamp
<1>5. \A p \in Orders : pc'[p] = IF p = o THEN "published" ELSE pc[p]
  BY <1>1 DEF TypeOK, Goto, Stamp
<1>6. WaitInv' BY <1>1, <1>5 DEF WaitInv, Journaled, Stamp
<1> QED BY <1>2, <1>3, <1>4, <1>6 DEF RingInv

-----------------------------------------------------------------------------
(* The journaler.                                                            *)

\* Steps of journaler, engine and Shutdown leave orders, slots and claims alone.
LEMMA OthersMove ==
  ASSUME RingCore, UNCHANGED <<event, stamp, consumerCursor, claimCursor, finalSeq, spc, pc, seq>>
  PROVE  ClaimInv' /\ SlotInv'
<1>1. \A p \in Orders : Stamped(p)' <=> Stamped(p) BY DEF Stamped
<1>2. ClaimInv' BY <1>1, ClaimFrame DEF RingCore, ClaimInv
<1>3. SlotInv' BY <1>1, SlotFrame DEF RingCore
<1> QED BY <1>2, <1>3

\* WindowInv lasts when no order and no cursor moves.
LEMMA WindowStays ==
  ASSUME RingCore, UNCHANGED <<consumerCursor, journalCursor, batch, log, pc, seq>>
  PROVE  WindowInv'
BY WindowFrame DEF RingCore, WindowInv, Stamped

\* The journaler moves from one place to another.
LEMMA JournalerMoves ==
  ASSUME RingInv, jpc' \in JournalerSteps, dirty' \in BOOLEAN, synced' \in Nat,
         UNCHANGED <<ringVars, lifeVars, orderVars, batch, log, engineVars, shutdownVars>>,
         synced' <= Len(log), synced' >= synced, jpc # "wake", jpc # "done",
         jpc' \notin {"sync", "advance", "failing", "done"} => Len(log) = journalCursor,
         jpc' \in {"sync", "advance"} => Len(log) = BatchEnd,
         jpc' = "advance" /\ SyncEachBatch => synced' = Len(log)
  PROVE  RingInv'
<1>1. TypeOK' BY DEF RingInv, RingCore, TypeOK
<1>2. ClaimInv' /\ SlotInv' /\ WindowInv' BY OthersMove, WindowStays DEF RingInv
<1>3. JournalInv'
  <2>1. \A p \in Orders : Stamped(p)' <=> Stamped(p) BY DEF Stamped
  <2> QED BY <2>1 DEF RingInv, RingCore, TypeOK, JournalInv, BatchEnd
<1>4. EngineInv' BY EngineFrame DEF RingInv, RingCore
<1>5. WaitInv' BY WaitFrame DEF RingInv, RingCore
<1> QED BY <1>1, <1>2, <1>3, <1>4, <1>5 DEF RingInv, RingCore

\* The journaler's steps that only choose the next one, and its fsync, keep the invariant.
LEMMA ControlKeeps ==
  ASSUME RingInv, StartJournaler \/ CollectDone \/ Idle \/ CloseCheck \/ SyncOk \/ SyncFails
  PROVE  RingInv'
<1> USE DEF JournalerSteps
<1>1. /\ synced \in Nat /\ Len(log) \in Nat /\ dirty \in BOOLEAN /\ synced <= Len(log)
      /\ jpc \notin {"sync", "advance", "failing", "done"} => Len(log) = journalCursor
      /\ jpc = "sync" => Len(log) = BatchEnd
  BY DEF RingInv, RingCore, TypeOK, JournalInv
<1>2. CASE StartJournaler BY <1>1, <1>2, JournalerMoves DEF StartJournaler
<1>3. CASE CollectDone BY <1>1, <1>3, JournalerMoves DEF CollectDone
<1>4. CASE Idle BY <1>1, <1>4, JournalerMoves DEF Idle
<1>5. CASE CloseCheck BY <1>1, <1>5, JournalerMoves DEF CloseCheck
<1>6. CASE SyncOk
  <2>4. synced' = Len(log) /\ synced' \in Nat /\ synced' <= Len(log) /\ synced' >= synced
    BY <1>1, <1>6 DEF SyncOk
  <2>1. CASE jpc = "sync"
    <3>1. jpc' = "advance" BY <2>1, <1>6 DEF SyncOk, SyncSites, AfterSync
    <3> QED BY <2>1, <3>1, <2>4, <1>1, <1>6, JournalerMoves DEF SyncOk
  <2>2. CASE jpc = "idleSync"
    <3>1. jpc' = "close" BY <2>2, <1>6 DEF SyncOk, SyncSites, AfterSync
    <3> QED BY <2>2, <3>1, <2>4, <1>1, <1>6, JournalerMoves DEF SyncOk
  <2>3. CASE jpc = "finalSync"
    <3>1. jpc' = "done" BY <2>3, <1>6 DEF SyncOk, SyncSites, AfterSync
    <3> QED BY <2>3, <3>1, <2>4, <1>1, <1>6, JournalerMoves DEF SyncOk
  <2> QED BY <1>6, <2>1, <2>2, <2>3 DEF SyncOk, SyncSites
<1>7. CASE SyncFails BY <1>1, <1>7, JournalerMoves DEF SyncFails, SyncSites
<1> QED BY <1>2, <1>3, <1>4, <1>5, <1>6, <1>7

\* Collecting keeps the invariant: a fresh stamp means the slot holds the next sequence.
LEMMA CollectKeeps ==
  ASSUME RingInv, Collect
  PROVE  RingInv'
<1>1. /\ TypeOK /\ ClaimInv /\ WindowInv /\ SlotInv /\ JournalInv /\ EngineInv /\ WaitInv
      /\ jpc = "collect" /\ BatchEnd \in Nat /\ journalCursor \in Nat /\ Len(batch) \in Nat
      /\ BatchEnd >= consumerCursor
      /\ stamp[SlotOf(BatchEnd)] = BatchEnd + 1 /\ SlotOf(BatchEnd) \in Slots
      /\ batch' = Append(batch, event[SlotOf(BatchEnd)])
  <2>1. journalCursor \in Nat /\ Len(batch) \in Nat /\ consumerCursor \in Nat
    BY DEF RingInv, RingCore, TypeOK
  <2>2. BatchEnd \in Nat /\ BatchEnd >= consumerCursor
    BY <2>1 DEF RingInv, RingCore, EngineInv, BatchEnd
  <2>3. SlotOf(BatchEnd) \in Slots BY <2>2, SlotInSlots
  <2> QED BY <2>1, <2>2, <2>3 DEF RingInv, RingCore, Collect, Collectable
<1>2. PICK o \in Orders : Stamped(o) /\ seq[o] = BatchEnd /\ event[SlotOf(BatchEnd)] = o
  <2>1. PICK o \in Orders : Stamped(o) /\ seq[o] + 1 = BatchEnd + 1
    BY <1>1 DEF SlotInv
  <2>2. seq[o] = BatchEnd BY <2>1, <1>1 DEF TypeOK
  <2> QED BY <2>1, <2>2, <1>1 DEF SlotInv
<1>3. /\ batch' = Append(batch, o) /\ batch' \in Seq(Orders) /\ Len(batch') = Len(batch) + 1
      /\ \A i \in 1..Len(batch) : batch'[i] = batch[i]
      /\ batch'[Len(batch) + 1] = o
  BY <1>1, <1>2, AppendProperties DEF TypeOK
<1>4. \A p \in Orders : Stamped(p)' <=> Stamped(p) BY DEF Stamped, Collect
<1>5. BatchEnd' = BatchEnd + 1 BY <1>1, <1>3 DEF BatchEnd, Collect
<1>6. TypeOK' BY <1>1, <1>3 DEF TypeOK, Collect
<1>7. ClaimInv' /\ SlotInv' BY OthersMove DEF Collect, RingInv
<1>8. WindowInv'
  <2> SUFFICES ASSUME NEW p \in Orders
               PROVE  /\ pc'[p] \in {"write", "stamp"} \/ Stamped(p)' => HasRoom(p)'
                      /\ Unstamped(p)' => seq'[p] >= BatchEnd' /\ seq'[p] >= Len(log')
    BY DEF WindowInv
  <2>1. pc'[p] \in {"write", "stamp"} \/ Stamped(p)' => HasRoom(p)'
    BY <1>1, <1>4 DEF WindowInv, HasRoom, Collect
  <2>2. ASSUME Unstamped(p)' PROVE seq'[p] >= BatchEnd' /\ seq'[p] >= Len(log')
    <3>1. Unstamped(p) /\ seq' = seq /\ log' = log BY <2>2, <1>4 DEF Unstamped, Collect
    <3>2. p # o BY <3>1, <1>2 DEF Unstamped
    <3>3. seq[p] # BatchEnd BY <3>1, <3>2, <1>1, <1>2 DEF ClaimInv, Unstamped
    <3>4. seq[p] >= BatchEnd /\ seq[p] >= Len(log) BY <3>1, <1>1 DEF WindowInv
    <3>5. seq[p] \in Int BY <1>1 DEF TypeOK
    <3> QED BY <3>1, <3>3, <3>4, <3>5, <1>1, <1>5
  <2> QED BY <2>1, <2>2
<1>9. JournalInv'
  <2>1. ASSUME NEW i \in DOMAIN batch'
        PROVE  Stamped(batch[i])' /\ seq'[batch'[i]] = journalCursor' + i - 1
    <3>1. i \in 1..(Len(batch) + 1) BY <1>3
    <3>2. CASE i = Len(batch) + 1
      BY <3>2, <1>1, <1>2, <1>3 DEF BatchEnd, Collect, Stamped
    <3>3. CASE i \in 1..Len(batch)
      <4>1. i \in DOMAIN batch /\ batch'[i] = batch[i] BY <3>3, <1>1, <1>3 DEF TypeOK
      <4> QED BY <4>1, <1>1 DEF JournalInv, Collect, Stamped
    <3> QED BY <3>1, <3>2, <3>3, <1>1
  <2>2. \A i \in DOMAIN log' : Stamped(log[i])' /\ seq'[log'[i]] = i - 1
    BY <1>1 DEF JournalInv, Collect, Stamped
  <2> QED BY <1>1, <2>1, <2>2 DEF JournalInv, Collect
<1>10. EngineInv' BY <1>1, EngineFrame DEF Collect
<1>11. WaitInv' BY <1>1, WaitFrame DEF Collect
<1> QED BY <1>6, <1>7, <1>8, <1>9, <1>10, <1>11 DEF RingInv, RingCore

\* An Append that hands the first n orders of the batch to the OS.
LEMMA AppendKeeps ==
  ASSUME RingInv, jpc = "append", NEW n \in 0..Len(batch), log' = log \o SubSeq(batch, 1, n),
         jpc' = "failing" \/ (jpc' \in AfterAppend /\ n = Len(batch)), dirty' \in BOOLEAN,
         UNCHANGED <<ringVars, lifeVars, orderVars, batch, synced, engineVars, shutdownVars>>
  PROVE  RingInv'
<1> DEFINE part == SubSeq(batch, 1, n)
<1>1. /\ TypeOK /\ ClaimInv /\ WindowInv /\ SlotInv /\ JournalInv /\ EngineInv /\ WaitInv
      /\ Len(batch) \in Nat /\ Len(log) \in Nat /\ n \in Nat /\ n <= Len(batch)
      /\ Len(log) = journalCursor
  BY DEF RingInv, RingCore, TypeOK, JournalInv
<1>2. /\ part \in Seq(Orders) /\ Len(part) = n
      /\ \A i \in 1..n : part[i] = batch[i]
  <2>1. \A i \in 1..n : batch[i] \in Orders BY <1>1 DEF TypeOK
  <2> QED BY <2>1, <1>1, SubSeqProperties
<1>3. /\ log' \in Seq(Orders) /\ Len(log') = Len(log) + n
      /\ \A i \in 1..Len(log) : log'[i] = log[i]
      /\ \A i \in (Len(log) + 1)..(Len(log) + n) : log'[i] = batch[i - Len(log)]
  <2>1. log \in Seq(Orders) /\ log' = log \o part BY <1>1 DEF TypeOK
  <2> HIDE DEF part
  <2>2. /\ log' \in Seq(Orders) /\ Len(log') = Len(log) + n
        /\ \A i \in 1..(Len(log) + n) :
             log'[i] = IF i <= Len(log) THEN log[i] ELSE part[i - Len(log)]
    BY <2>1, <1>2, ConcatProperties
  <2> QED BY <2>2, <1>1, <1>2
<1>4. jpc' \in {"failing", "sync", "advance"} /\ (jpc' = "advance" => ~SyncEachBatch)
  BY RingAssumption DEF AfterAppend
<1>5. \A p \in Orders : Stamped(p)' <=> Stamped(p) BY DEF Stamped
<1>6. TypeOK' BY <1>1, <1>3, <1>4 DEF TypeOK, JournalerSteps
<1>7. ClaimInv' /\ SlotInv' BY OthersMove DEF RingInv
<1>8. WindowInv'
  <2>1. \A p \in Orders : pc'[p] \in {"write", "stamp"} \/ Stamped(p)' => HasRoom(p)'
    BY <1>1, <1>5 DEF WindowInv, HasRoom
  <2>2. \A p \in Orders : Unstamped(p)' => seq'[p] >= BatchEnd' /\ seq'[p] >= Len(log')
    <3>1. BatchEnd' = BatchEnd /\ Len(log') <= BatchEnd BY <1>1, <1>3 DEF BatchEnd
    <3>2. \A p \in Orders : seq[p] \in Int /\ (Unstamped(p)' => Unstamped(p))
      BY <1>1, <1>5 DEF TypeOK, Unstamped
    <3>3. BatchEnd \in Int BY <1>1 DEF BatchEnd, TypeOK
    <3> QED BY <1>1, <1>3, <3>1, <3>2, <3>3 DEF WindowInv
  <2> QED BY <2>1, <2>2 DEF WindowInv
<1>9. JournalInv'
  <2>1. ASSUME NEW i \in DOMAIN log'
        PROVE  Stamped(log[i])' /\ seq'[log'[i]] = i - 1
    <3>1. i \in 1..(Len(log) + n) BY <1>3
    <3>2. CASE i <= Len(log)
      <4>1. i \in DOMAIN log /\ log'[i] = log[i] BY <3>1, <3>2, <1>1, <1>3 DEF TypeOK
      <4> QED BY <4>1, <1>1 DEF JournalInv, Stamped
    <3>3. CASE i > Len(log)
      <4>1. i - Len(log) \in DOMAIN batch /\ log'[i] = batch[i - Len(log)]
        BY <3>1, <3>3, <1>1, <1>3 DEF TypeOK
      <4>2. /\ Stamped(batch[i - Len(log)])
            /\ seq[batch[i - Len(log)]] = journalCursor + (i - Len(log)) - 1
        BY <4>1, <1>1 DEF JournalInv
      <4>3. journalCursor + (i - Len(log)) - 1 = i - 1 BY <3>1, <1>1
      <4> QED BY <4>1, <4>2, <4>3 DEF Stamped
    <3> QED BY <3>1, <3>2, <3>3, <1>1
  <2>2. \A i \in DOMAIN batch' : Stamped(batch[i])' /\ seq'[batch'[i]] = journalCursor' + i - 1
    BY <1>1 DEF JournalInv, Stamped
  <2>3. /\ journalCursor' <= Len(log') /\ synced' <= Len(log')
        /\ SyncEachBatch => journalCursor' <= synced'
        /\ ~failedFlag'
    BY <1>1, <1>3 DEF JournalInv, TypeOK
  <2>4. jpc' \in {"sync", "advance"} => Len(log') = BatchEnd'
    BY <1>1, <1>3, <1>4 DEF BatchEnd
  <2> QED BY <2>1, <2>2, <2>3, <2>4, <1>4 DEF JournalInv
<1>10. EngineInv'
  <2>1. Len(executed) \in Nat /\ DOMAIN executed = 1..Len(executed) /\ Len(executed) <= Len(log)
    BY <1>1 DEF EngineInv, TypeOK
  <2> QED BY <2>1, <1>1, <1>3 DEF EngineInv
<1>11. WaitInv' BY <1>1, WaitFrame
<1> QED BY <1>6, <1>7, <1>8, <1>9, <1>10, <1>11 DEF RingInv, RingCore

\* A successful Append keeps the invariant.
LEMMA AppendOkKeeps ==
  ASSUME RingInv, AppendOk
  PROVE  RingInv'
<1>1. batch \in Seq(Orders) /\ Len(batch) \in 0..Len(batch) /\ dirty \in BOOLEAN
  BY DEF RingInv, RingCore, TypeOK
<1>2. SubSeq(batch, 1, Len(batch)) = batch BY <1>1, SubSeqFull
<1>3. dirty' \in BOOLEAN BY <1>1 DEF AppendOk
<1> QED BY <1>1, <1>2, <1>3, AppendKeeps DEF AppendOk

\* An Append that fails after any part of the batch keeps the invariant.
LEMMA AppendFailsKeeps ==
  ASSUME RingInv, AppendFails
  PROVE  RingInv'
<1>1. PICK n \in 0..Len(batch) : log' = log \o SubSeq(batch, 1, n) BY DEF AppendFails
<1> QED BY <1>1, AppendKeeps DEF AppendFails, RingInv, RingCore, TypeOK

\* The store of journalCursor keeps the invariant: what it releases is in the journal.
LEMMA AdvanceKeeps ==
  ASSUME RingInv, Advance
  PROVE  RingInv'
<1>1. /\ TypeOK /\ ClaimInv /\ WindowInv /\ SlotInv /\ JournalInv /\ EngineInv /\ WaitInv
      /\ jpc = "advance" /\ jpc' = "wake" /\ batch' = <<>> /\ batch' \in Seq(Orders)
      /\ journalCursor' = BatchEnd /\ BatchEnd \in Nat /\ BatchEnd >= journalCursor
      /\ Len(log) = BatchEnd /\ BatchEnd' = BatchEnd /\ Len(batch') = 0
  BY EmptySeq DEF RingInv, RingCore, TypeOK, JournalInv, Advance, BatchEnd
<1>2. \A p \in Orders : Stamped(p)' <=> Stamped(p) BY DEF Stamped, Advance
<1>3. TypeOK' BY <1>1 DEF TypeOK, Advance, JournalerSteps
<1>4. ClaimInv' /\ SlotInv' BY OthersMove DEF Advance, RingInv
<1>5. WindowInv' BY <1>1, <1>2 DEF WindowInv, HasRoom, Unstamped, Advance
<1>6. JournalInv'
  <2>1. \A i \in DOMAIN batch' : FALSE BY <1>1
  <2>2. \A i \in DOMAIN log' : Stamped(log[i])' /\ seq'[log'[i]] = i - 1
    BY <1>1 DEF JournalInv, Advance, Stamped
  <2> QED BY <1>1, <2>1, <2>2 DEF JournalInv, Advance, TypeOK
<1>7. EngineInv' BY <1>1 DEF EngineInv, Advance, TypeOK
<1>8. WaitInv' BY <1>1 DEF WaitInv, JournalInv, Journaled, Advance, TypeOK
<1> QED BY <1>3, <1>4, <1>5, <1>6, <1>7, <1>8 DEF RingInv, RingCore

\* A Broadcast with durMu free: whoever slept goes back to take durMu.
LEMMA BroadcastKeeps ==
  ASSUME RingInv, durMu = None, Broadcast, failedFlag' \in BOOLEAN,
         failedFlag => failedFlag', jpc' = IF failedFlag' THEN "done" ELSE "collect",
         ~failedFlag' => jpc = "wake",
         UNCHANGED <<ringVars, finalSeq, closedFlag, seq, durMu, batch, dirty, log, synced,
                     engineVars, shutdownVars>>
  PROVE  RingInv'
<1>1. /\ TypeOK /\ ClaimInv /\ WindowInv /\ SlotInv /\ JournalInv /\ EngineInv /\ WaitInv
      /\ \A p \in Orders : pc'[p] = IF pc[p] = "asleep" THEN "lock" ELSE pc[p]
      /\ \A p \in Orders : pc[p] \notin {"check", "sleep"}
  BY RingAssumption DEF RingInv, RingCore, Broadcast, WaitInv
<1>2. \A p \in Orders : Stamped(p)' <=> Stamped(p) BY <1>1 DEF Stamped, Waiting
<1>3. TypeOK'
  <2>1. pc' \in [Orders -> OrderSteps] BY <1>1 DEF TypeOK, Broadcast, OrderSteps, Waiting
  <2> QED BY <1>1, <2>1 DEF TypeOK, JournalerSteps
<1>4. ClaimInv' BY <1>1, <1>2, ClaimFrame DEF ClaimInv
<1>5. WindowInv' BY <1>1, <1>2, WindowFrame DEF WindowInv
<1>6. SlotInv' BY <1>1, <1>2, SlotFrame
<1>7. JournalInv' BY <1>1, <1>2 DEF JournalInv, TypeOK, BatchEnd
<1>8. EngineInv' BY <1>1, EngineFrame
<1>9. WaitInv' BY <1>1, RingAssumption DEF WaitInv, Journaled
<1> QED BY <1>3, <1>4, <1>5, <1>6, <1>7, <1>8, <1>9 DEF RingInv, RingCore

\* The broadcast after a release keeps the invariant: nobody answered is left asleep.
LEMMA WakeKeeps ==
  ASSUME RingInv, Wake
  PROVE  RingInv'
<1>1. ~failedFlag /\ failedFlag \in BOOLEAN BY DEF RingInv, RingCore, TypeOK, JournalInv, Wake
<1> QED BY <1>1, BroadcastKeeps DEF Wake

\* fail keeps the invariant: every sleeper is awake to see it.
LEMMA FailKeeps ==
  ASSUME RingInv, Fail
  PROVE  RingInv'
BY BroadcastKeeps DEF Fail

-----------------------------------------------------------------------------
(* The engine and Shutdown.                                                  *)

\* The engine moves from one place to another, the cursor staying where it is.
LEMMA EngineMoves ==
  ASSUME RingInv, cpc' \in EngineSteps, cpc # "advance", cpc' # "advance",
         cpc' = "event" => consumerCursor < journalCursor,
         UNCHANGED <<ringVars, lifeVars, orderVars, journalVars, executed, shutdownVars>>
  PROVE  RingInv'
<1>1. TypeOK' BY DEF RingInv, RingCore, TypeOK
<1>2. ClaimInv' /\ SlotInv' /\ WindowInv' BY OthersMove, WindowStays DEF RingInv
<1>3. JournalInv' BY JournalFrame DEF RingInv, RingCore, Stamped
<1>4. EngineInv' BY DEF RingInv, RingCore, EngineInv
<1>5. WaitInv' BY WaitFrame DEF RingInv, RingCore
<1> QED BY <1>1, <1>2, <1>3, <1>4, <1>5 DEF RingInv, RingCore

\* The engine's steps that only choose the next one keep the invariant.
LEMMA EngineControlKeeps ==
  ASSUME RingInv, StartConsumer \/ Barrier \/ FailCheck \/ DrainCheck
  PROVE  RingInv'
<1> USE DEF EngineSteps
<1>1. CASE StartConsumer BY <1>1, EngineMoves DEF StartConsumer
<1>2. CASE Barrier BY <1>2, EngineMoves DEF Barrier, Consumable
<1>3. CASE FailCheck BY <1>3, EngineMoves DEF FailCheck
<1>4. CASE DrainCheck BY <1>4, EngineMoves DEF DrainCheck
<1> QED BY <1>1, <1>2, <1>3, <1>4

\* Handing an event to the matching engine keeps the invariant: it is the journal's next.
LEMMA OnEventKeeps ==
  ASSUME RingInv, OnEvent
  PROVE  RingInv'
<1>1. /\ TypeOK /\ ClaimInv /\ WindowInv /\ SlotInv /\ JournalInv /\ EngineInv /\ WaitInv
      /\ cpc = "event" /\ cpc' = "advance"
      /\ executed' = Append(executed, event[SlotOf(consumerCursor)])
      /\ consumerCursor \in Nat /\ consumerCursor < journalCursor
      /\ executed \in Seq(Orders) /\ Len(executed) = consumerCursor
  BY DEF RingInv, RingCore, TypeOK, EngineInv, OnEvent
<1> DEFINE o == log[consumerCursor + 1]
<1>2. consumerCursor + 1 \in DOMAIN log /\ o \in Orders
  BY <1>1 DEF TypeOK, JournalInv
<1>3. Stamped(o) /\ seq[o] = consumerCursor BY <1>1, <1>2 DEF JournalInv
<1>4. event[SlotOf(consumerCursor)] = o BY <1>1, <1>2, <1>3 DEF SlotInv
<1> HIDE DEF o
<1>5. /\ executed' \in Seq(Orders) /\ Len(executed') = consumerCursor + 1
      /\ \A i \in 1..consumerCursor : executed'[i] = executed[i]
      /\ executed'[consumerCursor + 1] = o
  BY <1>1, <1>2, <1>4, AppendProperties
<1>6. TypeOK' BY <1>1, <1>5 DEF TypeOK, OnEvent, EngineSteps
<1>7. ClaimInv' /\ SlotInv' /\ WindowInv' BY OthersMove, WindowStays DEF OnEvent, RingInv
<1>8. JournalInv' BY <1>1, JournalFrame DEF OnEvent, Stamped
<1>9. EngineInv'
  <2>1. ASSUME NEW i \in DOMAIN executed' PROVE executed'[i] = log'[i]
    <3>1. i \in 1..(consumerCursor + 1) BY <1>5
    <3>2. CASE i = consumerCursor + 1 BY <3>2, <1>5 DEF o, OnEvent
    <3>3. CASE i \in 1..consumerCursor
      BY <3>3, <1>1, <1>5 DEF EngineInv, OnEvent
    <3> QED BY <3>1, <3>2, <3>3, <1>1
  <2> QED BY <2>1, <1>1, <1>5 DEF EngineInv, OnEvent
<1>10. WaitInv' BY <1>1, WaitFrame DEF OnEvent
<1> QED BY <1>6, <1>7, <1>8, <1>9, <1>10 DEF RingInv, RingCore

\* The store of consumerCursor keeps claims and slots in order: it only frees a slot.
LEMMA CoreFreeSlot ==
  ASSUME RingCore, FreeSlot
  PROVE  RingCore'
<1>1. /\ TypeOK /\ ClaimInv /\ WindowInv /\ SlotInv
      /\ cpc' = "barrier" /\ consumerCursor' = consumerCursor + 1 /\ consumerCursor \in Nat
  BY DEF RingCore, TypeOK, FreeSlot
<1>2. \A p \in Orders : (Stamped(p)' <=> Stamped(p)) /\ seq[p] \in Int
  BY <1>1 DEF Stamped, FreeSlot, TypeOK
<1>3. TypeOK' BY <1>1 DEF TypeOK, FreeSlot, EngineSteps
<1>4. ClaimInv' BY <1>1, <1>2, ClaimFrame DEF FreeSlot, ClaimInv
<1>5. WindowInv'
  <2>1. Capacity \in Nat BY RingAssumption
  <2>2. \A p \in Orders : HasRoom(p) => HasRoom(p)'
    BY <2>1, <1>1, <1>2 DEF HasRoom, FreeSlot
  <2>3. \A p \in Orders : Unstamped(p)' => Unstamped(p) BY <1>2 DEF Unstamped, FreeSlot
  <2> QED BY <1>1, <1>2, <2>2, <2>3 DEF WindowInv, BatchEnd, FreeSlot
<1>6. SlotInv'
  <2>1. \A p \in Orders : seq'[p] >= consumerCursor' => seq[p] >= consumerCursor
    BY <1>1, <1>2 DEF FreeSlot
  <2>2. /\ pc' = pc /\ seq' = seq /\ event' = event /\ stamp' = stamp BY DEF FreeSlot
  <2>3. ASSUME NEW k \in Slots, event'[k] # None
        PROVE  pc'[event'[k]] = "stamp" \/ Stamped(event[k])'
    BY <2>2, <2>3, <1>1 DEF SlotInv, Stamped
  <2>4. ASSUME NEW k \in Slots, stamp'[k] # 0
        PROVE  \E p \in Orders : Stamped(p)' /\ seq'[p] + 1 = stamp'[k]
    BY <2>2, <2>4, <1>1, <1>2 DEF SlotInv
  <2>5. ASSUME NEW p \in Orders
        PROVE  /\ pc'[p] = "stamp" => event'[SlotOf(seq'[p])] = p
               /\ Stamped(p)' /\ seq'[p] >= consumerCursor' =>
                    event'[SlotOf(seq'[p])] = p /\ stamp'[SlotOf(seq'[p])] = seq'[p] + 1
    BY <2>1, <2>2, <1>1, <1>2 DEF SlotInv
  <2> QED BY <2>3, <2>4, <2>5 DEF SlotInv
<1> QED BY <1>3, <1>4, <1>5, <1>6 DEF RingCore

\* The store of consumerCursor keeps the invariant: it frees a slot already executed.
LEMMA FreeSlotKeeps ==
  ASSUME RingInv, FreeSlot
  PROVE  RingInv'
<1>1. /\ TypeOK /\ JournalInv /\ EngineInv /\ WaitInv
      /\ cpc = "advance" /\ cpc' = "barrier" /\ consumerCursor' = consumerCursor + 1
      /\ consumerCursor \in Nat /\ journalCursor \in Nat /\ consumerCursor < journalCursor
  BY DEF RingInv, RingCore, TypeOK, EngineInv, FreeSlot
<1>2. RingCore' BY CoreFreeSlot DEF RingInv
<1>3. JournalInv' BY <1>1, JournalFrame DEF FreeSlot, Stamped
<1>4. EngineInv' BY <1>1 DEF EngineInv, FreeSlot
<1>5. WaitInv' BY <1>1, WaitFrame DEF FreeSlot
<1> QED BY <1>2, <1>3, <1>4, <1>5 DEF RingInv

\* Close and Shutdown keep claims and slots in order: no sequence exists beyond finalSeq.
LEMMA CoreShutdown ==
  ASSUME RingCore, Shutdown
  PROVE  RingCore'
<1>1. UNCHANGED <<consumerCursor, journalCursor, event, stamp, failedFlag, orderVars, journalVars,
                  engineVars>>
  BY DEF Shutdown, CloseClaims, Draining, CloseFlag, CheckJournaler, WaitJournaler,
         CheckEngine, WaitEngine, Expire
<1>2. \A p \in Orders : Stamped(p)' <=> Stamped(p) BY <1>1 DEF Stamped
<1>3. WindowInv' /\ SlotInv' BY <1>1, <1>2, WindowStays, SlotFrame DEF RingCore
<1>4. CASE CloseClaims
  <2>1. /\ TypeOK /\ ClaimInv
        /\ spc = "running" /\ spc' = "flag" /\ claimCursor' = claimCursor + ClosedBit
        /\ finalSeq' = claimCursor /\ claimCursor \in Nat /\ ClosedBit \in Nat
    BY <1>4, RingAssumption DEF RingCore, TypeOK, CloseClaims
  <2>2. TypeOK' BY <1>4, <2>1 DEF TypeOK, CloseClaims, ShutdownSteps
  <2>3. Claims' = Claims /\ IsClosed(claimCursor') BY <2>1 DEF Claims, IsClosed
  <2>4. ClaimInv' BY <1>1, <1>2, <2>1, <2>3 DEF ClaimInv
  <2> QED BY <1>3, <2>2, <2>4 DEF RingCore
<1>5. CASE Draining \/ Expire
  <2>1. /\ UNCHANGED <<claimCursor, finalSeq>>
        /\ closedFlag' \in BOOLEAN /\ waited' \subseteq {"journaler", "engine"}
        /\ spc' \in ShutdownSteps \ {"running"} /\ spc # "running"
    BY <1>5 DEF RingCore, TypeOK, Draining, CloseFlag, CheckJournaler, WaitJournaler,
                CheckEngine, WaitEngine, Expire, ShutdownSteps
  <2>2. TypeOK' BY <1>1, <2>1 DEF RingCore, TypeOK
  <2>3. ClaimInv' BY <1>1, <1>2, <2>1, ClaimFrame DEF RingCore, ClaimInv
  <2> QED BY <1>3, <2>2, <2>3 DEF RingCore
<1> QED BY <1>4, <1>5 DEF Shutdown

\* Close and Shutdown keep the invariant: they move no cursor but claimCursor.
LEMMA ShutdownKeeps ==
  ASSUME RingInv, Shutdown
  PROVE  RingInv'
<1>1. UNCHANGED <<consumerCursor, journalCursor, event, stamp, failedFlag, orderVars, journalVars,
                  engineVars>>
  BY DEF Shutdown, CloseClaims, Draining, CloseFlag, CheckJournaler, WaitJournaler,
         CheckEngine, WaitEngine, Expire
<1>2. RingCore' BY CoreShutdown DEF RingInv
<1>3. JournalInv' BY <1>1, JournalFrame DEF RingInv, RingCore, Stamped
<1>4. EngineInv' BY <1>1, EngineFrame DEF RingInv
<1>5. WaitInv' BY <1>1, WaitFrame DEF RingInv
<1> QED BY <1>2, <1>3, <1>4, <1>5 DEF RingInv

-----------------------------------------------------------------------------
(* The invariant, and what follows from it.                                  *)

\* The initial state satisfies the invariant.
LEMMA RingInvInit == Init => RingInv
<1> SUFFICES ASSUME Init PROVE RingInv OBVIOUS
<1>1. /\ ClosedBit \in Nat \ {0} /\ Capacity \in Nat \ {0} /\ None \notin Orders
      /\ log = <<>> /\ batch = <<>> /\ executed = <<>>
      /\ Len(log) = 0 /\ Len(batch) = 0 /\ Len(executed) = 0
      /\ <<>> \in Seq(Orders)
  BY RingAssumption, EmptySeq DEF Init
<1>2. \A o \in Orders : pc[o] = "new" /\ seq[o] = -1 /\ ~Stamped(o)
  BY DEF Init, Stamped, Waiting
<1>3. TypeOK
  BY <1>1 DEF Init, TypeOK, OrderSteps, JournalerSteps, EngineSteps, ShutdownSteps
<1>4. ClaimInv BY <1>1, <1>2 DEF Init, ClaimInv, Claims, IsClosed
<1>5. WindowInv BY <1>2 DEF WindowInv, Unstamped
<1>6. SlotInv BY <1>2 DEF Init, SlotInv
<1>7. JournalInv BY <1>1 DEF Init, JournalInv, BatchEnd
<1>8. EngineInv BY <1>1 DEF Init, EngineInv
<1>9. WaitInv BY <1>1, <1>2 DEF Init, WaitInv
<1> QED BY <1>3, <1>4, <1>5, <1>6, <1>7, <1>8, <1>9 DEF RingInv, RingCore

\* Every step of the ring keeps the invariant.
LEMMA RingInvNext == RingInv /\ [Next]_vars => RingInv'
<1> SUFFICES ASSUME RingInv, [Next]_vars PROVE RingInv' OBVIOUS
<1>1. ASSUME NEW o \in Orders, OrderNext(o) PROVE RingInv'
  BY <1>1, PublishCheckKeeps, ClaimKeeps, GateKeeps, FullCheckKeeps, RefuseKeeps,
     WriteEventKeeps, StampKeeps, WaitDurableKeeps, LockKeeps, CheckKeeps, SleepKeeps
     DEF OrderNext, Publish
<1>2. CASE Journaler
  BY <1>2, ControlKeeps, CollectKeeps, AppendOkKeeps, AppendFailsKeeps, AdvanceKeeps,
     WakeKeeps, FailKeeps DEF Journaler
<1>3. CASE Consumer
  BY <1>3, EngineControlKeeps, OnEventKeeps, FreeSlotKeeps DEF Consumer
<1>4. CASE Shutdown BY <1>4, ShutdownKeeps
<1>5. CASE UNCHANGED vars
  <2> USE <1>5 DEF vars
  <2>1. TypeOK' BY DEF RingInv, RingCore, TypeOK
  <2>2. ClaimInv' /\ SlotInv' /\ WindowInv' BY OthersMove, WindowStays DEF RingInv
  <2>3. JournalInv' BY JournalFrame DEF RingInv, RingCore, Stamped
  <2>4. EngineInv' /\ WaitInv' BY EngineFrame, WaitFrame DEF RingInv, RingCore
  <2> QED BY <2>1, <2>2, <2>3, <2>4 DEF RingInv, RingCore
<1> QED BY <1>1, <1>2, <1>3, <1>4, <1>5 DEF Next

\* The inductive invariant holds in every behaviour, for any number of orders, any
\* capacity and batch size, in both sync modes (buffer.go, the ring as a whole).
THEOREM RingInvariantHolds == Spec => []RingInv
<1>1. Init => RingInv BY RingInvInit
<1>2. RingInv /\ [Next]_vars => RingInv' BY RingInvNext
<1> QED BY <1>1, <1>2, PTL DEF Spec

\* Every variable keeps its type; in particular neither journaler nor engine ever
\* takes the zero event of a slot nobody has written (buffer.go, collect and OnEvent).
THEOREM TypeCorrect == Spec => []TypeOK
<1>1. RingInv => TypeOK BY DEF RingInv, RingCore
<1> QED BY <1>1, RingInvariantHolds, PTL

\* A confirmed order is in the journal at its own sequence, and fsynced when every
\* batch is (WaitDurable): what is below journalCursor is in the file.
THEOREM AckIsDurable == Spec => []AckImpliesDurable
<1>1. RingInv => AckImpliesDurable
  <2> SUFFICES ASSUME RingInv, NEW o \in Orders, pc[o] = "acked"
               PROVE  /\ seq[o] < Len(log) /\ log[seq[o] + 1] = o
                      /\ SyncEachBatch => seq[o] < synced
    BY DEF AckImpliesDurable
  <2>1. /\ seq[o] \in Nat /\ journalCursor \in Nat /\ Len(log) \in Nat /\ synced \in Nat
        /\ DOMAIN log = 1..Len(log)
    BY DEF RingInv, RingCore, TypeOK, ClaimInv, Stamped
  <2>2. seq[o] < journalCursor BY DEF RingInv, RingCore, WaitInv, Journaled
  <2>3. seq[o] < Len(log) /\ (SyncEachBatch => seq[o] < synced)
    <3>1. journalCursor <= Len(log) /\ (SyncEachBatch => journalCursor <= synced)
      BY DEF RingInv, RingCore, JournalInv
    <3> QED BY <2>1, <2>2, <3>1
  <2>4. seq[o] + 1 \in DOMAIN log /\ log[seq[o] + 1] \in Orders
    BY <2>1, <2>3 DEF RingInv, RingCore, TypeOK
  <2>5. seq[log[seq[o] + 1]] = seq[o]
    <3>1. \A i \in DOMAIN log : seq[log[i]] = i - 1 BY DEF RingInv, RingCore, JournalInv
    <3> QED BY <2>1, <2>4, <3>1
  <2>6. log[seq[o] + 1] = o BY <2>1, <2>4, <2>5 DEF RingInv, RingCore, ClaimInv
  <2> QED BY <2>3, <2>6
<1> QED BY <1>1, RingInvariantHolds, PTL

\* What the engine has executed is a prefix of the journal, and of its fsynced part
\* when every batch is fsynced (StartConsumer behind journalCursor).
THEOREM EngineIsBehindJournal == Spec => []EngineFollowsJournal
<1>1. RingInv => EngineFollowsJournal
  <2> SUFFICES ASSUME RingInv PROVE EngineFollowsJournal OBVIOUS
  <2>1. /\ consumerCursor \in Nat /\ journalCursor \in Nat /\ Len(log) \in Nat
        /\ synced \in Nat /\ Len(executed) \in Nat /\ DOMAIN executed = 1..Len(executed)
    BY DEF RingInv, RingCore, TypeOK
  <2>2. Len(executed) <= journalCursor BY <2>1 DEF RingInv, RingCore, EngineInv
  <2>3. journalCursor <= Len(log) /\ (SyncEachBatch => journalCursor <= synced)
    BY DEF RingInv, RingCore, JournalInv
  <2>4. \A i \in 1..Len(executed) : executed[i] = log[i] BY <2>1 DEF RingInv, RingCore, EngineInv
  <2> QED BY <2>1, <2>2, <2>3, <2>4 DEF EngineFollowsJournal
<1> QED BY <1>1, RingInvariantHolds, PTL

\* A published slot keeps its event until the engine has freed it and no two producers
\* are inside one slot, at any capacity (Publish's gate on consumerCursor).
THEOREM SlotsAreKept == Spec => []SlotsKept
<1>1. RingInv => SlotsKept
  <2> SUFFICES ASSUME RingInv PROVE SlotsKept OBVIOUS
  <2>1. \A o \in Orders : Stamped(o) /\ seq[o] >= consumerCursor =>
          event[SlotOf(seq[o])] = o /\ stamp[SlotOf(seq[o])] = seq[o] + 1
    BY DEF RingInv, RingCore, SlotInv
  <2>2. \A o, p \in Orders :
          pc[o] \in {"write", "stamp"} /\ pc[p] \in {"write", "stamp"} /\ o # p =>
            SlotOf(seq[o]) # SlotOf(seq[p])
    BY OwnSlot, ProducersAhead DEF RingInv
  <2> QED BY <2>1, <2>2 DEF SlotsKept
<1> QED BY <1>1, RingInvariantHolds, PTL

\* No caller of WaitDurable sleeps past its answer: the Broadcast under durMu cannot
\* fall between its look at the cursor and its Wait (WaitDurable, StartJournaler, fail).
THEOREM WakeupsAreNotLost == Spec => []NoLostWakeup
<1>1. RingInv => NoLostWakeup BY DEF RingInv, RingCore, WaitInv, NoLostWakeup
<1> QED BY <1>1, RingInvariantHolds, PTL

\* An order whose Publish returned an error is in no slot, no batch, not in the journal
\* and not executed (Publish; internal/ingest frees its order_id on that promise).
THEOREM RefusedOrdersLeaveNoTrace == Spec => []RefusedLeavesNoTrace
<1>1. RingInv => RefusedLeavesNoTrace
  <2> SUFFICES ASSUME RingInv, NEW o \in Orders, pc[o] \in {"refuse", "failed", "closed"}
               PROVE  /\ \A k \in Slots : event[k] # o
                      /\ \A i \in DOMAIN batch : batch[i] # o
                      /\ \A i \in DOMAIN log : log[i] # o
                      /\ \A i \in DOMAIN executed : executed[i] # o
    BY DEF RefusedLeavesNoTrace
  <2>1. ~Stamped(o) /\ pc[o] # "stamp" BY DEF Stamped, Waiting
  <2>2. \A k \in Slots : event[k] # o
    BY <2>1, RingAssumption DEF RingInv, RingCore, SlotInv
  <2>3. \A i \in DOMAIN batch : batch[i] # o BY <2>1 DEF RingInv, RingCore, JournalInv
  <2>4. \A i \in DOMAIN log : log[i] # o BY <2>1 DEF RingInv, RingCore, JournalInv
  <2>5. ASSUME NEW i \in DOMAIN executed PROVE executed[i] # o
    <3>1. Len(executed) <= Len(log) /\ Len(executed) \in Nat /\ Len(log) \in Nat
      BY DEF RingInv, RingCore, TypeOK, EngineInv, JournalInv
    <3>2. DOMAIN executed = 1..Len(executed) /\ DOMAIN log = 1..Len(log)
      BY DEF RingInv, RingCore, TypeOK
    <3>3. i \in DOMAIN log BY <3>1, <3>2
    <3> QED BY <3>3, <2>4 DEF RingInv, RingCore, EngineInv
  <2> QED BY <2>2, <2>3, <2>4, <2>5
<1> QED BY <1>1, RingInvariantHolds, PTL

\* An order that WaitDurable gave up on is past the cursor of the failed journaler and
\* the engine has not executed it (WaitDurable, fail).
THEOREM UnconfirmedOrdersAreNotExecuted == Spec => []UnconfirmedNotExecuted
<1>1. RingInv => UnconfirmedNotExecuted
  <2> SUFFICES ASSUME RingInv, NEW o \in Orders, pc[o] = "unconfirmed"
               PROVE  failedFlag /\ \A i \in DOMAIN executed : executed[i] # o
    BY DEF UnconfirmedNotExecuted
  <2>1. failedFlag /\ ~(journalCursor > seq[o]) BY DEF RingInv, RingCore, WaitInv, Journaled
  <2>2. /\ journalCursor \in Nat /\ seq[o] \in Int /\ consumerCursor \in Nat
        /\ Len(executed) \in Nat /\ Len(log) \in Nat
        /\ DOMAIN executed = 1..Len(executed) /\ DOMAIN log = 1..Len(log)
    BY DEF RingInv, RingCore, TypeOK
  <2>3. ASSUME NEW i \in DOMAIN executed PROVE executed[i] # o
    <3>1. Len(executed) <= journalCursor /\ journalCursor <= Len(log)
      BY <2>2 DEF RingInv, RingCore, EngineInv, JournalInv
    <3>2. i \in DOMAIN log /\ i \in Nat /\ i - 1 < journalCursor BY <2>2, <3>1
    <3>3. seq[executed[i]] = i - 1 BY <3>2 DEF RingInv, RingCore, EngineInv, JournalInv
    <3> QED BY <2>1, <2>2, <3>2, <3>3
  <2> QED BY <2>1, <2>3
<1> QED BY <1>1, RingInvariantHolds, PTL

-----------------------------------------------------------------------------
(* Shutdown drains: DrainInv is inductive on top of RingInv.                 *)

\* The initial state satisfies DrainInv.
LEMMA DrainInvInit == Init => DrainInv
BY EmptySeq DEF Init, DrainInv

\* No step of an order touches the life cycle or a stage.
LEMMA OrdersKeepDrain ==
  ASSUME DrainInv, NEW o \in Orders, OrderNext(o)
  PROVE  DrainInv'
<1>1. UNCHANGED <<lifeVars, jpc, dirty, log, synced, journalCursor, consumerCursor, cpc,
                  shutdownVars>>
  BY DEF OrderNext, Publish, PublishCheck, Claim, Gate, FullCheck, Refuse, WriteEvent, Stamp,
         WaitDurable, Lock, Check, Sleep
<1> QED BY <1>1 DEF DrainInv, Drained

\* The journaler returns only above finalSeq with nothing left to fsync, or failed.
LEMMA JournalerKeepsDrain ==
  ASSUME RingInv, DrainInv, Journaler
  PROVE  DrainInv'
<1>1. /\ SyncEachBatch \in BOOLEAN /\ dirty \in BOOLEAN /\ failedFlag \in BOOLEAN
      /\ failedFlag => jpc = "done"
  BY RingAssumption DEF RingInv, RingCore, TypeOK, JournalInv
<1>2. jpc = "new" => "journaler" \notin waited BY DEF DrainInv
<1> USE DEF DrainInv, Drained
<1>3. CASE StartJournaler BY <1>3 DEF StartJournaler
<1>4. CASE Collect BY <1>4 DEF Collect
<1>5. CASE CollectDone BY <1>5 DEF CollectDone
<1>6. CASE Idle BY <1>1, <1>6 DEF Idle
<1>7. CASE CloseCheck BY <1>1, <1>7 DEF CloseCheck
<1>8. CASE AppendOk BY <1>1, <1>8 DEF AppendOk, AfterAppend
<1>9. CASE AppendFails BY <1>1, <1>9 DEF AppendFails
<1>10. CASE SyncOk
  <2>1. CASE jpc = "sync"
    <3>1. jpc' = "advance" BY <2>1, <1>10 DEF SyncOk, SyncSites, AfterSync
    <3> QED BY <2>1, <3>1, <1>1, <1>10 DEF SyncOk
  <2>2. CASE jpc = "idleSync"
    <3>1. jpc' = "close" BY <2>2, <1>10 DEF SyncOk, SyncSites, AfterSync
    <3> QED BY <2>2, <3>1, <1>1, <1>10 DEF SyncOk
  <2>3. CASE jpc = "finalSync"
    <3>1. jpc' = "done" BY <2>3, <1>10 DEF SyncOk, SyncSites, AfterSync
    <3> QED BY <2>3, <3>1, <1>1, <1>10 DEF SyncOk
  <2> QED BY <1>10, <2>1, <2>2, <2>3 DEF SyncOk, SyncSites
<1>11. CASE SyncFails BY <1>1, <1>11 DEF SyncFails, SyncSites
<1>12. CASE Advance BY <1>1, <1>12 DEF Advance
<1>13. CASE Wake BY <1>1, <1>13 DEF Wake
<1>14. CASE Fail BY <1>1, <1>14 DEF Fail
<1> QED BY <1>3, <1>4, <1>5, <1>6, <1>7, <1>8, <1>9, <1>10, <1>11, <1>12, <1>13, <1>14
           DEF Journaler

\* The engine returns only above finalSeq, or in a failed ring.
LEMMA EngineKeepsDrain ==
  ASSUME DrainInv, Consumer
  PROVE  DrainInv'
<1>1. UNCHANGED <<lifeVars, jpc, dirty, log, synced, journalCursor, shutdownVars>>
  BY DEF Consumer, StartConsumer, Barrier, OnEvent, FreeSlot, FailCheck, DrainCheck
<1>2. cpc # "done" /\ (cpc' = "done" => consumerCursor' = consumerCursor)
  BY DEF Consumer, StartConsumer, Barrier, OnEvent, FreeSlot, FailCheck, DrainCheck
<1>3. cpc' = "done" => failedFlag \/ Drained(consumerCursor)
  BY DEF Consumer, StartConsumer, Barrier, OnEvent, FreeSlot, FailCheck, DrainCheck
<1> QED BY <1>1, <1>2, <1>3 DEF DrainInv, Drained

\* Shutdown counts a stage as waited for only when it has returned.
LEMMA ShutdownKeepsDrain ==
  ASSUME RingInv, DrainInv, Shutdown
  PROVE  DrainInv'
<1> USE DEF DrainInv, Drained
<1>1. CASE CloseClaims BY <1>1 DEF CloseClaims
<1>2. CASE CloseFlag BY <1>2 DEF CloseFlag
<1>3. CASE CheckJournaler BY <1>3 DEF CheckJournaler
<1>4. CASE WaitJournaler BY <1>4 DEF WaitJournaler
<1>5. CASE CheckEngine BY <1>5 DEF CheckEngine
<1>6. CASE WaitEngine BY <1>6 DEF WaitEngine
<1>7. CASE Expire BY <1>7 DEF Expire
<1> QED BY <1>1, <1>2, <1>3, <1>4, <1>5, <1>6, <1>7 DEF Shutdown, Draining

\* When both stages have drained, every claimed sequence is below the engine's cursor.
LEMMA DrainedState == RingInv /\ DrainInv => DrainedShutdown
<1> SUFFICES ASSUME RingInv, DrainInv, spc = "returned", waited = {"journaler", "engine"},
                    ~failedFlag
             PROVE  /\ \A o \in Orders : seq[o] >= 0 => \E i \in DOMAIN executed : executed[i] = o
                    /\ synced = Len(log)
                    /\ executed = log
  BY DEF DrainedShutdown
<1>1. /\ consumerCursor \in Nat /\ journalCursor \in Nat /\ finalSeq \in Nat
      /\ log \in Seq(Orders) /\ executed \in Seq(Orders)
      /\ Len(log) \in Nat /\ Len(executed) \in Nat
      /\ DOMAIN log = 1..Len(log) /\ DOMAIN executed = 1..Len(executed)
  BY DEF RingInv, RingCore, TypeOK
<1>2. jpc = "done" /\ cpc = "done" BY DEF DrainInv
<1>3. synced = Len(log) /\ consumerCursor >= finalSeq BY <1>2 DEF DrainInv, Drained
<1>4. Len(executed) = consumerCursor /\ consumerCursor <= journalCursor
  BY <1>2 DEF RingInv, RingCore, EngineInv
<1>5. Claims = finalSeq BY DEF Claims
<1>6. Len(log) <= finalSeq /\ journalCursor <= Len(log)
  BY <1>5, TakenIsClaimed DEF RingInv, RingCore, JournalInv
<1>7. Len(executed) = Len(log)
  <2>1. Len(log) <= consumerCursor BY <1>1, <1>3, <1>6
  <2>2. consumerCursor <= Len(log) BY <1>1, <1>4, <1>6
  <2>3. consumerCursor \in Nat /\ Len(log) \in Nat BY <1>1
  <2>4. consumerCursor = Len(log) BY <2>1, <2>2, <2>3
  <2> QED BY <2>4, <1>4
<1>8. \A i \in 1..Len(executed) : executed[i] = log[i] BY <1>1 DEF RingInv, RingCore, EngineInv
<1>9. executed = log BY <1>1, <1>7, <1>8, SeqEqual
<1>10. ASSUME NEW o \in Orders, seq[o] >= 0
       PROVE  \E i \in DOMAIN executed : executed[i] = o
  <2>1. seq[o] \in Nat /\ seq[o] < finalSeq
    BY <1>5, <1>10 DEF RingInv, RingCore, TypeOK, ClaimInv
  <2>2. seq[o] + 1 \in DOMAIN log /\ log[seq[o] + 1] \in Orders
    BY <2>1, <1>1, <1>3, <1>4, <1>7
  <2>3. \A i \in DOMAIN log : seq[log[i]] = i - 1 BY DEF RingInv, RingCore, JournalInv
  <2>4. seq[log[seq[o] + 1]] = seq[o] BY <2>1, <2>2, <2>3
  <2>5. log[seq[o] + 1] = o BY <2>1, <2>2, <2>4 DEF RingInv, RingCore, ClaimInv
  <2> QED BY <2>2, <2>5, <1>9
<1> QED BY <1>3, <1>9, <1>10

\* A Shutdown that waited for both stages of a ring whose journal works returns with
\* every claimed order journaled, fsynced and executed (Close, Shutdown and the drain
\* of StartJournaler and StartConsumer).
THEOREM ShutdownDrains == Spec => []DrainedShutdown
<1>1. Init => RingInv /\ DrainInv BY RingInvInit, DrainInvInit
<1>2. RingInv /\ DrainInv /\ [Next]_vars => (RingInv /\ DrainInv)'
  <2> SUFFICES ASSUME RingInv, DrainInv, [Next]_vars PROVE RingInv' /\ DrainInv' OBVIOUS
  <2>1. RingInv' BY RingInvNext
  <2>2. CASE UNCHANGED vars BY <2>1, <2>2 DEF vars, DrainInv, Drained
  <2>3. CASE Next
    BY <2>1, <2>3, OrdersKeepDrain, JournalerKeepsDrain, EngineKeepsDrain, ShutdownKeepsDrain
       DEF Next
  <2> QED BY <2>1, <2>2, <2>3
<1>3. RingInv /\ DrainInv => DrainedShutdown BY DrainedState
<1> QED BY <1>1, <1>2, <1>3, PTL DEF Spec

-----------------------------------------------------------------------------
(* The ring implements the order log: RingProperties!Ring maps its initial   *)
(* state to that of OrderLog and every step, under RingInv, to a step of     *)
(* OrderLog or to a stutter.                                                 *)

\* What OrderLog sees of the orders.
Verdicts == [o \in Orders |-> StatusAt(pc[o])]

\* A step that changes nothing of what OrderLog sees is a stutter of it.
LEMMA Unseen ==
  ASSUME UNCHANGED <<log, journalCursor, executed, failedFlag, Verdicts>>,
         IsClosed(claimCursor') <=> IsClosed(claimCursor)
  PROVE  [Ring!LogNext]_(Ring!logVars)
<1>1. IsClosed(claimCursor') = IsClosed(claimCursor) BY DEF IsClosed
<1> QED BY <1>1 DEF Ring!logVars, Verdicts, IsClosed

\* One order moves: its verdict is that of its new place.
LEMMA VerdictMoves ==
  ASSUME TypeOK, NEW o \in Orders, NEW step, Goto(o, step)
  PROVE  Verdicts' = [Verdicts EXCEPT ![o] = StatusAt(step)]
<1>1. pc' = [pc EXCEPT ![o] = step] /\ pc \in [Orders -> OrderSteps] BY DEF Goto, TypeOK
<1>2. \A p \in Orders : pc'[p] = IF p = o THEN step ELSE pc[p] BY <1>1
<1> QED BY <1>2 DEF Verdicts

\* One order moves to a place with the same verdict.
LEMMA VerdictStays ==
  ASSUME TypeOK, NEW o \in Orders, NEW step, Goto(o, step), StatusAt(step) = StatusAt(pc[o])
  PROVE  Verdicts' = Verdicts
<1>1. pc' = [pc EXCEPT ![o] = step] /\ pc \in [Orders -> OrderSteps] BY DEF Goto, TypeOK
<1>2. \A p \in Orders : pc'[p] = IF p = o THEN step ELSE pc[p] BY <1>1
<1>3. \A p \in Orders : StatusAt(pc'[p]) = StatusAt(pc[p])
  <2> SUFFICES ASSUME NEW p \in Orders PROVE StatusAt(pc'[p]) = StatusAt(pc[p]) OBVIOUS
  <2>1. CASE p = o
    <3>1. pc'[p] = step BY <1>2, <2>1
    <3> QED BY <2>1, <3>1
  <2>2. CASE p # o
    <3>1. pc'[p] = pc[p] BY <1>2, <2>2
    <3> QED BY <3>1
  <2> QED BY <2>1, <2>2
<1> QED BY <1>3, Zenon DEF Verdicts

\* An order below journalCursor is released, and only such a one.
LEMMA ReleasedIsJournaled ==
  ASSUME RingInv, NEW o \in Orders, Stamped(o)
  PROVE  Ring!Released(o) <=> Journaled(o)
<1>1. /\ log \in Seq(Orders) /\ journalCursor \in Nat /\ Len(log) \in Nat
      /\ journalCursor <= Len(log) /\ DOMAIN log = 1..Len(log)
      /\ seq[o] \in Nat
  BY DEF RingInv, RingCore, TypeOK, JournalInv, ClaimInv
<1>a. \A i \in DOMAIN log : seq[log[i]] = i - 1 BY DEF RingInv, RingCore, JournalInv
<1>2. \A i \in 1..Len(log) : log[i] \in Orders /\ seq[log[i]] = i - 1 BY <1>1, <1>a
<1>3. ASSUME NEW i \in 1..journalCursor, log[i] = o PROVE Journaled(o)
  BY <1>1, <1>2, <1>3 DEF Journaled
<1>4. ASSUME Journaled(o) PROVE Ring!Released(o)
  <2>1. seq[o] + 1 \in 1..journalCursor /\ seq[o] + 1 \in 1..Len(log)
    BY <1>1, <1>4 DEF Journaled
  <2>2. log[seq[o] + 1] \in Orders /\ seq[log[seq[o] + 1]] = seq[o] BY <2>1, <1>1, <1>2
  <2>3. log[seq[o] + 1] = o BY <2>2, <1>1 DEF RingInv, RingCore, ClaimInv
  <2> QED BY <2>1, <2>3 DEF Ring!Released
<1> QED BY <1>3, <1>4 DEF Ring!Released

-----------------------------------------------------------------------------
(* The steps of an order.                                                    *)

\* A call begins, is told "closed" or "failed", or publishes its slot.
LEMMA PublishImplements ==
  ASSUME RingInv, NEW o \in Orders, Publish(o)
  PROVE  [Ring!LogNext]_(Ring!logVars)
<1>0. TypeOK /\ pc \in [Orders -> OrderSteps] /\ claimCursor \in Nat /\ ClosedBit \in Nat \ {0}
  BY RingAssumption DEF RingInv, RingCore, TypeOK
<1>1. Verdicts[o] = StatusAt(pc[o]) BY DEF Verdicts
<1>2. ASSUME UNCHANGED <<log, journalCursor, executed, claimCursor, failedFlag>>,
             NEW step, Goto(o, step), StatusAt(step) = StatusAt(pc[o])
      PROVE  [Ring!LogNext]_(Ring!logVars)
  <2>1. Verdicts' = Verdicts BY <1>0, <1>2, VerdictStays
  <2> QED BY <1>2, <2>1, Unseen
<1>3. CASE PublishCheck(o)
  <2>1. UNCHANGED <<log, journalCursor, executed, claimCursor, failedFlag>> /\ pc[o] = "new"
    BY <1>3 DEF PublishCheck, ringVars, lifeVars, journalVars, engineVars
  <2>2. PICK step \in {"refuse", "claim"} : Goto(o, step) BY <1>3 DEF PublishCheck
  <2>3. Verdicts' = [Verdicts EXCEPT ![o] = "open"] /\ Verdicts[o] = "new"
    BY <1>0, <1>1, <2>1, <2>2, VerdictMoves DEF StatusAt, Publishing, Waiting
  <2>4. Ring!Submit(o)
    BY <2>1, <2>3 DEF Ring!Submit, Ring!SetStatus, Verdicts, IsClosed
  <2> QED BY <2>4 DEF Ring!LogNext
<1>4. CASE Claim(o)
  <2>1. UNCHANGED <<log, journalCursor, executed, failedFlag>> /\ pc[o] = "claim"
    BY <1>4 DEF Claim, lifeVars, journalVars, engineVars
  <2>2. IsClosed(claimCursor)' <=> IsClosed(claimCursor)
    BY <1>0, <1>4 DEF Claim, CounterRoom, IsClosed
  <2>3. CASE IsClosed(claimCursor)
    <3>1. Verdicts' = [Verdicts EXCEPT ![o] = "refused"] /\ Verdicts[o] = "open"
      BY <1>0, <1>1, <1>4, <2>1, <2>3, VerdictMoves DEF Claim, StatusAt, Publishing, Waiting
    <3>2. Ring!Refuse(o)
      BY <2>1, <2>2, <2>3, <3>1 DEF Ring!Refuse, Ring!SetStatus, Verdicts, IsClosed
    <3> QED BY <3>2 DEF Ring!LogNext
  <2>4. CASE ~IsClosed(claimCursor)
    <3>1. Goto(o, "gate") BY <1>4, <2>4 DEF Claim
    <3>2. StatusAt("gate") = "open" /\ StatusAt("claim") = "open"
      BY DEF StatusAt, Publishing, Waiting
    <3>3. Verdicts' = Verdicts BY <1>0, <2>1, <3>1, <3>2, VerdictStays
    <3> QED BY <2>1, <2>2, <3>3, Unseen
  <2> QED BY <2>3, <2>4
<1>5. CASE Gate(o) \/ FullCheck(o) \/ WriteEvent(o)
  <2>1. UNCHANGED <<log, journalCursor, executed, claimCursor, failedFlag>>
    BY <1>5 DEF Gate, FullCheck, WriteEvent, ringVars, lifeVars, journalVars, engineVars
  <2>2. pc[o] \in Publishing /\ \E step \in Publishing : Goto(o, step)
    BY <1>5 DEF Gate, FullCheck, WriteEvent, Publishing
  <2>3. \A step \in Publishing : StatusAt(step) = "open"
    BY DEF StatusAt, Publishing, Waiting
  <2> QED BY <2>1, <2>2, <2>3, <1>2
<1>6. CASE Refuse(o)
  <2>1. /\ UNCHANGED <<log, journalCursor, executed, claimCursor, failedFlag>>
        /\ pc[o] = "refuse" /\ Goto(o, "failed") /\ failedFlag
    BY <1>6 DEF Refuse, ringVars, lifeVars, journalVars, engineVars, RingInv, RingCore, WaitInv
  <2>2. Verdicts' = [Verdicts EXCEPT ![o] = "refused"] /\ Verdicts[o] = "open"
    BY <1>0, <1>1, <2>1, VerdictMoves DEF StatusAt, Publishing, Waiting
  <2>3. Ring!Refuse(o)
    BY <2>1, <2>2 DEF Ring!Refuse, Ring!SetStatus, Verdicts, IsClosed
  <2> QED BY <2>3 DEF Ring!LogNext
<1>7. CASE Stamp(o)
  <2>1. /\ UNCHANGED <<log, journalCursor, executed, claimCursor, failedFlag>>
        /\ pc[o] = "stamp" /\ Goto(o, "published")
    BY <1>7 DEF Stamp, lifeVars, journalVars, engineVars
  <2>2. Verdicts' = [Verdicts EXCEPT ![o] = "published"] /\ Verdicts[o] = "open"
    BY <1>0, <1>1, <2>1, VerdictMoves DEF StatusAt, Publishing, Waiting
  <2>3. Ring!Accept(o)
    BY <2>1, <2>2 DEF Ring!Accept, Ring!SetStatus, Verdicts, IsClosed
  <2> QED BY <2>3 DEF Ring!LogNext
<1> QED BY <1>3, <1>4, <1>5, <1>6, <1>7 DEF Publish

\* A caller of WaitDurable gets its answer, or takes or releases durMu.
LEMMA WaitImplements ==
  ASSUME RingInv, NEW o \in Orders, WaitDurable(o) \/ Lock(o) \/ Check(o) \/ Sleep(o)
  PROVE  [Ring!LogNext]_(Ring!logVars)
<1>0. /\ TypeOK /\ pc \in [Orders -> OrderSteps]
      /\ UNCHANGED <<log, journalCursor, executed, claimCursor, failedFlag>>
      /\ Stamped(o) /\ StatusAt(pc[o]) = "published"
  BY DEF RingInv, RingCore, TypeOK, WaitDurable, Lock, Check, Sleep, ringVars, lifeVars, journalVars,
         engineVars, Stamped, StatusAt, Waiting, Publishing
<1>1. Verdicts[o] = "published" BY <1>0 DEF Verdicts
<1>2. ASSUME NEW step \in Waiting, Goto(o, step) PROVE [Ring!LogNext]_(Ring!logVars)
  <2>1. StatusAt(step) = "published" BY <1>2 DEF StatusAt, Waiting, Publishing
  <2>2. Verdicts' = Verdicts BY <1>0, <1>1, <1>2, <2>1, VerdictMoves DEF Verdicts
  <2> QED BY <1>0, <2>2, Unseen
<1>3. ASSUME Goto(o, "acked"), Journaled(o) PROVE Ring!LogNext
  <2>1. Verdicts' = [Verdicts EXCEPT ![o] = "acked"]
    BY <1>0, <1>3, VerdictMoves DEF StatusAt, Waiting, Publishing
  <2>2. Ring!Released(o) BY <1>0, <1>3, ReleasedIsJournaled
  <2>3. Ring!Acknowledge(o)
    BY <1>0, <1>1, <2>1, <2>2 DEF Ring!Acknowledge, Ring!SetStatus, Verdicts, IsClosed
  <2> QED BY <2>3 DEF Ring!LogNext
<1>4. ASSUME pc[o] = "sleep", Goto(o, "unconfirmed"), failedFlag PROVE Ring!LogNext
  <2>1. Verdicts' = [Verdicts EXCEPT ![o] = "unconfirmed"]
    BY <1>0, <1>4, VerdictMoves DEF StatusAt, Waiting, Publishing
  <2>2. ~Journaled(o) BY <1>4 DEF RingInv, RingCore, WaitInv, JournalInv
  <2>3. ~Ring!Released(o) BY <1>0, <2>2, ReleasedIsJournaled
  <2>4. Ring!Unconfirm(o)
    BY <1>0, <1>1, <1>4, <2>1, <2>3 DEF Ring!Unconfirm, Ring!SetStatus, Verdicts, IsClosed
  <2> QED BY <2>4 DEF Ring!LogNext
<1>5. CASE WaitDurable(o) BY <1>5, <1>2, <1>3 DEF WaitDurable, Waiting
<1>6. CASE Lock(o) BY <1>6, <1>2 DEF Lock, Waiting
<1>7. CASE Check(o) BY <1>7, <1>2, <1>3 DEF Check, Waiting
<1>8. CASE Sleep(o) BY <1>8, <1>2, <1>4 DEF Sleep, Waiting
<1> QED BY <1>5, <1>6, <1>7, <1>8

-----------------------------------------------------------------------------
(* The steps of the journaler.                                               *)

\* The orders of a batch are published, not journaled yet, and no two are the same.
LEMMA BatchIsNew ==
  ASSUME RingInv, jpc = "append", NEW i \in 1..Len(batch)
  PROVE  /\ batch[i] \in Orders /\ StatusAt(pc[batch[i]]) = "published"
         /\ ~Ring!InJournal(batch[i])
         /\ \A j \in 1..Len(batch) : batch[j] = batch[i] => j = i
<1>1. /\ batch \in Seq(Orders) /\ log \in Seq(Orders) /\ journalCursor \in Nat
      /\ Len(log) = journalCursor /\ ~failedFlag
  BY DEF RingInv, RingCore, TypeOK, JournalInv
<1>2. \A k \in 1..Len(batch) : /\ batch[k] \in Orders /\ Stamped(batch[k])
                               /\ seq[batch[k]] = journalCursor + k - 1
  BY <1>1 DEF RingInv, RingCore, JournalInv
<1>3. ~Journaled(batch[i]) BY <1>1, <1>2 DEF Journaled
<1>4. pc[batch[i]] \notin {"acked", "unconfirmed"}
  BY <1>1, <1>2, <1>3 DEF RingInv, RingCore, WaitInv
<1>5. StatusAt(pc[batch[i]]) = "published"
  BY <1>2, <1>4 DEF Stamped, StatusAt, Waiting, Publishing
<1>6. \A k \in DOMAIN log : seq[log[k]] < journalCursor
  <2>1. \A k \in DOMAIN log : seq[log[k]] = k - 1 /\ k <= journalCursor /\ k \in Nat
    BY <1>1 DEF RingInv, RingCore, JournalInv
  <2> QED BY <2>1, <1>1
<1>7. ~Ring!InJournal(batch[i]) BY <1>1, <1>2, <1>6 DEF Ring!InJournal
<1> QED BY <1>1, <1>2, <1>5, <1>7

\* Any part of a batch, at least one order long, is a Write of the order log.
LEMMA PartIsWrite ==
  ASSUME RingInv, jpc = "append", NEW n \in 1..Len(batch),
         log' = log \o SubSeq(batch, 1, n),
         UNCHANGED <<journalCursor, executed, claimCursor, failedFlag, pc>>
  PROVE  Ring!Write
<1> DEFINE part == SubSeq(batch, 1, n)
           S    == {part[i] : i \in 1..n}
<1>1. batch \in Seq(Orders) /\ Len(batch) \in Nat BY DEF RingInv, RingCore, TypeOK
<1>3. \A i \in 1..n : i \in 1..Len(batch) BY <1>1
<1>2. /\ part \in Seq(Orders) /\ Len(part) = n /\ part \in [1..n -> Orders]
      /\ \A i \in 1..n : part[i] = batch[i]
  <2>1. 1 \in Int /\ n \in Int /\ \A i \in 1..n : batch[i] \in Orders BY <1>1, <1>3
  <2>2. part \in Seq(Orders) BY <1>1, <2>1, <1>3, SubSeqProperties
  <2>3. Len(part) = n /\ \A i \in 1..n : part[i] = batch[i] BY <1>1
  <2> HIDE DEF part
  <2> QED BY <2>2, <2>3
<1>4. part \in Bijection(1..n, S)
  <2>1. part \in [1..n -> S] BY <1>2
  <2>2. \A i, j \in 1..n : part[i] = part[j] => i = j BY <1>2, <1>3, BatchIsNew
  <2>3. \A x \in S : \E i \in 1..n : part[i] = x OBVIOUS
  <2> HIDE DEF part, S
  <2> QED BY <2>1, <2>2, <2>3 DEF Bijection, Injection, Surjection, IsInjective
<1>5. Cardinality(S) = n
  <2>1. IsFiniteSet(1..n) /\ Cardinality(1..n) = n BY FS_Interval
  <2>2. ExistsBijection(1..n, S) BY <1>4 DEF ExistsBijection
  <2> HIDE DEF S
  <2> QED BY <2>1, <2>2, FS_Bijection
<1>6. \A x \in S : x \in Orders /\ Verdicts[x] = "published" /\ ~Ring!InJournal(x)
  BY <1>2, <1>3, BatchIsNew DEF Verdicts
<1>7. part[1] \in S BY <1>1
<1>8. \A x \in S : \E i \in DOMAIN part : part[i] = x BY <1>2
<1> HIDE DEF part
<1>9. log' = log \o part BY DEF part
<1> HIDE DEF S
<1>10. part \in [1..Cardinality(S) -> S] BY <1>4, <1>5 DEF Bijection, Injection
<1> DEFINE new == {o \in Orders : Verdicts[o] = "published" /\ ~Ring!InJournal(o)}
<1>11. S \in (SUBSET new) \ {{}}
  <2>1. S # {} BY <1>7
  <2>2. \A x \in S : x \in new BY <1>6
  <2> HIDE DEF new
  <2> QED BY <2>1, <2>2
<1>12. ~failedFlag BY DEF RingInv, RingCore, JournalInv
<1>13. /\ UNCHANGED <<journalCursor, Len(executed), IsClosed(claimCursor), failedFlag>>
       /\ UNCHANGED [o \in Orders |-> StatusAt(pc[o])]
  BY DEF IsClosed
<1> HIDE DEF new
<1>14. \E U \in (SUBSET new) \ {{}} : \E b \in [1..Cardinality(U) -> U] :
         (\A o \in U : \E i \in DOMAIN b : b[i] = o) /\ log' = log \o b
  BY <1>8, <1>9, <1>10, <1>11
<1> QED BY ONLY <1>12, <1>13, <1>14 DEF Ring!Write, Verdicts, new, Cardinality, Ring!Cardinality

\* An append writes, the store of journalCursor commits, fail fails; the rest is inside.
LEMMA JournalerImplements ==
  ASSUME RingInv, Journaler
  PROVE  [Ring!LogNext]_(Ring!logVars)
<1>t. batch \in Seq(Orders) /\ log \in Seq(Orders) /\ Len(batch) \in Nat BY DEF RingInv, RingCore, TypeOK
<1>0. UNCHANGED <<executed, claimCursor>>
  BY DEF Journaler, StartJournaler, Collect, CollectDone, Idle, CloseCheck,
         AppendOk, AppendFails, SyncOk, SyncFails, Advance, Wake, Fail, ringVars, engineVars
<1>1. ASSUME Broadcast PROVE Verdicts' = Verdicts
  BY <1>1 DEF Broadcast, Verdicts, StatusAt, Waiting, Publishing
<1>2. CASE \/ StartJournaler \/ Collect \/ CollectDone \/ Idle \/ CloseCheck
           \/ SyncOk \/ SyncFails
  <2>1. UNCHANGED <<log, journalCursor, failedFlag, pc>>
    BY <1>2 DEF StartJournaler, Collect, CollectDone, Idle, CloseCheck, SyncOk, SyncFails,
                ringVars, lifeVars, orderVars
  <2> QED BY <1>0, <2>1, Unseen DEF Verdicts
<1>3. CASE AppendOk \/ AppendFails
  <2>1. jpc = "append" /\ UNCHANGED <<journalCursor, failedFlag, pc>>
    BY <1>3 DEF AppendOk, AppendFails, ringVars, lifeVars, orderVars
  <2>2. batch = SubSeq(batch, 1, Len(batch)) BY <1>t
  <2>3. \E n \in 0..Len(batch) : log' = log \o SubSeq(batch, 1, n)
    <3>1. CASE AppendFails BY <3>1 DEF AppendFails
    <3>2. CASE AppendOk
      <4>1. log' = log \o SubSeq(batch, 1, Len(batch)) BY <3>2, <2>2 DEF AppendOk
      <4> QED BY <4>1, <1>t
    <3> QED BY <1>3, <3>1, <3>2
  <2>4. PICK n \in 0..Len(batch) : log' = log \o SubSeq(batch, 1, n) BY <2>3
  <2>5. CASE n = 0
    <3>1. SubSeq(batch, 1, n) = <<>> BY <2>5, <1>t
    <3>2. log' = log \o <<>> BY <3>1, <2>4
    <3>3. log' = log BY <3>2, <1>t, ConcatEmptySeq
    <3> QED BY <1>0, <2>1, <3>3, Unseen DEF Verdicts
  <2>6. CASE n # 0
    <3>1. n \in 1..Len(batch) BY <2>6, <1>t
    <3>2. Ring!Write BY <1>0, <2>1, <2>4, <3>1, PartIsWrite
    <3> QED BY <3>2 DEF Ring!LogNext
  <2> QED BY <2>5, <2>6
<1>4. CASE Advance
  <2>1. /\ jpc = "advance" /\ journalCursor' = journalCursor + Len(batch)
        /\ UNCHANGED <<log, failedFlag, pc>>
    BY <1>4 DEF Advance, BatchEnd, lifeVars, orderVars
  <2>2. ~failedFlag /\ Len(log) = journalCursor + Len(batch) /\ journalCursor \in Nat
    BY <2>1 DEF RingInv, RingCore, TypeOK, JournalInv, BatchEnd
  <2>3. CASE Len(batch) = 0 BY <1>t, <1>0, <2>1, <2>2, <2>3, Unseen DEF Verdicts
  <2>4. CASE Len(batch) # 0
    <3>1. journalCursor' \in (journalCursor + 1)..Len(log) BY <1>t, <2>1, <2>2, <2>4
    <3>2. Ring!Commit BY <1>0, <2>1, <2>2, <3>1 DEF Ring!Commit, Verdicts, IsClosed
    <3> QED BY <3>2 DEF Ring!LogNext
  <2> QED BY <2>3, <2>4
<1>5. CASE Wake
  <2>1. UNCHANGED <<log, journalCursor, failedFlag>> /\ Broadcast
    BY <1>5 DEF Wake, ringVars, lifeVars
  <2> QED BY <1>0, <1>1, <2>1, Unseen
<1>6. CASE Fail
  <2>1. UNCHANGED <<log, journalCursor>> /\ failedFlag' = TRUE /\ Broadcast /\ jpc = "failing"
    BY <1>6 DEF Fail, ringVars
  <2>2. ~failedFlag BY <2>1 DEF RingInv, RingCore, JournalInv
  <2>3. Ring!Fail BY <1>0, <1>1, <2>1, <2>2 DEF Ring!Fail, Verdicts, IsClosed
  <2> QED BY <2>3 DEF Ring!LogNext
<1> QED BY <1>2, <1>3, <1>4, <1>5, <1>6 DEF Journaler

-----------------------------------------------------------------------------
(* The engine and Shutdown.                                                  *)

\* OnEvent executes; the engine's other steps are inside.
LEMMA EngineImplements ==
  ASSUME RingInv, Consumer
  PROVE  [Ring!LogNext]_(Ring!logVars)
<1>0. UNCHANGED <<claimCursor, journalCursor, failedFlag, pc, log>>
  BY DEF Consumer, StartConsumer, Barrier, OnEvent, FreeSlot, FailCheck, DrainCheck, ringVars,
         lifeVars, orderVars, journalVars
<1>1. CASE StartConsumer \/ Barrier \/ FreeSlot \/ FailCheck \/ DrainCheck
  <2>1. executed' = executed
    BY <1>1 DEF StartConsumer, Barrier, FreeSlot, FailCheck, DrainCheck
  <2> QED BY <1>0, <2>1, Unseen DEF Verdicts
<1>2. CASE OnEvent
  <2>1. /\ executed \in Seq(Orders) /\ Len(executed) < journalCursor
        /\ executed' = Append(executed, event[SlotOf(consumerCursor)])
    BY <1>2 DEF OnEvent, RingInv, RingCore, TypeOK, EngineInv
  <2>2. Len(executed') = Len(executed) + 1 BY <2>1, AppendProperties
  <2>3. Ring!Execute BY <1>0, <2>1, <2>2 DEF Ring!Execute, Verdicts, IsClosed
  <2> QED BY <2>3 DEF Ring!LogNext
<1> QED BY <1>1, <1>2 DEF Consumer

\* The add of closedBit closes the log; the rest of Shutdown is not seen.
LEMMA ShutdownImplements ==
  ASSUME RingInv, Shutdown
  PROVE  [Ring!LogNext]_(Ring!logVars)
<1>0. UNCHANGED <<log, journalCursor, executed, failedFlag, pc>>
  BY DEF Shutdown, Draining, CloseClaims, CloseFlag, CheckJournaler, WaitJournaler, CheckEngine,
         WaitEngine, Expire, ringVars, lifeVars, orderVars, journalVars, engineVars
<1>1. CASE CloseClaims
  <2>1. /\ ~IsClosed(claimCursor) /\ claimCursor' = claimCursor + ClosedBit
        /\ claimCursor \in Nat /\ ClosedBit \in Nat
    BY <1>1, RingAssumption DEF CloseClaims, RingInv, RingCore, ClaimInv, TypeOK
  <2>2. IsClosed(claimCursor') BY <2>1 DEF IsClosed
  <2>3. Ring!Close BY <1>0, <2>1, <2>2 DEF Ring!Close, Verdicts, IsClosed
  <2> QED BY <2>3 DEF Ring!LogNext
<1>2. CASE Draining \/ Expire
  <2>1. claimCursor' = claimCursor
    BY <1>2 DEF Draining, CloseFlag, CheckJournaler, WaitJournaler, CheckEngine, WaitEngine,
                Expire, ringVars
  <2> QED BY <1>0, <2>1, Unseen DEF Verdicts
<1> QED BY <1>1, <1>2 DEF Shutdown

\* The ring implements the order log (buffer.go, "Garantias"): for every number of
\* orders, capacity, batch size and sync mode, verdicts are final, the journal grows at
\* its end only, each order enters it once and only after Publish took it, an acked
\* order is released, and a refused one is not in the journal and never will be.
THEOREM RingImplementsOrderLog == Spec => ImplementsOrderLog
<1>1. Init => Ring!LogInit
  <2> SUFFICES ASSUME Init PROVE Ring!LogInit
    OBVIOUS
  <2>1. /\ log = <<>> /\ journalCursor = 0 /\ executed = <<>> /\ claimCursor = 0
        /\ failedFlag = FALSE /\ pc = [o \in Orders |-> "new"]
    BY DEF Init
  <2>2. Len(executed) = 0 BY <2>1
  <2>3. IsClosed(claimCursor) = FALSE BY <2>1, RingAssumption DEF IsClosed
  <2>4. [o \in Orders |-> StatusAt(pc[o])] = [o \in Orders |-> "new"]
    BY <2>1 DEF StatusAt, Publishing, Waiting
  <2> QED BY <2>1, <2>2, <2>3, <2>4 DEF Ring!LogInit
<1>2. RingInv /\ [Next]_vars => [Ring!LogNext]_(Ring!logVars)
  <2>1. CASE UNCHANGED vars
    <3>1. UNCHANGED <<log, journalCursor, executed, failedFlag, pc, claimCursor>>
      BY <2>1 DEF vars, ringVars, lifeVars, orderVars, journalVars, engineVars
    <3> QED BY <3>1, Unseen DEF Verdicts
  <2> QED BY <2>1, PublishImplements, WaitImplements, JournalerImplements, EngineImplements,
             ShutdownImplements DEF Next, OrderNext
<1> QED BY <1>1, <1>2, RingInvariantHolds, PTL DEF Spec, ImplementsOrderLog, Ring!LogSpec
-----------------------------------------------------------------------------
(* Without a journal.                                                        *)

\* One past the last sequence whose slot the engine has begun to read.
HandedOver == IF cpc \in {"event", "advance"} THEN consumerCursor + 1 ELSE consumerCursor

\* The journal's side of the ring stands still, and nobody meets it.
NoJournal ==
  /\ jpc = "new" /\ journalCursor = 0 /\ batch = <<>> /\ log = <<>> /\ ~failedFlag
  /\ \A o \in Orders : pc[o] \notin Waiting \cup {"refuse", "failed", "unconfirmed"}

\* The engine takes stamped orders in the order of their sequences; whoever has not
\* stamped yet is ahead of it, so that a stamp of this lap is the order's own.
PlainEngineInv ==
  /\ \A o \in Orders : Unstamped(o) => seq[o] >= HandedOver
  /\ cpc \in {"event", "advance"} => \E o \in Orders : Stamped(o) /\ seq[o] = consumerCursor
  /\ Len(executed) = IF cpc = "advance" THEN consumerCursor + 1 ELSE consumerCursor
  /\ \A i \in DOMAIN executed : Stamped(executed[i]) /\ seq[executed[i]] = i - 1

\* The engine returns only when it has passed everything claimed before Close.
PlainDrainInv ==
  /\ closedFlag <=> spc \notin {"running", "flag"}
  /\ cpc = "done" => Drained(consumerCursor)
  /\ "engine" \in waited => cpc = "done"

\* The inductive invariant of the ring without a journal.
PlainInv == RingCore /\ NoJournal /\ PlainEngineInv /\ PlainDrainInv

\* What the engine has taken has been claimed, and producers are ahead of it.
LEMMA PlainTaken ==
  ASSUME PlainInv
  PROVE  /\ Len(log) <= Claims /\ BatchEnd <= Claims /\ HandedOver <= Claims
         /\ HandedOver \in Nat /\ consumerCursor <= HandedOver
         /\ Ahead
<1>1. /\ consumerCursor \in Nat /\ Claims \in Nat /\ seq \in [Orders -> Nat \cup {-1}]
      /\ executed \in Seq(Orders)
      /\ \A o \in Orders : seq[o] \in Int /\ seq[o] < Claims
  BY DEF PlainInv, RingCore, TypeOK, ClaimInv, Claims
<1>2. Len(log) = 0 /\ BatchEnd = 0 BY EmptySeq DEF PlainInv, NoJournal, BatchEnd
<1>3. HandedOver \in Nat /\ consumerCursor <= HandedOver BY <1>1 DEF HandedOver
<1>4. HandedOver <= Claims
  <2>1. CASE cpc \in {"event", "advance"}
    BY <2>1, <1>1 DEF PlainInv, PlainEngineInv, HandedOver
  <2>2. CASE cpc \notin {"event", "advance"} /\ consumerCursor = 0
    BY <2>2, <1>1 DEF HandedOver
  <2>3. CASE cpc \notin {"event", "advance"} /\ consumerCursor > 0
    <3>1. Len(executed) = consumerCursor BY <2>3 DEF PlainInv, PlainEngineInv
    <3>2. consumerCursor \in DOMAIN executed BY <3>1, <2>3, <1>1
    <3>3. executed[consumerCursor] \in Orders BY <3>2, <1>1
    <3>4. seq[executed[consumerCursor]] = consumerCursor - 1
      BY <3>2 DEF PlainInv, PlainEngineInv
    <3> QED BY <2>3, <3>3, <3>4, <1>1 DEF HandedOver
  <2> QED BY <2>1, <2>2, <2>3, <1>1
<1>5. Ahead
  <2> SUFFICES ASSUME NEW q \in Orders, pc[q] \in {"write", "stamp"}
               PROVE  seq[q] >= consumerCursor
    BY DEF Ahead
  <2>1. Unstamped(q) BY DEF PlainInv, RingCore, ClaimInv, Unstamped, Stamped, Waiting
  <2>2. seq[q] >= HandedOver BY <2>1 DEF PlainInv, PlainEngineInv
  <2> QED BY <2>2, <1>1, <1>3
<1> QED BY <1>1, <1>2, <1>3, <1>4, <1>5

\* A step of an order leaves the rest of the invariant standing when stamped orders keep
\* their sequences and nobody gets one that the engine has passed.
LEMMA PlainOrderFrame ==
  ASSUME PlainInv, RingCore',
         UNCHANGED <<jpc, journalCursor, batch, log, failedFlag, consumerCursor, cpc, executed,
                     closedFlag, finalSeq, spc, waited>>,
         \A p \in Orders :
           /\ pc'[p] \notin Waiting \cup {"refuse", "failed", "unconfirmed"}
           /\ Stamped(p) => Stamped(p)' /\ seq'[p] = seq[p]
           /\ Unstamped(p)' => \/ Unstamped(p) /\ seq'[p] = seq[p]
                               \/ seq'[p] >= HandedOver
  PROVE  PlainInv'
<1>1. HandedOver' = HandedOver BY DEF HandedOver
<1>2. NoJournal' BY DEF PlainInv, NoJournal
<1>3. PlainEngineInv'
  <2>1. \A p \in Orders : Unstamped(p)' => seq'[p] >= HandedOver'
    BY <1>1 DEF PlainInv, PlainEngineInv
  <2>2. cpc' \in {"event", "advance"} =>
          \E p \in Orders : Stamped(p)' /\ seq'[p] = consumerCursor'
    BY DEF PlainInv, PlainEngineInv
  <2>3. ASSUME NEW i \in DOMAIN executed'
        PROVE  Stamped(executed[i])' /\ seq'[executed'[i]] = i - 1
    <3>1. i \in DOMAIN executed /\ executed[i] \in Orders
      BY DEF PlainInv, RingCore, TypeOK
    <3>2. Stamped(executed[i]) /\ seq[executed[i]] = i - 1
      BY <3>1 DEF PlainInv, PlainEngineInv
    <3> QED BY <3>1, <3>2 DEF Stamped
  <2>4. Len(executed') = IF cpc' = "advance" THEN consumerCursor' + 1 ELSE consumerCursor'
    BY DEF PlainInv, PlainEngineInv
  <2> QED BY <2>1, <2>2, <2>3, <2>4 DEF PlainEngineInv
<1>4. PlainDrainInv' BY DEF PlainInv, PlainDrainInv, Drained
<1> QED BY <1>2, <1>3, <1>4 DEF PlainInv

\* The steps of Publish keep the invariant.
LEMMA PlainPublishKeeps ==
  ASSUME PlainInv, NEW o \in Orders, Publish(o)
  PROVE  PlainInv'
<1>1. /\ RingCore /\ TypeOK /\ ClaimInv /\ NoJournal /\ Ahead /\ ~failedFlag
      /\ pc \in [Orders -> OrderSteps] /\ seq \in [Orders -> Nat \cup {-1}]
      /\ Len(log) <= Claims /\ BatchEnd <= Claims /\ HandedOver <= Claims
      /\ HandedOver \in Nat
  BY PlainTaken DEF PlainInv, RingCore, TypeOK, NoJournal
<1>2. ASSUME NEW step \in OrderSteps \ (Waiting \cup {"refuse", "failed", "unconfirmed"}),
             Goto(o, step)
      PROVE  /\ \A p \in Orders : pc'[p] = IF p = o THEN step ELSE pc[p]
             /\ \A p \in Orders : pc'[p] \notin Waiting \cup {"refuse", "failed", "unconfirmed"}
  BY <1>1, <1>2 DEF Goto, NoJournal
<1>3. ASSUME NEW step \in {"claim", "write", "full", "gate"}, Goto(o, step),
             UNCHANGED <<ringVars, lifeVars, seq, durMu, journalVars, engineVars, shutdownVars>>,
             pc[o] \in {"new", "gate", "full"},
             step = "write" => HasRoom(o),
             step = "claim" => pc[o] = "new",
             step # "claim" => pc[o] # "new"
      PROVE  PlainInv'
  <2>1. step \in OrderSteps /\ step \notin Waiting \cup {"refuse", "failed", "unconfirmed"}
    BY <1>3 DEF OrderSteps, Publishing, Waiting
  <2>2. /\ pc[o] = "new" => seq[o] = -1
        /\ pc[o] # "new" => seq[o] >= 0
    BY <1>1, <1>3 DEF ClaimInv
  <2>3. durMu' \in Orders \cup {None} BY <1>1, <1>3 DEF TypeOK
  <2>4. ~Stamped(o) /\ step \notin {"published", "acked", "unconfirmed"} \cup Waiting
    BY <1>3 DEF Stamped, Waiting
  <2>5. RingCore' /\ \A p \in Orders : Stamped(p)' <=> Stamped(p)
    BY <1>1, <1>3, <2>1, <2>2, <2>3, <2>4, CoreOrderMoves
  <2>6. \A p \in Orders : pc'[p] \notin Waiting \cup {"refuse", "failed", "unconfirmed"}
    BY <1>2, <1>3, <2>1
  <2>7. \A p \in Orders : seq'[p] = seq[p] BY <1>3
  <2>8. \A p \in Orders : Unstamped(p)' => Unstamped(p) BY <2>5, <2>7 DEF Unstamped
  <2> QED BY <1>3, <2>5, <2>6, <2>7, <2>8, PlainOrderFrame
<1>4. CASE PublishCheck(o)
  BY <1>1, <1>3, <1>4 DEF PublishCheck
<1>5. CASE Gate(o)
  <2>1. pc[o] = "gate" BY <1>5 DEF Gate
  <2>2. CASE HasRoom(o) BY <1>3, <1>5, <2>1, <2>2 DEF Gate
  <2>3. CASE ~HasRoom(o) BY <1>3, <1>5, <2>1, <2>3 DEF Gate
  <2> QED BY <2>2, <2>3
<1>6. CASE FullCheck(o)
  BY <1>1, <1>3, <1>6 DEF FullCheck
<1>7. CASE Refuse(o)
  BY <1>1, <1>7 DEF NoJournal, Refuse
<1>8. CASE Claim(o)
  <2>1. RingCore' /\ \A p \in Orders : (Stamped(p)' <=> Stamped(p)) /\
                                        (Stamped(p) => seq'[p] = seq[p])
    BY <1>1, <1>8, CoreClaim
  <2>2. pc[o] = "claim" /\ seq[o] = -1 BY <1>1, <1>8 DEF Claim, ClaimInv
  <2>3. CASE IsClosed(claimCursor)
    <3>1. Goto(o, "closed") /\ seq' = seq BY <1>8, <2>3 DEF Claim
    <3>2. "closed" \in OrderSteps \ (Waiting \cup {"refuse", "failed", "unconfirmed"})
      BY DEF OrderSteps, Answered, Waiting
    <3>3. \A p \in Orders : pc'[p] \notin Waiting \cup {"refuse", "failed", "unconfirmed"}
      BY <1>2, <3>1, <3>2
    <3>4. \A p \in Orders : Unstamped(p)' => Unstamped(p) /\ seq'[p] = seq[p]
      BY <2>1, <3>1 DEF Unstamped
    <3> QED BY <1>8, <2>1, <3>3, <3>4, PlainOrderFrame DEF Claim
  <2>4. CASE ~IsClosed(claimCursor)
    <3>1. Goto(o, "gate") /\ seq' = [seq EXCEPT ![o] = claimCursor] BY <1>8, <2>4 DEF Claim
    <3>2. "gate" \in OrderSteps \ (Waiting \cup {"refuse", "failed", "unconfirmed"})
      BY DEF OrderSteps, Publishing, Waiting
    <3>3. \A p \in Orders : pc'[p] \notin Waiting \cup {"refuse", "failed", "unconfirmed"}
      BY <1>2, <3>1, <3>2
    <3>4. claimCursor >= HandedOver
      BY <1>1, <2>4 DEF ClaimInv, Claims, TypeOK
    <3>5. \A p \in Orders : seq'[p] = IF p = o THEN claimCursor ELSE seq[p] BY <1>1, <3>1
    <3>6. \A p \in Orders :
            Unstamped(p)' => (Unstamped(p) /\ seq'[p] = seq[p]) \/ seq'[p] >= HandedOver
      BY <2>1, <3>4, <3>5 DEF Unstamped
    <3> QED BY <1>8, <2>1, <3>3, <3>6, PlainOrderFrame DEF Claim
  <2> QED BY <2>3, <2>4
<1>9. CASE WriteEvent(o)
  <2>1. RingCore' /\ \A p \in Orders : Stamped(p)' <=> Stamped(p)
    BY <1>1, <1>9, CoreWriteEvent
  <2>2. "stamp" \in OrderSteps \ (Waiting \cup {"refuse", "failed", "unconfirmed"})
    BY DEF OrderSteps, Publishing, Waiting
  <2>3. \A p \in Orders : pc'[p] \notin Waiting \cup {"refuse", "failed", "unconfirmed"}
    BY <1>2, <1>9, <2>2 DEF WriteEvent
  <2>4. \A p \in Orders : seq'[p] = seq[p] BY <1>9 DEF WriteEvent
  <2>5. \A p \in Orders : Unstamped(p)' => Unstamped(p) BY <2>1, <2>4 DEF Unstamped
  <2> QED BY <1>9, <2>1, <2>3, <2>4, <2>5, PlainOrderFrame DEF WriteEvent
<1>10. CASE Stamp(o)
  <2>1. RingCore' /\ \A p \in Orders : Stamped(p)' <=> Stamped(p) \/ p = o
    BY <1>1, <1>10, CoreStamp
  <2>2. "published" \in OrderSteps \ (Waiting \cup {"refuse", "failed", "unconfirmed"})
    BY DEF OrderSteps, Waiting
  <2>3. \A p \in Orders : pc'[p] \notin Waiting \cup {"refuse", "failed", "unconfirmed"}
    BY <1>2, <1>10, <2>2 DEF Stamp
  <2>4. \A p \in Orders : seq'[p] = seq[p] BY <1>10 DEF Stamp
  <2>5. \A p \in Orders : Unstamped(p)' => Unstamped(p) BY <2>1, <2>4 DEF Unstamped
  <2> QED BY <1>10, <2>1, <2>3, <2>4, <2>5, PlainOrderFrame DEF Stamp
<1> QED BY <1>4, <1>5, <1>6, <1>7, <1>8, <1>9, <1>10 DEF Publish

\* WaitDurable returns at once without a journal, and keeps the invariant.
LEMMA PlainWaitKeeps ==
  ASSUME PlainInv, NEW o \in Orders, WaitNothing(o)
  PROVE  PlainInv'
<1>1. RingCore /\ TypeOK /\ NoJournal /\ pc \in [Orders -> OrderSteps]
  BY DEF PlainInv, RingCore, TypeOK
<1>2. pc[o] = "published" /\ Goto(o, "acked") BY DEF WaitNothing
<1>3. "acked" \in OrderSteps /\ Stamped(o) /\ durMu' \in Orders \cup {None}
  BY <1>1, <1>2 DEF OrderSteps, Answered, Stamped, TypeOK, WaitNothing
<1>4. RingCore' /\ \A p \in Orders : Stamped(p)' <=> Stamped(p)
  BY <1>1, <1>2, <1>3, CoreOrderMoves DEF WaitNothing
<1>5. \A p \in Orders : pc'[p] \notin Waiting \cup {"refuse", "failed", "unconfirmed"}
  BY <1>1, <1>2 DEF NoJournal, Goto, Waiting
<1>6. \A p \in Orders : seq'[p] = seq[p] BY DEF WaitNothing
<1>7. \A p \in Orders : Unstamped(p)' => Unstamped(p) BY <1>4, <1>6 DEF Unstamped
<1> QED BY <1>4, <1>5, <1>6, <1>7, PlainOrderFrame DEF WaitNothing

\* A step of the engine that only chooses the next one keeps the invariant.
LEMMA PlainEngineMoves ==
  ASSUME PlainInv, cpc' \in EngineSteps, cpc \notin {"event", "advance", "done"},
         cpc' # "advance",
         cpc' = "event" => \E o \in Orders : Stamped(o) /\ seq[o] = consumerCursor,
         cpc' = "done" => Drained(consumerCursor),
         UNCHANGED <<ringVars, lifeVars, orderVars, journalVars, executed, shutdownVars>>
  PROVE  PlainInv'
<1>1. /\ TypeOK /\ ClaimInv /\ consumerCursor \in Nat /\ executed \in Seq(Orders)
      /\ \A p \in Orders : seq[p] \in Int
  BY DEF PlainInv, RingCore, TypeOK
<1>2. RingCore'
  <2>1. TypeOK' BY DEF PlainInv, RingCore, TypeOK
  <2>2. ClaimInv' /\ SlotInv' /\ WindowInv' BY OthersMove, WindowStays DEF PlainInv
  <2> QED BY <2>1, <2>2 DEF RingCore
<1>3. NoJournal' BY DEF PlainInv, NoJournal
<1>4. PlainEngineInv'
  <2>1. \A p \in Orders : (Stamped(p)' <=> Stamped(p)) /\ (Unstamped(p)' <=> Unstamped(p))
    BY DEF Stamped, Unstamped
  <2>2. \A p \in Orders : Unstamped(p) => seq[p] >= consumerCursor
    BY DEF PlainInv, PlainEngineInv, HandedOver
  <2>3. ASSUME NEW p \in Orders, Unstamped(p)' PROVE seq'[p] >= HandedOver'
    <3>1. Unstamped(p) /\ seq[p] >= consumerCursor /\ seq[p] >= 0
      BY <2>1, <2>2, <2>3 DEF Unstamped
    <3>2. CASE cpc' = "event"
      <4>1. PICK o \in Orders : Stamped(o) /\ seq[o] = consumerCursor BY <3>2
      <4>2. p # o BY <3>1, <4>1 DEF Unstamped
      <4>3. seq[p] # consumerCursor BY <3>1, <4>1, <4>2, <1>1 DEF ClaimInv
      <4> QED BY <3>1, <3>2, <4>3, <1>1 DEF HandedOver
    <3>3. CASE cpc' # "event" BY <3>1, <3>3 DEF HandedOver
    <3> QED BY <3>2, <3>3
  <2>4. cpc' \in {"event", "advance"} =>
          \E o \in Orders : Stamped(o)' /\ seq'[o] = consumerCursor'
    BY <2>1
  <2>5. Len(executed') = IF cpc' = "advance" THEN consumerCursor' + 1 ELSE consumerCursor'
    BY DEF PlainInv, PlainEngineInv
  <2>6. \A i \in DOMAIN executed' : Stamped(executed[i])' /\ seq'[executed'[i]] = i - 1
    BY DEF PlainInv, PlainEngineInv, Stamped
  <2> QED BY <2>3, <2>4, <2>5, <2>6 DEF PlainEngineInv
<1>5. PlainDrainInv' BY DEF PlainInv, PlainDrainInv, Drained
<1> QED BY <1>2, <1>3, <1>4, <1>5 DEF PlainInv

\* A stamp of this lap is that of the order whose sequence the engine has reached.
LEMMA PlainStampIsOwn ==
  ASSUME PlainInv, PlainConsumable
  PROVE  \E o \in Orders : Stamped(o) /\ seq[o] = consumerCursor
<1>1. /\ consumerCursor \in Nat /\ SlotOf(consumerCursor) \in Slots
      /\ \A p \in Orders : seq[p] \in Int
  BY SlotInSlots DEF PlainInv, RingCore, TypeOK
<1>2. stamp[SlotOf(consumerCursor)] = consumerCursor + 1 BY DEF PlainConsumable
<1>3. PICK o \in Orders : Stamped(o) /\ seq[o] + 1 = consumerCursor + 1
  BY <1>1, <1>2 DEF PlainInv, RingCore, SlotInv
<1> QED BY <1>1, <1>3

\* Handing an event to the matching engine keeps the invariant: the slot holds the order
\* whose turn it is.
LEMMA PlainOnEventKeeps ==
  ASSUME PlainInv, OnEvent
  PROVE  PlainInv'
<1>1. /\ cpc = "event" /\ cpc' = "advance" /\ consumerCursor \in Nat
      /\ executed' = Append(executed, event[SlotOf(consumerCursor)])
      /\ executed \in Seq(Orders) /\ Len(executed) = consumerCursor
  BY DEF PlainInv, RingCore, TypeOK, PlainEngineInv, OnEvent
<1>2. PICK o \in Orders : Stamped(o) /\ seq[o] = consumerCursor
  BY <1>1 DEF PlainInv, PlainEngineInv
<1>3. event[SlotOf(consumerCursor)] = o
  BY <1>1, <1>2 DEF PlainInv, RingCore, SlotInv
<1>4. /\ executed' \in Seq(Orders) /\ Len(executed') = consumerCursor + 1
      /\ \A i \in 1..consumerCursor : executed'[i] = executed[i]
      /\ executed'[consumerCursor + 1] = o
  BY <1>1, <1>3, AppendProperties
<1>5. RingCore'
  <2>1. TypeOK' BY <1>1, <1>4 DEF PlainInv, RingCore, TypeOK, OnEvent, EngineSteps
  <2>2. ClaimInv' /\ SlotInv' /\ WindowInv'
    BY OthersMove, WindowStays DEF PlainInv, OnEvent
  <2> QED BY <2>1, <2>2 DEF RingCore
<1>6. NoJournal' BY DEF PlainInv, NoJournal, OnEvent
<1>7. PlainEngineInv'
  <2>1. /\ HandedOver' = HandedOver
        /\ \A p \in Orders : /\ (Stamped(p)' <=> Stamped(p)) /\ seq'[p] = seq[p]
                             /\ Unstamped(p)' <=> Unstamped(p)
    BY <1>1 DEF HandedOver, Stamped, Unstamped, OnEvent
  <2>2. \A p \in Orders : Unstamped(p)' => seq'[p] >= HandedOver'
    BY <2>1 DEF PlainInv, PlainEngineInv
  <2>3. Stamped(o)' /\ seq'[o] = consumerCursor'
    BY <1>2, <2>1 DEF OnEvent
  <2>4. ASSUME NEW i \in DOMAIN executed'
        PROVE  Stamped(executed[i])' /\ seq'[executed'[i]] = i - 1
    <3>1. i \in 1..(consumerCursor + 1) BY <1>4
    <3>2. CASE i = consumerCursor + 1 BY <3>2, <1>1, <1>2, <1>4 DEF Stamped, OnEvent
    <3>3. CASE i \in 1..consumerCursor
      BY <3>3, <1>1, <1>4 DEF PlainInv, PlainEngineInv, Stamped, OnEvent
    <3> QED BY <3>1, <3>2, <3>3, <1>1
  <2>5. Len(executed') = consumerCursor' + 1 BY <1>4 DEF OnEvent
  <2> QED BY <1>1, <2>2, <2>3, <2>4, <2>5 DEF PlainEngineInv
<1>8. PlainDrainInv' BY <1>1 DEF PlainInv, PlainDrainInv, Drained, OnEvent
<1> QED BY <1>5, <1>6, <1>7, <1>8 DEF PlainInv

\* The store of consumerCursor keeps the invariant.
LEMMA PlainFreeSlotKeeps ==
  ASSUME PlainInv, FreeSlot
  PROVE  PlainInv'
<1>1. /\ cpc = "advance" /\ cpc' = "barrier" /\ consumerCursor' = consumerCursor + 1
      /\ consumerCursor \in Nat
  BY DEF PlainInv, RingCore, TypeOK, FreeSlot
<1>2. RingCore' BY CoreFreeSlot DEF PlainInv
<1>3. NoJournal' BY DEF PlainInv, NoJournal, FreeSlot
<1>4. PlainEngineInv'
  <2>1. /\ HandedOver' = HandedOver
        /\ \A p \in Orders : Unstamped(p)' <=> Unstamped(p)
    BY <1>1 DEF HandedOver, Stamped, Unstamped, FreeSlot
  <2>2. \A p \in Orders : Unstamped(p)' => seq'[p] >= HandedOver'
    BY <2>1 DEF PlainInv, PlainEngineInv, FreeSlot
  <2>3. Len(executed') = consumerCursor' BY <1>1 DEF PlainInv, PlainEngineInv, FreeSlot
  <2>4. \A i \in DOMAIN executed' : Stamped(executed[i])' /\ seq'[executed'[i]] = i - 1
    BY DEF PlainInv, PlainEngineInv, Stamped, FreeSlot
  <2> QED BY <1>1, <2>2, <2>3, <2>4 DEF PlainEngineInv
<1>5. PlainDrainInv' BY <1>1 DEF PlainInv, PlainDrainInv, Drained, FreeSlot
<1> QED BY <1>2, <1>3, <1>4, <1>5 DEF PlainInv

\* The engine keeps the invariant.
LEMMA PlainConsumerKeeps ==
  ASSUME PlainInv, PlainConsumer
  PROVE  PlainInv'
<1>0. ~failedFlag BY DEF PlainInv, NoJournal
<1>1. CASE StartConsumer BY <1>1, PlainEngineMoves DEF StartConsumer, EngineSteps
<1>2. CASE PlainBarrier
  BY <1>2, PlainStampIsOwn, PlainEngineMoves DEF PlainBarrier, EngineSteps
<1>3. CASE FailCheck BY <1>0, <1>3, PlainEngineMoves DEF FailCheck, EngineSteps
<1>4. CASE DrainCheck BY <1>4, PlainEngineMoves DEF DrainCheck, EngineSteps
<1> QED BY <1>1, <1>2, <1>3, <1>4, PlainOnEventKeeps, PlainFreeSlotKeeps DEF PlainConsumer

\* Close and Shutdown keep the invariant.
LEMMA PlainShutdownKeeps ==
  ASSUME PlainInv, Shutdown
  PROVE  PlainInv'
<1>1. UNCHANGED <<consumerCursor, journalCursor, event, stamp, failedFlag, orderVars, journalVars,
                  engineVars>>
  BY DEF Shutdown, CloseClaims, Draining, CloseFlag, CheckJournaler, WaitJournaler,
         CheckEngine, WaitEngine, Expire
<1>2. RingCore' BY CoreShutdown DEF PlainInv
<1>3. NoJournal' BY <1>1 DEF PlainInv, NoJournal
<1>4. PlainEngineInv'
  <2>1. /\ HandedOver' = HandedOver
        /\ \A p \in Orders : Unstamped(p)' <=> Unstamped(p)
    BY <1>1 DEF HandedOver, Stamped, Unstamped
  <2> QED BY <1>1, <2>1 DEF PlainInv, PlainEngineInv, Stamped
<1>5. PlainDrainInv'
  <2> USE DEF PlainInv, PlainDrainInv, Drained
  <2>1. CASE CloseClaims BY <1>1, <2>1 DEF CloseClaims
  <2>2. CASE CloseFlag BY <1>1, <2>2 DEF CloseFlag
  <2>3. CASE CheckJournaler BY <1>1, <2>3 DEF CheckJournaler
  <2>4. CASE WaitJournaler BY <1>1, <2>4 DEF WaitJournaler
  <2>5. CASE CheckEngine BY <1>1, <2>5 DEF CheckEngine
  <2>6. CASE WaitEngine BY <1>1, <2>6 DEF WaitEngine
  <2>7. CASE Expire BY <1>1, <2>7 DEF Expire
  <2> QED BY <2>1, <2>2, <2>3, <2>4, <2>5, <2>6, <2>7 DEF Shutdown, Draining
<1> QED BY <1>2, <1>3, <1>4, <1>5 DEF PlainInv

\* The invariant gives the property: what is executed is in order, and a Shutdown that
\* waited for the engine left nothing claimed unexecuted.
LEMMA PlainInOrder ==
  ASSUME PlainInv
  PROVE  /\ \A i \in DOMAIN executed : seq[executed[i]] = i - 1
         /\ spc = "returned" /\ waited = {"engine"} =>
              \A o \in Orders : seq[o] >= 0 => seq[o] < Len(executed)
<1>1. \A i \in DOMAIN executed : seq[executed[i]] = i - 1 BY DEF PlainInv, PlainEngineInv
<1>2. ASSUME spc = "returned", waited = {"engine"}, NEW o \in Orders, seq[o] >= 0
      PROVE  seq[o] < Len(executed)
  <2>1. /\ seq[o] \in Int /\ finalSeq \in Nat /\ consumerCursor \in Nat
        /\ seq[o] < finalSeq
    BY <1>2 DEF PlainInv, RingCore, TypeOK, ClaimInv, Claims
  <2>2. cpc = "done" BY <1>2 DEF PlainInv, PlainDrainInv
  <2>3. consumerCursor >= finalSeq BY <2>2 DEF PlainInv, PlainDrainInv, Drained
  <2>4. Len(executed) = consumerCursor BY <2>2 DEF PlainInv, PlainEngineInv
  <2> QED BY <2>1, <2>3, <2>4
<1> QED BY <1>1, <1>2

\* A ring without a journal executes each claimed order once, in the order of the
\* sequences, at any capacity and number of producers, and a Shutdown that waited for its
\* engine has executed them all (StartConsumer, waitFn without a journal; Shutdown).
THEOREM PlainRingIsInOrder == ModeSpec => []PlainRingInOrder
<1> DEFINE Inv == journaled \in BOOLEAN /\ (~journaled => PlainInv)
<1>1. ModeInit => Inv
  <2> SUFFICES ASSUME ModeInit PROVE PlainInv BY DEF ModeInit
  <2>1. Init BY DEF ModeInit
  <2>2. RingCore BY <2>1, RingInvInit DEF RingInv
  <2>3. /\ Len(executed) = 0 /\ executed = <<>> /\ DOMAIN executed = {}
        /\ \A o \in Orders : seq[o] = -1 /\ pc[o] = "new"
    BY <2>1, EmptySeq DEF Init
  <2>4. NoJournal /\ PlainEngineInv /\ PlainDrainInv
    BY <2>1, <2>3 DEF Init, NoJournal, PlainEngineInv, PlainDrainInv, Waiting, Unstamped
  <2> QED BY <2>2, <2>4 DEF PlainInv
<1>2. Inv /\ [ModeNext]_ringAndMode => Inv'
  <2> SUFFICES ASSUME Inv, [ModeNext]_ringAndMode, ~journaled PROVE PlainInv'
    BY DEF ModeNext, InMode, ringAndMode
  <2>1. CASE UNCHANGED ringAndMode
    BY <2>1 DEF ringAndMode, vars, PlainInv, RingCore, TypeOK, ClaimInv, WindowInv, SlotInv,
                NoJournal, PlainEngineInv, PlainDrainInv, Drained, Stamped, Unstamped, HandedOver,
                Claims, HasRoom, BatchEnd
  <2>2. CASE PlainNext
    BY <2>2, PlainPublishKeeps, PlainWaitKeeps, PlainConsumerKeeps, PlainShutdownKeeps
       DEF PlainNext
  <2> QED BY <2>1, <2>2 DEF ModeNext, InMode
<1>3. Inv => PlainRingInOrder BY PlainInOrder DEF PlainRingInOrder
<1> QED BY <1>1, <1>2, <1>3, PTL DEF ModeSpec
=============================================================================
