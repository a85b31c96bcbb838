--------------------------- MODULE ShutdownProofs ---------------------------
(***************************************************************************)
(* Proofs about Components.Shutdown, for any requests, any room of TradeCh *)
(* and any number of SQS workers: what its order of steps guarantees       *)
(* however the steps end.                                                  *)
(***************************************************************************)
EXTENDS Shutdown, FiniteSetTheorems, SequenceTheorems, TLAPS

\* The steps behind the one of each server, and behind the ring's.
AfterRing == {"wal", "batcher", "trades", "done"}
Behind(f) == IF f = "http" THEN {"tcp", "ring"} \cup AfterRing ELSE {"ring"} \cup AfterRing

\* The ring's step is behind us: both stages have returned, or it was reported.
RingOver == "ring" \in errs \/ {"journaler", "engine"} \subseteq stopped

\* What the steps so far have ensured.
OrderInv ==
  /\ step \in AfterRing \/ "wal" \in shut => RingOver
  /\ "trades" \in shut => "engine" \in stopped
  /\ "batcher" \in shut => step \in {"batcher", "trades", "done"}
  /\ step = "done" /\ errs = {} => "workers" \in stopped

\* What a goroutine that has returned left behind.
StoppedInv ==
  /\ "workers" \in stopped => "trades" \in shut /\ trades = 0 /\ sending = 0
  /\ {"journaler", "engine"} \cap stopped # {} /\ ~failed =>
       /\ committed = Len(written)
       /\ \A o \in Orders : status[o] = "published" => Released(o)
  /\ "engine" \in stopped /\ ~failed => executed = committed

\* A server whose step ended well is quiet, so nothing reaches the archive after it.
FrontInv ==
  /\ \A f \in {"http", "tcp"} :
       step \in Behind(f) /\ f \notin errs => f \in shut /\ InFlight(f) = {}
  /\ {"http", "tcp"} \cap errs = {} => \A o \in Orders : stage[o] = "ok" => o \in archived
  /\ step \in {"trades", "done"} /\ errs = {} => flushed = archived

\* The inductive invariant.
ShutdownInv == TypeOK /\ OrderInv /\ StoppedInv /\ FrontInv

-----------------------------------------------------------------------------
(* Requests.                                                                 *)

\* A step of a request moves that request alone, and touches the archive only when it
\* is confirmed.
LEMMA HandleEffect ==
  ASSUME TypeOK, NEW o \in Orders, Handle(o)
  PROVE  /\ stage[o] \in InAdmit \cup InConfirm
         /\ \A p \in Orders \ {o} : stage'[p] = stage[p]
         /\ stage' \in [Orders -> Stages] /\ status' \in [Orders -> Statuses]
         /\ stage'[o] = "ok" => stage[o] = "archive"
         /\ stage[o] = "archive" => archived' \in {archived, archived \cup {o}}
         /\ stage[o] = "archive" => (o \in archived' <=> "batcher" \notin shut)
         /\ stage[o] # "archive" => archived' = archived
         /\ UNCHANGED <<written, committed, executed, closed, failed, appVars, backVars>>
         /\ o \notin left \cup stalled /\ UNCHANGED <<left, stalled>>
         /\ {"journaler", "engine"} \cap stopped # {} /\ ~failed =>
              \A p \in Orders : status'[p] = "published" => status[p] = "published"
<1> USE DEF Handle, TypeOK, InAdmit, InConfirm, Results, Stages, Statuses, SetStage, SetStatus
<1>1. CASE Register(o) BY <1>1 DEF Register, Submit, logVars
<1>2. CASE PublishOk(o) BY <1>2 DEF PublishOk, Accept
<1>3. CASE PublishFails(o) BY <1>3 DEF PublishFails, Refuse
<1>4. CASE Forget(o) BY <1>4 DEF Forget, logVars
<1>5. CASE Durable(o) BY <1>5 DEF Durable, Acknowledge
<1>6. CASE NotDurable(o) BY <1>6 DEF NotDurable, Unconfirm
<1>7. CASE Archive(o) BY <1>7 DEF Archive, logVars
<1> QED BY <1>1, <1>2, <1>3, <1>4, <1>5, <1>6, <1>7 DEF Admit, Confirm

\* A request keeps the invariant: one that is confirmed late finds its server's step
\* in the list of failed ones.
LEMMA HandleKeeps ==
  ASSUME ShutdownInv, NEW o \in Orders, Handle(o)
  PROVE  ShutdownInv'
<1> USE DEF ShutdownInv
<1> USE HandleEffect
<1>0. stage[o] # "idle" /\ o \notin left BY DEF InAdmit, InConfirm
<1>1. TypeOK'
  <2>1. \A p \in Orders : p \in left \cup stalled => stage'[p] = stage[p] OBVIOUS
  <2>2. archived' \subseteq Orders /\ flushed' \subseteq archived'
    BY DEF TypeOK, backVars
  <2> QED BY <2>1, <2>2 DEF TypeOK, appVars, backVars
<1>2. OrderInv' BY DEF OrderInv, RingOver, AfterRing, appVars, backVars
<1>3. StoppedInv' BY DEF StoppedInv, Released, appVars, backVars
<1>4. FrontInv'
  <2>1. ASSUME NEW f \in {"http", "tcp"}, (step \in Behind(f))', f \notin errs'
        PROVE  f \in shut' /\ InFlight(f)' = {}
    <3>1. step \in Behind(f) /\ f \notin errs BY <2>1 DEF Behind, AfterRing, appVars
    <3>2. f \in shut /\ InFlight(f) = {} BY <3>1 DEF FrontInv
    <3>3. Front[o] # f BY <1>0, <3>2 DEF InFlight
    <3> QED BY <3>2, <3>3 DEF InFlight, appVars
  <2>2. Front[o] \in {"http", "tcp"} BY ShutdownAssumption
  <2>3. ASSUME {"http", "tcp"} \cap errs = {} PROVE stage[o] = "archive" => "batcher" \notin shut
    <3>1. step \notin Behind(Front[o]) \/ stage[o] # "archive"
      BY <2>2, <2>3 DEF FrontInv, InFlight, InConfirm
    <3> QED BY <3>1, <2>2 DEF OrderInv, Behind, AfterRing
  <2>4. {"http", "tcp"} \cap errs' = {} =>
          \A p \in Orders : stage'[p] = "ok" => p \in archived'
    BY <2>3 DEF FrontInv, appVars
  <2>5. step' \in {"trades", "done"} /\ errs' = {} => flushed' = archived'
    <3>1. step \in {"trades", "done"} /\ errs = {} => stage[o] # "archive"
      BY <2>2 DEF FrontInv, InFlight, InConfirm, Behind, AfterRing
    <3> QED BY <3>1 DEF FrontInv, appVars, backVars
  <2> QED BY <2>1, <2>4, <2>5 DEF FrontInv
<1> QED BY <1>1, <1>2, <1>3, <1>4

\* No request begins at a server that was told to stop.
LEMMA RequestKeeps ==
  ASSUME ShutdownInv, NEW o \in Orders, Request(o)
  PROVE  ShutdownInv'
<1> USE DEF ShutdownInv, Request, SetStage, logVars, appVars, backVars
<1>0. o \notin left \cup stalled /\ \A p \in Orders \ {o} : stage'[p] = stage[p]
  BY DEF TypeOK, Results
<1>1. TypeOK' BY <1>0 DEF TypeOK, Stages, InAdmit
<1>2. OrderInv' BY DEF OrderInv, RingOver, AfterRing
<1>3. StoppedInv' BY DEF StoppedInv, Released
<1>4. FrontInv'
  <2>1. stage \in [Orders -> Stages] BY DEF TypeOK
  <2>2. ASSUME NEW f \in {"http", "tcp"}, step \in Behind(f), f \notin errs
        PROVE  f \in shut /\ InFlight(f)' = {}
    <3>1. f \in shut /\ InFlight(f) = {} BY <2>2 DEF FrontInv
    <3>2. Front[o] # f BY <3>1
    <3> QED BY <3>1, <3>2, <2>1 DEF InFlight
  <2>3. \A p \in Orders : stage'[p] = "ok" => stage[p] = "ok" BY <2>1
  <2> QED BY <2>2, <2>3 DEF FrontInv, Behind, AfterRing
<1> QED BY <1>1, <1>2, <1>3, <1>4

\* FrontInv lasts when no request and no step of Shutdown moves.
LEMMA FrontFrame ==
  ASSUME FrontInv, UNCHANGED <<step, errs, shut, stage, archived>>, left \subseteq left',
         step \in {"trades", "done"} /\ errs = {} => flushed' = flushed
  PROVE  FrontInv'
BY DEF FrontInv, Behind, AfterRing, InFlight

\* A handler that answers, or waits for its client, has a result.
LEMMA AnswerKeeps ==
  ASSUME ShutdownInv, NEW o \in Orders, Answer(o) \/ Stall(o) \/ Unstall(o)
  PROVE  ShutdownInv'
<1> USE DEF ShutdownInv, Answer, Stall, Unstall, logVars, ingressVars, appVars, backVars
<1>1. TypeOK' BY DEF TypeOK
<1>2. OrderInv' BY DEF OrderInv, RingOver, AfterRing
<1>3. StoppedInv' BY DEF StoppedInv, Released
<1>4. FrontInv' BY FrontFrame
<1> QED BY <1>1, <1>2, <1>3, <1>4

-----------------------------------------------------------------------------
(* Ring stages, batcher, SQS workers.                                        *)

\* A batch that joins the journal is a sequence of orders, and so is the journal.
LEMMA WriteType ==
  ASSUME written \in Seq(Orders), Write
  PROVE  written' \in Seq(Orders) /\ Len(written') \in Nat /\ Len(written) <= Len(written')
<1>1. PICK S \in (SUBSET {o \in Orders : status[o] = "published" /\ ~InJournal(o)}) \ {{}} :
        \E batch \in [1..Cardinality(S) -> S] : written' = written \o batch
  BY DEF Write
<1>2. PICK batch \in [1..Cardinality(S) -> S] : written' = written \o batch BY <1>1
<1>3. S \in SUBSET Orders /\ Cardinality(S) \in Nat
  BY <1>1, ShutdownAssumption, FS_Subset, FS_CardinalityType
<1>4. batch \in [1..Cardinality(S) -> Orders] BY <1>2, <1>3
<1> DEFINE n == Cardinality(S)
<1>5. n \in Nat /\ batch \in [1..n -> Orders] BY <1>3, <1>4
<1> HIDE DEF n
<1>6. batch \in Seq(Orders) BY <1>5
<1> QED BY <1>2, <1>6

\* The journaler moves only until it has returned.
LEMMA JournalKeeps ==
  ASSUME ShutdownInv, Journal
  PROVE  ShutdownInv'
<1> USE DEF ShutdownInv, Journal, frontVars, ingressVars, appVars, backVars
<1>1. TypeOK'
  <2>1. CASE Write
    <3>1. /\ written' \in Seq(Orders) /\ Len(written') \in Nat /\ Len(written) <= Len(written')
          /\ UNCHANGED <<committed, executed, closed, failed, status>>
      BY <2>1, WriteType DEF TypeOK, Write
    <3> QED BY <3>1 DEF TypeOK
  <2>2. CASE Commit BY <2>2 DEF TypeOK, Commit
  <2> QED BY <2>1, <2>2
<1>2. OrderInv' BY DEF OrderInv, RingOver, AfterRing
<1>3. StoppedInv'
  <2>1. ASSUME "engine" \in stopped, ~failed PROVE ~Write /\ ~Commit
    <3>1. /\ committed = Len(written) /\ Len(written) \in Nat /\ committed \in Nat
          /\ \A o \in Orders : status[o] = "published" => Released(o)
      BY <2>1 DEF StoppedInv, TypeOK
    <3>2. \A o \in Orders : status[o] = "published" => InJournal(o)
      BY <3>1 DEF Released, InJournal, TypeOK
    <3>3. ~Write BY <3>2 DEF Write
    <3>4. ~Commit BY <3>1 DEF Commit
    <3> QED BY <3>3, <3>4
  <2>2. UNCHANGED <<stopped, failed, shut, trades, sending>> BY DEF Write, Commit
  <2>3. "journaler" \notin stopped /\ (Write \/ Commit) OBVIOUS
  <2>4. {"journaler", "engine"} \cap stopped = {} \/ failed BY <2>1, <2>3
  <2> QED BY <2>2, <2>4 DEF StoppedInv
<1>4. FrontInv' BY FrontFrame
<1> QED BY <1>1, <1>2, <1>3, <1>4

\* A journaler that fails returns; nothing is claimed of a failed journal.
LEMMA JournalFailsKeeps ==
  ASSUME ShutdownInv, JournalFails
  PROVE  ShutdownInv'
<1> USE DEF ShutdownInv, JournalFails, Fail, frontVars, ingressVars, appVars
<1>1. TypeOK' BY DEF TypeOK, Goroutines
<1>2. OrderInv' BY DEF OrderInv, RingOver, AfterRing
<1>3. StoppedInv' BY DEF StoppedInv, Released, TypeOK
<1>4. FrontInv' BY FrontFrame
<1> QED BY <1>1, <1>2, <1>3, <1>4

\* The engine sends trades only until it has returned, so never after the workers.
LEMMA EngineKeeps ==
  ASSUME ShutdownInv, Engine
  PROVE  ShutdownInv'
<1> USE DEF ShutdownInv, Engine, Execute, frontVars, ingressVars, appVars
<1>1. TypeOK' BY DEF TypeOK
<1>2. OrderInv' BY DEF OrderInv, RingOver, AfterRing
<1>3. StoppedInv' BY DEF StoppedInv, Released, OrderInv
<1>4. FrontInv' BY FrontFrame
<1> QED BY <1>1, <1>2, <1>3, <1>4

\* A flush changes nothing once all is flushed.
LEMMA FlushKeeps ==
  ASSUME ShutdownInv, Flush
  PROVE  ShutdownInv'
<1> USE DEF ShutdownInv, Flush, logVars, frontVars, ingressVars, appVars
<1>1. TypeOK' BY DEF TypeOK
<1>2. OrderInv' BY DEF OrderInv, RingOver, AfterRing
<1>3. StoppedInv' BY DEF StoppedInv, Released
<1>4. step \in {"trades", "done"} /\ errs = {} => flushed' = flushed BY DEF FrontInv
<1>5. FrontInv' BY <1>4, FrontFrame
<1> QED BY <1>1, <1>2, <1>3, <1>5

\* Workers that have returned have nothing to take and nothing in hand.
LEMMA WorkersKeep ==
  ASSUME ShutdownInv, TakeTrade \/ SendOver
  PROVE  ShutdownInv'
<1> USE DEF ShutdownInv, TakeTrade, SendOver, logVars, frontVars, ingressVars, appVars
<1>1. TypeOK' BY ShutdownAssumption DEF TypeOK
<1>2. OrderInv' BY DEF OrderInv, RingOver, AfterRing
<1>3. StoppedInv' BY DEF StoppedInv, Released, TypeOK
<1>4. FrontInv' BY FrontFrame
<1> QED BY <1>1, <1>2, <1>3, <1>4

\* A goroutine returns when nothing is left for it.
LEMMA StopKeeps ==
  ASSUME ShutdownInv, NEW g \in Goroutines, Stop(g)
  PROVE  ShutdownInv'
<1> USE DEF ShutdownInv, Stop, MayStop, logVars, frontVars, ingressVars, appVars
<1>1. TypeOK' BY DEF TypeOK
<1>2. OrderInv' BY DEF OrderInv, RingOver, AfterRing
<1>3. StoppedInv'
  <2>1. CASE g = "journaler" BY <2>1 DEF StoppedInv, Released, Drained
  <2>2. CASE g = "engine" BY <2>2 DEF StoppedInv, Released, Drained
  <2>3. CASE g = "workers" BY <2>3 DEF StoppedInv, Released
  <2> QED BY <2>1, <2>2, <2>3 DEF Goroutines
<1>4. FrontInv' BY FrontFrame
<1> QED BY <1>1, <1>2, <1>3, <1>4

-----------------------------------------------------------------------------
(* Components.Shutdown.                                                      *)

\* The signal starts the first step; nothing is behind it.
LEMMA SignalKeeps ==
  ASSUME ShutdownInv, Signal
  PROVE  ShutdownInv'
<1> USE DEF ShutdownInv, Signal, logVars, frontVars, ingressVars, backVars
<1>1. TypeOK' BY DEF TypeOK, Steps
<1>2. OrderInv' BY DEF OrderInv, RingOver, AfterRing
<1>3. StoppedInv' BY DEF StoppedInv, Released
<1>4. FrontInv' BY DEF FrontInv, Behind, AfterRing
<1> QED BY <1>1, <1>2, <1>3, <1>4

\* A step begins: the file is closed and the trades end only behind the ring.
LEMMA BeginKeeps ==
  ASSUME ShutdownInv, NEW s \in Steps, Begin(s)
  PROVE  ShutdownInv'
<1> USE DEF ShutdownInv, Begin, frontVars, ingressVars, backVars
<1>1. UNCHANGED <<written, committed, executed, failed, status>> /\ closed' \in BOOLEAN
  BY DEF Close, logVars, TypeOK
<1>2. TypeOK' BY <1>1 DEF TypeOK
<1>3. OrderInv' BY DEF OrderInv, RingOver, AfterRing, MayBegin, Steps
<1>4. StoppedInv' BY <1>1 DEF StoppedInv, Released
<1>5. FrontInv' BY DEF FrontInv, Behind, AfterRing, InFlight
<1> QED BY <1>2, <1>3, <1>4, <1>5

\* A step that ended well leaves what it waited for.
LEMMA FinishKeeps ==
  ASSUME ShutdownInv, NEW s \in Steps, Finish(s)
  PROVE  ShutdownInv'
<1> USE DEF ShutdownInv, Finish, Steps, After, logVars, frontVars, ingressVars, backVars
<1>1. TypeOK' BY DEF TypeOK
<1>2. OrderInv'
  <2>1. CASE s = "ring" BY <2>1 DEF OrderInv, RingOver, AfterRing, Over
  <2>2. CASE s = "trades" BY <2>2 DEF OrderInv, RingOver, AfterRing, Over
  <2>3. CASE s \notin {"ring", "trades"} BY <2>3 DEF OrderInv, RingOver, AfterRing
  <2> QED BY <2>1, <2>2, <2>3
<1>3. StoppedInv' BY DEF StoppedInv, Released
<1>4. FrontInv'
  <2>1. ASSUME NEW f \in {"http", "tcp"}, step' \in Behind(f), f \notin errs
        PROVE  f \in shut /\ InFlight(f) = {}
    <3>1. CASE step \in Behind(f) BY <3>1, <2>1 DEF FrontInv
    <3>2. CASE step \notin Behind(f)
      <4>1. s = f BY <3>2, <2>1 DEF Behind, AfterRing
      <4> QED BY <4>1 DEF Over
    <3> QED BY <3>1, <3>2
  <2>2. step' \in {"trades", "done"} /\ errs = {} => flushed = archived
    <3>1. CASE s = "batcher" BY <3>1 DEF Over
    <3>2. CASE s # "batcher" BY <3>2 DEF FrontInv
    <3> QED BY <3>1, <3>2
  <2> QED BY <2>1, <2>2 DEF FrontInv, Behind, AfterRing, InFlight
<1> QED BY <1>1, <1>2, <1>3, <1>4

\* A step that failed is reported.
LEMMA StepFailsKeeps ==
  ASSUME ShutdownInv, NEW s \in Steps, StepFails(s)
  PROVE  ShutdownInv'
<1> USE DEF ShutdownInv, StepFails, Steps, After, logVars, frontVars, ingressVars, backVars
<1>1. TypeOK' BY DEF TypeOK
<1>2. OrderInv' BY DEF OrderInv, RingOver, AfterRing
<1>3. StoppedInv' BY DEF StoppedInv, Released
<1>4. FrontInv'
  <2>1. ASSUME NEW f \in {"http", "tcp"}, step' \in Behind(f), f \notin errs'
        PROVE  f \in shut /\ InFlight(f) = {}
    <3>1. step \in Behind(f) /\ f \notin errs BY <2>1 DEF Behind, AfterRing
    <3> QED BY <3>1 DEF FrontInv
  <2>2. errs' # {} OBVIOUS
  <2> QED BY <2>1, <2>2 DEF FrontInv, Behind, AfterRing, InFlight
<1> QED BY <1>1, <1>2, <1>3, <1>4

\* The trades step is skipped only behind a ring step that was reported.
LEMMA SkipTradesKeeps ==
  ASSUME ShutdownInv, SkipTrades
  PROVE  ShutdownInv'
<1> USE DEF ShutdownInv, SkipTrades, MayBegin, After, logVars, frontVars, ingressVars, backVars
<1>1. TypeOK' BY DEF TypeOK, Steps
<1>2. OrderInv' BY DEF OrderInv, RingOver, AfterRing
<1>3. StoppedInv' BY DEF StoppedInv, Released
<1>4. FrontInv' BY DEF FrontInv, Behind, AfterRing, InFlight
<1> QED BY <1>1, <1>2, <1>3, <1>4

\* The context expires.
LEMMA ExpireKeeps ==
  ASSUME ShutdownInv, Expire
  PROVE  ShutdownInv'
<1> USE DEF ShutdownInv, Expire, logVars, frontVars, ingressVars, backVars
<1>1. TypeOK' BY DEF TypeOK
<1>2. OrderInv' BY DEF OrderInv, RingOver, AfterRing
<1>3. StoppedInv' BY DEF StoppedInv, Released
<1>4. FrontInv' BY FrontFrame
<1> QED BY <1>1, <1>2, <1>3, <1>4

-----------------------------------------------------------------------------
(* The theorems.                                                             *)

\* ShutdownInv holds in every behaviour.
THEOREM ShutdownInvariantHolds == Spec => []ShutdownInv
<1>1. Init => ShutdownInv
  <2> SUFFICES ASSUME Init PROVE ShutdownInv
    OBVIOUS
  <2> USE DEF Init, LogInit, IngressInit
  <2>1. TypeOK
    <3>1. written \in Seq(Orders) /\ Len(written) = 0 /\ committed \in 0..Len(written)
      OBVIOUS
    <3>2. status \in [Orders -> Statuses] /\ stage \in [Orders -> Stages]
      BY DEF Statuses, Stages
    <3>3. trades \in 0..TradeRoom /\ sending \in 0..Workers BY ShutdownAssumption
    <3> QED BY <3>1, <3>2, <3>3 DEF TypeOK
  <2>2. OrderInv BY DEF OrderInv, AfterRing
  <2>3. StoppedInv BY DEF StoppedInv, Released
  <2>4. FrontInv BY DEF FrontInv, Behind, AfterRing
  <2> QED BY <2>1, <2>2, <2>3, <2>4 DEF ShutdownInv
<1>2. ShutdownInv /\ [Next]_vars => ShutdownInv'
  <2> SUFFICES ASSUME ShutdownInv, [Next]_vars PROVE ShutdownInv'
    OBVIOUS
  <2>1. CASE Next
    BY <2>1, HandleKeeps, RequestKeeps, AnswerKeeps, JournalKeeps, JournalFailsKeeps, EngineKeeps,
       FlushKeeps, WorkersKeep, StopKeeps, SignalKeeps, BeginKeeps, FinishKeeps,
       StepFailsKeeps, SkipTradesKeeps, ExpireKeeps
    DEF Next, Main
  <2>2. CASE UNCHANGED vars
    BY <2>2 DEF vars, logVars, frontVars, ingressVars, appVars, backVars, ShutdownInv, TypeOK,
       OrderInv, RingOver, AfterRing, StoppedInv, Released, FrontInv, Behind, InFlight
  <2> QED BY <2>1, <2>2
<1> QED BY <1>1, <1>2, PTL DEF Spec

\* TradeCh is closed only after the engine has returned (shutdown.go 88-95).
THEOREM TradesOutliveEngine == Spec => []NoTradeOnClosedChannel
<1>1. ShutdownInv => NoTradeOnClosedChannel
  BY DEF ShutdownInv, OrderInv, NoTradeOnClosedChannel
<1> QED BY <1>1, ShutdownInvariantHolds, PTL

\* The file is closed under a running journaler only if the ring's step was reported
\* (shutdown.go 78-83).
THEOREM WALOutlives == Spec => []WALOutlivesJournaler
<1>1. ShutdownInv => WALOutlivesJournaler
  BY DEF ShutdownInv, OrderInv, RingOver, WALOutlivesJournaler
<1> QED BY <1>1, ShutdownInvariantHolds, PTL

\* A shutdown without errors leaves nothing behind (shutdown.go 37-50).
THEOREM ShutdownIsClean == Spec => []CleanShutdown
<1>1. ShutdownInv => CleanShutdown
  <2> SUFFICES ASSUME ShutdownInv PROVE CleanShutdown
    OBVIOUS
  <2> USE DEF ShutdownInv
  <2>1. ASSUME step = "done", errs = {}
        PROVE  /\ InFlight("http") \cup InFlight("tcp") = {}
               /\ \A o \in Orders : stage[o] = "ok" => o \in flushed
               /\ flushed = archived /\ trades = 0 /\ sending = 0
    BY <2>1 DEF FrontInv, Behind, AfterRing, OrderInv, StoppedInv
  <2>2. ASSUME step = "done", errs = {}, ~failed PROVE executed = Len(written)
    BY <2>2 DEF OrderInv, RingOver, AfterRing, StoppedInv
  <2> QED BY <2>1, <2>2 DEF CleanShutdown
<1> QED BY <1>1, ShutdownInvariantHolds, PTL
=============================================================================
