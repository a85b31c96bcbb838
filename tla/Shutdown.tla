------------------------------ MODULE Shutdown ------------------------------
(***************************************************************************)
(* The order in which app.Components.Shutdown stops the server, under      *)
(* traffic: HTTP, TCP, ring, WAL, batcher, trades of the SQS.  Requests    *)
(* run through Ingress and then answer their client, who may take long to  *)
(* read: neither server puts a deadline on its writes.  Journaler and      *)
(* engine take the steps of OrderLog while they run; the batcher's worker  *)
(* and the SQS workers empty their queues.  A step ends when what it waits *)
(* for is over or fails when the context expires, and the next one begins  *)
(* either way.                                                             *)
(*                                                                         *)
(* Both stages of the ring have started (main starts them before the       *)
(* servers) and a journal write, an fsync and a sink call return.          *)
(***************************************************************************)
EXTENDS Ingress

CONSTANTS Front,      \* the server that each request arrives at: "http" or "tcp"
          TradeRoom,  \* the capacity of TradeCh
          Workers     \* how many goroutines Publish starts

ASSUME ShutdownAssumption ==
  /\ Front \in [Orders -> {"http", "tcp"}]
  /\ IsFiniteSet(Orders)
  /\ TradeRoom \in Nat /\ Workers \in Nat \ {0}

VARIABLES
  step, errs, expired,  \* Components.Shutdown: its step, the failed ones, its ctx
  shut,                 \* the components told to stop
  stopped,              \* the goroutines that have returned
  left,                 \* the requests whose handler has answered and returned
  stalled,              \* the requests whose handler waits for its client to read
  flushed,              \* the archived orders whose flush is over, well or not
  trades,               \* trades in TradeCh
  sending               \* trades in the hands of the SQS workers

appVars  == <<step, errs, expired, shut>>
backVars == <<stopped, flushed, trades, sending>>
frontVars == <<ingressVars, left, stalled>>
vars == <<logVars, frontVars, appVars, backVars>>

Goroutines == {"journaler", "engine", "workers"}
Steps == {"http", "tcp", "ring", "wal", "batcher", "trades"}

FaultyAfterWal == [http |-> "tcp", tcp |-> "wal", wal |-> "ring", ring |-> "batcher",
                   batcher |-> "trades", trades |-> "done"]

After == [http |-> "tcp", tcp |-> "ring", ring |-> "wal", wal |-> "batcher",
          batcher |-> "trades", trades |-> "done"]

Init ==
  /\ LogInit /\ IngressInit
  /\ step = "serving" /\ errs = {} /\ expired = FALSE /\ shut = {}
  /\ left = {} /\ stalled = {}
  /\ stopped = {} /\ flushed = {} /\ trades = 0 /\ sending = 0

\* What a server waits for when it shuts down: the handlers that have not returned.
InFlight(front) == {o \in Orders : Front[o] = front /\ stage[o] # "idle" /\ o \notin left}

-----------------------------------------------------------------------------
(* Requests.  One begins when its bytes are in the server's buffer.          *)

Request(o) ==
  /\ stage[o] = "idle" /\ Front[o] \notin shut
  /\ SetStage(o, "register")
  /\ UNCHANGED <<logVars, ids, archived, left, stalled, appVars, backVars>>

\* A stage that returned drained has waited for every claimed slot, so an order that is
\* still on its way is refused; Push works until Batcher.Close.
Handle(o) ==
  /\ Admit(o) \/ Confirm(o)
  /\ {"journaler", "engine"} \cap stopped # {} /\ ~failed => stage'[o] # "admitted"
  /\ stage[o] = "archive" => (o \in archived' <=> "batcher" \notin shut)
  /\ UNCHANGED <<left, stalled, appVars, backVars>>

\* The handler writes its answer, or finds the connection gone, and returns.
Answer(o) ==
  /\ stage[o] \in Results /\ o \notin left \cup stalled
  /\ left' = left \cup {o}
  /\ UNCHANGED <<logVars, ingressVars, stalled, appVars, backVars>>

\* The answer does not fit: the client's socket is full of answers it has not read.
Stall(o) ==
  /\ stage[o] \in Results /\ o \notin left \cup stalled
  /\ stalled' = stalled \cup {o}
  /\ UNCHANGED <<logVars, ingressVars, left, appVars, backVars>>

\* The client reads again or hangs up, or the connection was closed by a TCP step that
\* ran out of time.
Unstall(o) ==
  /\ o \in stalled
  /\ stalled' = stalled \ {o} /\ left' = left \cup {o}
  /\ UNCHANGED <<logVars, ingressVars, appVars, backVars>>

-----------------------------------------------------------------------------
(* Ring stages, batcher, SQS workers.                                        *)

Journal ==
  /\ "journaler" \notin stopped
  /\ (Write /\ "wal" \notin shut) \/ Commit
  /\ UNCHANGED <<frontVars, appVars, backVars>>

\* The disk failed, or the WAL was closed under the journaler (ErrWALClosed).
JournalFails ==
  /\ "journaler" \notin stopped /\ Fail
  /\ stopped' = stopped \cup {"journaler"}
  /\ UNCHANGED <<frontVars, appVars, flushed, trades, sending>>

\* Closed, and the journal is released up to the last slot that was claimed.
Drained ==
  /\ closed /\ committed = Len(written)
  /\ \A o \in Orders : status[o] = "published" => Released(o)

\* OnEvent: an execution may send a trade; a full TradeCh drops it.
Engine ==
  /\ "engine" \notin stopped /\ Execute
  /\ trades' \in {trades, trades + 1} \cap 0..TradeRoom
  /\ UNCHANGED <<frontVars, appVars, stopped, flushed, sending>>

FaultyMayStop(g) ==
  CASE g = "journaler" -> Drained
    [] g = "engine"    -> failed \/ (Drained /\ executed = committed)
    [] g = "workers"   -> "trades" \in shut /\ trades = 0

\* An engine that sees the failed journal stops, drained or not (buffer.go:213).  The
\* last worker goes when the closed channel is empty and no send is under way.
MayStop(g) ==
  CASE g = "journaler" -> Drained
    [] g = "engine"    -> failed \/ (Drained /\ executed = committed)
    [] g = "workers"   -> "trades" \in shut /\ trades = 0 /\ sending = 0

Stop(g) ==
  /\ g \notin stopped /\ MayStop(g)
  /\ stopped' = stopped \cup {g}
  /\ UNCHANGED <<logVars, frontVars, appVars, flushed, trades, sending>>

Flush ==
  /\ \E batch \in (SUBSET (archived \ flushed)) \ {{}} : flushed' = flushed \cup batch
  /\ UNCHANGED <<logVars, frontVars, appVars, stopped, trades, sending>>

TakeTrade ==
  /\ trades > 0 /\ sending < Workers
  /\ trades' = trades - 1 /\ sending' = sending + 1
  /\ UNCHANGED <<logVars, frontVars, appVars, stopped, flushed>>

\* SendMessage is over: SQS took the trade, refused it, or let its two seconds pass.
\* The worker reports an error and goes on.
SendOver ==
  /\ sending > 0 /\ sending' = sending - 1
  /\ UNCHANGED <<logVars, frontVars, appVars, stopped, flushed, trades>>

-----------------------------------------------------------------------------
(* Components.Shutdown.                                                      *)

Signal ==
  /\ step = "serving" /\ step' = "http"
  /\ UNCHANGED <<logVars, frontVars, errs, expired, shut, backVars>>

FaultyMayBegin(s) == TRUE

\* The trades step needs an engine that has stopped.
MayBegin(s) == s = "trades" => "ring" \notin errs

\* Tell the component to stop: no new requests, ring closed, file closed after its
\* fsync, no more Push, TradeCh closed.
Begin(s) ==
  /\ step = s /\ s \notin shut /\ MayBegin(s)
  /\ shut' = shut \cup {s}
  /\ IF s = "ring" THEN Close ELSE UNCHANGED logVars
  /\ UNCHANGED <<frontVars, step, errs, expired, backVars>>

\* What the step waits for.
Over(s) ==
  CASE s \in {"http", "tcp"} -> InFlight(s) = {}
    [] s = "ring"            -> {"journaler", "engine"} \subseteq stopped
    [] s = "wal"             -> TRUE
    [] s = "batcher"         -> flushed = archived
    [] s = "trades"          -> "workers" \in stopped

Finish(s) ==
  /\ step = s /\ s \in shut /\ Over(s)
  /\ step' = After[s]
  /\ UNCHANGED <<logVars, frontVars, errs, expired, shut, backVars>>

\* The context expired before; the last fsync or the close of the file failed; the
\* batcher was done and the database did not close well.
StepFails(s) ==
  /\ step = s /\ s \in shut
  /\ expired \/ s = "wal" \/ (s = "batcher" /\ Over(s))
  /\ errs' = errs \cup {s} /\ step' = After[s]
  /\ UNCHANGED <<logVars, frontVars, expired, shut, backVars>>

SkipTrades ==
  /\ step = "trades" /\ ~MayBegin(step)
  /\ step' = After[step]
  /\ UNCHANGED <<logVars, frontVars, errs, expired, shut, backVars>>

Expire ==
  /\ step \in Steps /\ ~expired /\ expired' = TRUE
  /\ UNCHANGED <<logVars, frontVars, step, errs, shut, backVars>>

Main == (\E s \in Steps : Begin(s) \/ Finish(s)) \/ SkipTrades

\* When Shutdown returns, main exits: nothing runs any more.
Next ==
  /\ step # "done"
  /\ \/ \E o \in Orders : Request(o) \/ Handle(o) \/ Answer(o) \/ Stall(o) \/ Unstall(o)
     \/ Journal \/ JournalFails \/ Engine \/ Flush \/ TakeTrade \/ SendOver
     \/ \E g \in Goroutines : Stop(g)
     \/ Signal \/ Main \/ Expire \/ \E s \in Steps : StepFails(s)

Spec == Init /\ [][Next]_vars

\* Every goroutine that can run does run, and a step whose context is over returns.  No
\* signal has to come, no context to expire, no client to read, nothing to fail.
FairSpec ==
  /\ Spec
  /\ \A o \in Orders : WF_vars(step # "done" /\ Handle(o)) /\ WF_vars(step # "done" /\ Answer(o))
  /\ WF_vars(step # "done" /\ Journal) /\ WF_vars(step # "done" /\ Engine)
  /\ WF_vars(step # "done" /\ Flush) /\ WF_vars(step # "done" /\ TakeTrade)
  /\ WF_vars(step # "done" /\ SendOver)
  /\ \A g \in Goroutines : WF_vars(step # "done" /\ Stop(g))
  /\ WF_vars(Main) /\ WF_vars(expired /\ \E s \in Steps : StepFails(s))

-----------------------------------------------------------------------------
(* Properties.                                                               *)

\* Every variable has its type; only a step that was begun is reported as failed.
TypeOK ==
  /\ written \in Seq(Orders) /\ executed \in 0..committed /\ committed \in 0..Len(written)
  /\ closed \in BOOLEAN /\ failed \in BOOLEAN
  /\ status \in [Orders -> Statuses] /\ stage \in [Orders -> Stages]
  /\ left \subseteq {o \in Orders : stage[o] \in Results}
  /\ stalled \subseteq {o \in Orders : stage[o] \in Results} \ left
  /\ flushed \subseteq archived /\ archived \subseteq Orders
  /\ step \in {"serving", "done"} \cup Steps /\ expired \in BOOLEAN
  /\ errs \subseteq shut /\ shut \subseteq Steps /\ stopped \subseteq Goroutines
  /\ trades \in 0..TradeRoom /\ sending \in 0..Workers

\* TradeCh is closed only after the engine has returned, however the steps before it
\* ended: a send on a closed channel is a panic (shutdown.go, "fechar antes faria o
\* motor dar panic"; close.go).
NoTradeOnClosedChannel == "trades" \in shut => "engine" \in stopped

\* The WAL is closed under a running journaler, whose next Append then fails the ring,
\* only in a shutdown whose ring step was reported as failed.
WALOutlivesJournaler ==
  "wal" \in shut /\ "journaler" \notin stopped => "ring" \in errs

\* A shutdown without errors leaves nothing behind: every request was answered,
\* every confirmed order went to the archive and was flushed, no trade is left unsent and,
\* unless the journal failed, the engine has executed the whole journal (main.go,
\* "nenhuma ordem confirmada foi perdida").
CleanShutdown ==
  TypeOK /\ (step = "done" /\ errs = {} =>
    /\ InFlight("http") \cup InFlight("tcp") = {}
    /\ \A o \in Orders : stage[o] = "ok" => o \in flushed
    /\ flushed = archived /\ trades = 0 /\ sending = 0
    /\ failed \/ executed = Len(written))

\* Without any timeout the steps come to an end in this order: none waits for what a
\* later one would stop.  Only a client that for ever does not read its answer keeps
\* the shutdown waiting, and only until the context expires.
ShutdownEnds ==
  \/ step = "http" ~> step = "done"
  \/ \E o \in Orders : <>[](o \in stalled /\ ~expired)
=============================================================================
