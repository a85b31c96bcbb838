------------------------------ MODULE Exchange ------------------------------
(***************************************************************************)
(* The whole order path: connections that read frames in batches, admit    *)
(* them, confirm them in order and write their acks (api/tcp_server.go; a  *)
(* POST of api/server.go is a connection of one frame), over the front     *)
(* door and the ring, with crashes, power losses and restarts in the mode  *)
(* that fsyncs every batch (GORUPTOR_WAL_SYNC=always).                     *)
(*                                                                         *)
(* The file holds past, what was in it when the process booted, and then   *)
(* written.  The engine has executed past, in restore mode, and then the   *)
(* first `executed` orders of written.                                     *)
(***************************************************************************)
EXTENDS Ingress, Functions

CONSTANTS Conns, Script,   \* the connections and the frames each client sends; a frame is
                           \* an order of its own, and a retry one with the same id
          MaxPipeline,
          MaxCrashes       \* bound: crashes and power losses

ASSUME ExchangeAssumption ==
  /\ IsFiniteSet(Orders)
  /\ Script \in [Conns -> Seq(Orders)]
  /\ \A c, d \in Conns : \A i \in DOMAIN Script[c], j \in DOMAIN Script[d] :
       Script[c][i] = Script[d][j] => c = d /\ i = j
  /\ MaxPipeline \in Nat \ {0} /\ MaxCrashes \in Nat

VARIABLES
  up,             \* the process runs
  past, stable,   \* the file at boot; how many of the file's orders are fsynced
  conn,           \* per connection: open, frames dealt with, frames read
  answer,         \* the ack that each client has received, or "none"
  crashes

worldVars == <<up, past, stable, crashes>>
vars == <<logVars, ingressVars, worldVars, conn, answer>>

Journal == past \o written

Init ==
  /\ LogInit /\ IngressInit
  /\ up = TRUE /\ past = <<>> /\ stable = 0 /\ crashes = 0
  /\ conn = [c \in Conns |-> [open |-> TRUE, done |-> 0, read |-> 0]]
  /\ answer = [o \in Orders |-> "none"]

-----------------------------------------------------------------------------
(* handleConnection.  The batch is what has been read and not dealt with.    *)

Batch(c) == (conn[c].done + 1)..conn[c].read
Frame(c, i) == Script[c][i]
At(c, stages) == {i \in Batch(c) : stage[Frame(c, i)] \in stages}

ReadFrame(c) ==
  /\ conn[c].open
  /\ conn[c].read < Len(Script[c]) /\ Cardinality(Batch(c)) < MaxPipeline
  /\ At(c, InAdmit \cup {"archive", "ok", "unavailable"}) = {}
  /\ SetStage(Frame(c, conn[c].read + 1), "register")
  /\ conn' = [conn EXCEPT ![c].read = @ + 1]
  /\ UNCHANGED <<logVars, ids, archived, worldVars, answer>>

\* Admission of the frame just read.
AdmitFrame(c) ==
  /\ \E i \in Batch(c) : Admit(Frame(c, i))
  /\ UNCHANGED <<worldVars, conn, answer>>

\* The first frame of the batch that still needs the journal or was refused.
Turn(c) ==
  LET open == At(c, InConfirm \cup {"unavailable"})
  IN {i \in open : \A j \in open : i <= j}

\* Confirmation, in order, once the batch is closed; what is behind a refusal is left.
ConfirmFrame(c) ==
  /\ conn[c].open
  /\ At(c, InAdmit) = {}
  /\ \E i \in Turn(c) : Confirm(Frame(c, i))
  /\ UNCHANGED <<worldVars, conn, answer>>

FaultyLastAnswered(c) == {i \in Batch(c) : i = conn[c].read}

\* The last frame of the next write: the first refusal, or the last of the batch.
LastAnswered(c) ==
  {i \in Batch(c) :
     /\ \A j \in (conn[c].done + 1)..(i - 1) : stage[Frame(c, j)] \in Results \ {"unavailable"}
     /\ \/ stage[Frame(c, i)] = "unavailable"
        \/ i = conn[c].read /\ stage[Frame(c, i)] \in Results}
Decided(c) == At(c, InAdmit) = {} /\ LastAnswered(c) # {}

\* One write of all the acks; a refusal closes the connection after it.
WriteAcks(c) ==
  /\ conn[c].open /\ Decided(c)
  /\ \E last \in LastAnswered(c) :
       /\ answer' = [o \in Orders |->
            IF \E i \in (conn[c].done + 1)..last : Frame(c, i) = o THEN stage[o] ELSE answer[o]]
       /\ conn' = [conn EXCEPT ![c].done = last,
                               ![c].open = stage[Frame(c, last)] # "unavailable"]
  /\ UNCHANGED <<logVars, ingressVars, worldVars>>

\* The client is gone, or the shutdown's read deadline finds the connection idle.
HangUp(c) ==
  /\ conn[c].open
  /\ Decided(c) \/ Batch(c) = {}
  /\ conn' = [conn EXCEPT ![c].open = FALSE]
  /\ UNCHANGED <<logVars, ingressVars, worldVars, answer>>

Connection(c) ==
  /\ up
  /\ \/ ReadFrame(c) \/ AdmitFrame(c) \/ ConfirmFrame(c)
     \/ WriteAcks(c) \/ HangUp(c)

-----------------------------------------------------------------------------
(* The ring, through its contract.  The Sync before a release covers the     *)
(* whole file, what the last life left unsynced included.  Close comes from  *)
(* the shutdown, which a signal starts at any time and which may have given  *)
(* up on connections that are still at work.                                 *)

FaultyReleased == UNCHANGED stable

\* The fsync that precedes a release.
Fsynced == stable' = Len(past) + committed'

Journaling ==
  /\ up
  /\ \/ Write /\ UNCHANGED stable
     \/ Commit /\ Fsynced
  /\ UNCHANGED <<ingressVars, up, past, crashes, conn, answer>>

RingStep ==
  \/ Journaling
  \/ /\ up
     /\ Fail \/ Execute \/ Close
     /\ UNCHANGED <<ingressVars, worldVars, conn, answer>>

\* The process is gone, with n orders left in the file; memory is lost, and so is
\* every connection that had begun.
Gone(n) ==
  /\ up' = FALSE
  /\ past' = SubSeq(Journal, 1, n)
  /\ written' = <<>> /\ committed' = 0 /\ executed' = 0
  /\ closed' = FALSE /\ failed' = FALSE
  /\ status' = [o \in Orders |-> "new"]
  /\ ids' = {}
  /\ stage' = [o \in Orders |-> IF stage[o] \in InAdmit \cup InConfirm THEN "lost" ELSE stage[o]]
  /\ conn' = [c \in Conns |-> [conn[c] EXCEPT !.open = @ /\ conn[c].read = 0]]
  /\ crashes' = crashes + 1
  /\ UNCHANGED <<archived, answer>>

Crash == up /\ crashes < MaxCrashes /\ Gone(Len(Journal)) /\ UNCHANGED stable

PowerLoss ==
  /\ crashes < MaxCrashes
  /\ \E n \in stable..Len(Journal) : Gone(n) /\ stable' = n

FaultyBoot ==
  /\ ~up /\ up' = TRUE
  /\ UNCHANGED <<logVars, ingressVars, past, stable, crashes, conn, answer>>

\* main: the past is replayed and its order_ids registered before any server starts.
Boot ==
  /\ ~up /\ up' = TRUE
  /\ ids' = {IdOf[past[i]] : i \in DOMAIN past}
  /\ UNCHANGED <<logVars, stage, archived, past, stable, crashes, conn, answer>>

Next ==
  \/ \E c \in Conns : Connection(c)
  \/ RingStep \/ Crash \/ PowerLoss \/ Boot

Spec == Init /\ [][Next]_vars

\* The goroutines of a running process run: the journaler writes and releases what is
\* published unless it fails, and a handler goes on with what it has read.  No client
\* has to send a frame, nothing has to fail, and no process has to be restarted.
FairSpec ==
  /\ Spec
  /\ WF_vars(Journaling)
  /\ \A c \in Conns :
       WF_vars(up /\ (AdmitFrame(c) \/ ConfirmFrame(c) \/ WriteAcks(c)))

-----------------------------------------------------------------------------
(* Properties.                                                               *)

\* The state is well-formed: the engine is behind the released orders, these behind
\* the file; every answer is a verdict; a connection has not dealt with more than it read.
TypeOK ==
  /\ written \in Seq(Orders) /\ past \in Seq(Orders)
  /\ executed \in 0..committed /\ committed \in 0..Len(written)
  /\ stable \in 0..Len(Journal) /\ crashes \in 0..MaxCrashes
  /\ up \in BOOLEAN /\ closed \in BOOLEAN /\ failed \in BOOLEAN
  /\ status \in [Orders -> Statuses] /\ stage \in [Orders -> Stages]
  /\ answer \in [Orders -> Results \cup {"none"}]
  /\ archived \subseteq Orders /\ ids \subseteq Range(IdOf)
  /\ conn \in [Conns -> [open : BOOLEAN, done : Nat, read : Nat]]
  /\ \A c \in Conns : conn[c].done <= conn[c].read /\ conn[c].read <= Len(Script[c])

\* An order whose client got AckOK, or that went to the archive, is in the fsynced
\* part of the journal: now, after a crash, and after a power loss (tcp_server.go,
\* "AckOK: ordem confirmada, ja esta no journal em disco"; ingest.go, Confirm).
ConfirmedSurvives ==
  \A o \in Orders : answer[o] = "ok" \/ o \in archived =>
    \E i \in 1..stable : Journal[i] = o

\* The journal holds an order_id at most once over all lives of the process, however
\* the client retries: as the engine executes the journal once per life, at-most-once
\* execution (ingest.go, Register; main.go registers the ids of the past before the
\* servers start).
AtMostOnce ==
  \A i, j \in DOMAIN Journal : IdOf[Journal[i]] = IdOf[Journal[j]] => i = j

\* The taken ids are exactly those of the journal, of the orders on their way into it
\* and of the orders whose outcome is unknown: no refused order leaves its id behind,
\* so its client may retry, and no unknown one gives it up (ingest.go, Admit, Confirm).
IdsAccountedFor ==
  /\ TypeOK
  /\ up => ids = {IdOf[o] : o \in {p \in Orders :
       \/ \E i \in DOMAIN Journal : Journal[i] = p
       \/ stage[p] \in {"publish", "forget"}
       \/ status[p] \in {"published", "unconfirmed"}}}

\* A client reads its acks as those of its first frames, in order: the answered frames
\* are a prefix of what it sent, only the last of them can be a rejection, and each
\* answer is a verdict (tcp_server.go, "Os ACKs saem sempre na ordem dos frames").
AcksInOrder ==
  \A c \in Conns : \A i, j \in DOMAIN Script[c] :
    i < j /\ answer[Frame(c, j)] # "none" =>
      answer[Frame(c, i)] \in Results \ {"unavailable"}

\* A batch of frames that was read is answered, or its connection ends: no handler
\* waits for ever for the journal (WaitDurable returns when the ring fails or closes).
FramesAnswered ==
  \A c \in Conns : Batch(c) # {} ~> (Batch(c) = {} \/ ~conn[c].open)
=============================================================================
