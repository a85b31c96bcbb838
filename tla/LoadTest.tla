------------------------------ MODULE LoadTest ------------------------------
(***************************************************************************)
(* The load client of cmd/dma-loadtest/main.go: main splits Total orders   *)
(* over its connections and each runConn has a writer, which keeps at most *)
(* `window` orders in flight (0: no limit), and a reader of acks.  They    *)
(* meet in the channel sem, in done, and in closing the connection.  The   *)
(* server is any that keeps the contract of Wire.                          *)
(***************************************************************************)
EXTENDS Wire, FiniteSets, FiniteSetsExt

CONSTANTS Total, Windows,
          BufferRoom,   \* frames that fit in the writer's bufio.Writer
          WireRoom      \* frames that fit between the client and the server

ASSUME LoadAssumption ==
  /\ Total \in Nat /\ \E n \in 1..Total : Clients = 0..n - 1
  /\ Windows \subseteq Nat /\ BufferRoom \in Nat \ {0} /\ WireRoom \in Nat \ {0}

VARIABLES
  window,             \* the flag -window
  writer, reader,     \* per connection: where the two goroutines stand
  put, sem,           \* orders given to the bufio.Writer; orders in flight
  confirmed, rejected, err,   \* the fields of result
  expired,            \* connections whose deadline has passed
  exitCode            \* of main; "none" while it runs

connVars == <<writer, reader, put, sem, confirmed, rejected, err>>
vars == <<wireVars, window, connVars, expired, exitCode>>

LoadInit ==
  /\ WireInit
  /\ window \in Windows /\ expired = {} /\ exitCode = "none"
  /\ writer = [c \in Clients |-> "dial"] /\ reader = [c \in Clients |-> "none"]
  /\ put = [c \in Clients |-> 0] /\ sem = [c \in Clients |-> 0]
  /\ confirmed = [c \in Clients |-> 0] /\ rejected = [c \in Clients |-> 0]
  /\ err = [c \in Clients |-> FALSE]

-----------------------------------------------------------------------------
(* main: the share of each connection and its order_ids.                     *)

Share(c) ==
  LET n == Cardinality(Clients)
  IN Total \div n + (IF c < Total % n THEN 1 ELSE 0)

\* `next`, counted from the flag -id-base.
FirstId[c \in Nat] == IF c = 0 THEN 0 ELSE FirstId[c - 1] + Share(c - 1)

-----------------------------------------------------------------------------
(* The writer of runConn.                                                    *)

GoTo(c, place) == writer' = [writer EXCEPT ![c] = place]

\* The connection ends with runConn, whichever return it takes.
Returns(c) == GoTo(c, "returned") /\ HangUp(c)

DialOk(c) ==
  /\ writer[c] = "dial" /\ Dial(c)
  /\ GoTo(c, "next") /\ reader' = [reader EXCEPT ![c] = "read"]
  /\ UNCHANGED <<put, sem, err>>

DialFails(c) ==
  /\ writer[c] = "dial" /\ Returns(c)
  /\ err' = [err EXCEPT ![c] = TRUE]
  /\ UNCHANGED <<reader, put, sem>>

\* Take a place in the window, if there is one, and hand over the next order; with a
\* window each order is flushed, else when the buffer is full.
Put(c) ==
  /\ writer[c] = "next" /\ put[c] < Share(c)
  /\ window = 0 \/ sem[c] < window
  /\ put' = [put EXCEPT ![c] = @ + 1]
  /\ sem' = [sem EXCEPT ![c] = IF window = 0 THEN @ ELSE @ + 1]
  /\ GoTo(c, IF window > 0 \/ put[c] - sent[c] = BufferRoom THEN "flush" ELSE "next")
  /\ UNCHANGED <<wireVars, reader, err>>

FaultySeesDone(c) == FALSE

\* The reader has given up: no use waiting for the window.
SeesDone(c) ==
  /\ writer[c] = "next" /\ put[c] < Share(c)
  /\ window > 0 /\ reader[c] = "done"
  /\ err' = [err EXCEPT ![c] = TRUE]
  /\ Returns(c)
  /\ UNCHANGED <<reader, put, sem>>

SendFrame(c) ==
  /\ writer[c] = "flush" /\ c \notin expired
  /\ sent[c] < put[c] /\ sent[c] - taken[c] < WireRoom
  /\ Send(c)
  /\ GoTo(c, IF sent[c] + 1 = put[c] THEN "next" ELSE "flush")
  /\ UNCHANGED <<reader, put, sem, err>>

FaultyWriteFails(c) ==
  /\ writer[c] = "flush"
  /\ link[c] = "closed" \/ c \in expired
  /\ err' = [err EXCEPT ![c] = TRUE]
  /\ Returns(c)
  /\ UNCHANGED <<reader, put, sem>>

\* A failed write closes the connection, which unblocks the reader, and waits for it.
WriteFails(c) ==
  /\ writer[c] = "flush"
  /\ link[c] = "closed" \/ c \in expired
  /\ GoTo(c, "failed") /\ HangUp(c)
  /\ UNCHANGED <<reader, put, sem, err>>

\* All orders are handed over: the last flush, then the wait for their acks.
Finish(c) ==
  /\ writer[c] = "next" /\ put[c] = Share(c)
  /\ GoTo(c, IF sent[c] < put[c] THEN "flush" ELSE "await")
  /\ UNCHANGED <<wireVars, reader, put, sem, err>>

ReaderDone(c) ==
  /\ writer[c] \in {"failed", "await"} /\ reader[c] = "done"
  /\ err' = [err EXCEPT ![c] = @ \/ writer[c] = "failed"]
  /\ Returns(c)
  /\ UNCHANGED <<reader, put, sem>>

Writer(c) ==
  /\ \/ DialOk(c) \/ DialFails(c) \/ Put(c) \/ SeesDone(c)
     \/ SendFrame(c) \/ WriteFails(c) \/ Finish(c) \/ ReaderDone(c)
  /\ UNCHANGED <<window, confirmed, rejected, expired, exitCode>>

-----------------------------------------------------------------------------
(* The reader of runConn.                                                    *)

\* An ack is read, leaves the window and is counted: nobody looks in between.
ReadByte(c) ==
  /\ reader[c] = "read" /\ ReadAck(c)
  /\ window = 0 \/ sem[c] > 0
  /\ sem' = [sem EXCEPT ![c] = IF window = 0 THEN @ ELSE @ - 1]
  /\ IF acks[c][got'[c]] = "ok"
       THEN confirmed' = [confirmed EXCEPT ![c] = @ + 1] /\ UNCHANGED rejected
       ELSE rejected' = [rejected EXCEPT ![c] = @ + 1] /\ UNCHANGED confirmed
  /\ reader' = [reader EXCEPT ![c] = IF got'[c] = Share(c) THEN "done" ELSE "read"]
  /\ UNCHANGED err

\* The server closed, the deadline passed, or the writer closed the connection.  Acks
\* still on their way may be lost with it.
ReadFails(c) ==
  /\ reader[c] = "read"
  /\ link[c] = "closed" \/ c \in expired \cup gone
  /\ reader' = [reader EXCEPT ![c] = "done"]
  /\ err' = [err EXCEPT ![c] = TRUE]
  /\ UNCHANGED <<wireVars, sem, confirmed, rejected>>

Reader(c) ==
  /\ ReadByte(c) \/ ReadFails(c)
  /\ UNCHANGED <<window, writer, put, expired, exitCode>>

-----------------------------------------------------------------------------

\* The deadline set when the connection was made.
Expire(c) ==
  /\ writer[c] \notin {"dial", "returned"} /\ expired' = expired \cup {c}
  /\ UNCHANGED <<wireVars, window, connVars, exitCode>>

AllConfirmed == MapThenSumSet(LAMBDA c : confirmed[c], Clients)

\* main waits for every runConn, adds up and exits.
Exit ==
  /\ exitCode = "none" /\ \A c \in Clients : writer[c] = "returned"
  /\ exitCode' =
       IF (\E c \in Clients : err[c] \/ rejected[c] > 0) \/ AllConfirmed # Total
         THEN "1" ELSE "0"
  /\ UNCHANGED <<wireVars, window, connVars, expired>>

Server == Serve /\ UNCHANGED <<window, connVars, expired, exitCode>>

LoadNext ==
  \/ \E c \in Clients : Writer(c) \/ Reader(c) \/ Expire(c)
  \/ Server \/ Exit

\* The client's goroutines run and its deadlines pass; the server owes it nothing.
LoadSpec ==
  /\ LoadInit /\ [][LoadNext]_vars
  /\ \A c \in Clients :
       WF_vars(Writer(c)) /\ WF_vars(Reader(c)) /\ WF_vars(Expire(c))
  /\ WF_vars(Exit)

-----------------------------------------------------------------------------
(* Properties.                                                               *)

Oks(c, n) == {k \in 1..n : acks[c][k] = "ok"}

\* What the client reports is what the server said.  runConn returns a result that no
\* goroutine still writes, which counts exactly the acks read; no more than `window`
\* orders are in flight; and exit code 0 means that all Total orders, under as many
\* order_ids, are confirmed (main.go 14-19, 152).
ReportTrue ==
  /\ \A c \in Clients :
       /\ writer[c] = "returned" =>
            /\ reader[c] \in {"none", "done"}
            /\ confirmed[c] = Cardinality(Oks(c, got[c]))
            /\ confirmed[c] + rejected[c] = got[c]
       /\ window > 0 => put[c] - got[c] <= window
  /\ exitCode = "0" =>
       Cardinality(UNION {{FirstId[c] + k : k \in Oks(c, Len(acks[c]))} : c \in Clients})
         = Total

\* The run comes to an end whatever the server does: no writer waits for a window
\* that its reader no longer empties, no reader for a connection nobody closes.
RunEnds == exitCode = "none" ~> exitCode # "none"
=============================================================================
