----------------------------- MODULE TCPServer ------------------------------
(***************************************************************************)
(* The DMA server of api/tcp_server.go: Serve's accept loop, one handler   *)
(* per connection and Shutdown, over sockets of limited room and clients   *)
(* that send, read and leave when they please.  What Admit and Confirm do  *)
(* is the Exchange's; here they return a verdict.  s.mu protects a few     *)
(* lines at a time: each such section is one step.                         *)
(***************************************************************************)
EXTENDS Naturals, Sequences, FiniteSets

CONSTANTS Clients,
          Frames,        \* bound: how many frames each client sends
          MaxPipeline,
          AckRoom        \* unread acks that fit between a handler and its client

ASSUME TCPAssumption ==
  /\ IsFiniteSet(Clients) /\ Frames \in [Clients -> Nat]
  /\ MaxPipeline \in Nat \ {0} /\ AckRoom \in Nat \ {0}

VARIABLES
  serve,                  \* Serve: "accept", "register", "backoff", "returned"
  conns, wg, closing,     \* fields of TCPServer
  link,                   \* per connection: "away", "backlog", "hand", "open", "closed"
  deadline,               \* the connections whose read deadline has passed
  handler,                \* per connection: where handleConnection stands
  fetched, taken, batch,  \* frames read from the socket, frames admitted, the batch
  gone, sent, acks, got,  \* the two ends of the wire, as in Wire
  shutdown                \* Shutdown: "none", "waiting", "nil", "expired"

clientVars == <<gone, sent, got>>
handlerVars == <<fetched, taken, batch, acks>>
vars == <<serve, conns, wg, closing, link, deadline, handler, handlerVars,
          clientVars, shutdown>>

Init ==
  /\ serve = "accept" /\ conns = {} /\ wg = 0 /\ closing = FALSE
  /\ link = [c \in Clients |-> "away"] /\ deadline = {}
  /\ handler = [c \in Clients |-> "none"]
  /\ fetched = [c \in Clients |-> 0] /\ taken = [c \in Clients |-> 0]
  /\ batch = [c \in Clients |-> <<>>] /\ acks = [c \in Clients |-> <<>>]
  /\ gone = {} /\ sent = [c \in Clients |-> 0] /\ got = [c \in Clients |-> 0]
  /\ shutdown = "none"

-----------------------------------------------------------------------------
(* The clients.                                                              *)

Dial(c) ==
  /\ link[c] = "away" /\ ~closing
  /\ link' = [link EXCEPT ![c] = "backlog"]
  /\ UNCHANGED clientVars

Send(c) ==
  /\ link[c] # "away" /\ sent[c] < Frames[c]
  /\ sent' = [sent EXCEPT ![c] = @ + 1]
  /\ UNCHANGED <<link, gone, got>>

ReadAck(c) ==
  /\ got[c] < Len(acks[c])
  /\ got' = [got EXCEPT ![c] = @ + 1]
  /\ UNCHANGED <<link, gone, sent>>

HangUp(c) == gone' = gone \cup {c} /\ UNCHANGED <<link, sent, got>>

Client(c) ==
  /\ c \notin gone
  /\ Dial(c) \/ Send(c) \/ ReadAck(c) \/ HangUp(c)
  /\ UNCHANGED <<serve, conns, wg, closing, deadline, handler, handlerVars, shutdown>>

-----------------------------------------------------------------------------
(* Serve.                                                                    *)

Accept(c) ==
  /\ serve = "accept" /\ link[c] = "backlog"
  /\ serve' = "register" /\ link' = [link EXCEPT ![c] = "hand"]
  /\ UNCHANGED <<conns, wg, handler>>

\* A transient error: the loop backs off.
AcceptFails ==
  /\ serve = "accept" /\ ~closing
  /\ serve' = "backoff"
  /\ UNCHANGED <<conns, wg, link, handler>>

BackoffOver ==
  /\ serve = "backoff"
  /\ serve' = "accept"
  /\ UNCHANGED <<conns, wg, link, handler>>

AcceptClosed ==
  /\ serve = "accept" /\ closing
  /\ serve' = "returned"
  /\ UNCHANGED <<conns, wg, link, handler>>

FaultyRegister(c) ==
  /\ link[c] = "hand"
  /\ conns' = conns \cup {c} /\ wg' = wg + 1
  /\ link' = [link EXCEPT ![c] = "open"]
  /\ handler' = [handler EXCEPT ![c] = "read"]
  /\ serve' = "accept"

\* The second look at closing, under the lock that Shutdown takes.
Register(c) ==
  /\ link[c] = "hand" /\ serve' = "accept"
  /\ IF closing
       THEN link' = [link EXCEPT ![c] = "closed"] /\ UNCHANGED <<conns, wg, handler>>
       ELSE /\ conns' = conns \cup {c} /\ wg' = wg + 1
            /\ link' = [link EXCEPT ![c] = "open"]
            /\ handler' = [handler EXCEPT ![c] = "read"]

Serve ==
  /\ \/ AcceptFails \/ BackoffOver \/ AcceptClosed
     \/ \E c \in Clients : Accept(c) \/ Register(c)
  /\ UNCHANGED <<closing, deadline, handlerVars, clientVars, shutdown>>

-----------------------------------------------------------------------------
(* handleConnection.  A batch is a sequence of verdicts, "admitted" until    *)
(* Confirm has decided.                                                      *)

GoTo(c, place) == handler' = [handler EXCEPT ![c] = place]
Refused(s) == s # <<>> /\ s[Len(s)] = "rejected"
Buffered(c) == fetched[c] - taken[c]

\* Only the first frame of a batch may wait for the socket.
Fetch(c) ==
  /\ handler[c] = "read" /\ batch[c] = <<>> /\ Buffered(c) = 0
  /\ link[c] = "open" /\ c \notin deadline
  /\ \E n \in (fetched[c] + 1)..sent[c] : fetched' = [fetched EXCEPT ![c] = n]
  /\ UNCHANGED <<conns, wg, link, handler, taken, batch, acks>>

ReadFails(c) ==
  /\ handler[c] = "read" /\ batch[c] = <<>> /\ Buffered(c) = 0
  /\ c \in deadline \cup gone \/ link[c] = "closed"
  /\ GoTo(c, "exit")
  /\ UNCHANGED <<conns, wg, link, handlerVars>>

\* The batch takes what is buffered, up to its limit or a rejection.
BatchComplete(c) ==
  Buffered(c) = 0 \/ Len(batch[c]) = MaxPipeline \/ Refused(batch[c])

Admit(c) ==
  /\ handler[c] = "read" /\ Buffered(c) > 0 /\ ~BatchComplete(c)
  /\ taken' = [taken EXCEPT ![c] = @ + 1]
  /\ \E v \in {"admitted", "refused", "rejected"} :
       batch' = [batch EXCEPT ![c] = Append(@, v)]
  /\ UNCHANGED <<conns, wg, link, handler, fetched, acks>>

FaultyConfirmations(b) ==
  LET ok == [i \in DOMAIN b |-> IF b[i] = "admitted" THEN "ok" ELSE b[i]]
      Failed(i) == [j \in DOMAIN b |->
        IF j >= i /\ b[j] = "admitted" THEN "rejected" ELSE ok[j]]
  IN {ok} \cup {Failed(i) : i \in {j \in DOMAIN b : b[j] = "admitted"}}

\* The acks of a batch: what was admitted is confirmed, or the ring gave up on it
\* and nothing after it is answered.
Confirmations(b) ==
  LET ok == [i \in DOMAIN b |-> IF b[i] = "admitted" THEN "ok" ELSE b[i]]
  IN {ok} \cup {Append(SubSeq(ok, 1, i - 1), "rejected") :
                  i \in {j \in DOMAIN b : b[j] = "admitted"}}

Confirm(c) ==
  /\ handler[c] = "read" /\ batch[c] # <<>> /\ BatchComplete(c)
  /\ \E b \in Confirmations(batch[c]) : batch' = [batch EXCEPT ![c] = b]
  /\ GoTo(c, "write")
  /\ UNCHANGED <<conns, wg, link, fetched, taken, acks>>

\* conn.Write has no deadline: it waits for room, byte after byte.
Write(c) ==
  /\ handler[c] = "write" /\ link[c] = "open" /\ batch[c] # <<>>
  /\ Len(acks[c]) - got[c] < AckRoom
  /\ acks' = [acks EXCEPT ![c] = Append(@, Head(batch[c]))]
  /\ batch' = [batch EXCEPT ![c] = Tail(@)]
  /\ UNCHANGED <<conns, wg, link, handler, fetched, taken>>

Written(c) ==
  /\ handler[c] = "write" /\ batch[c] = <<>>
  /\ GoTo(c, IF Refused(acks[c]) THEN "exit" ELSE "read")
  /\ UNCHANGED <<conns, wg, link, handlerVars>>

WriteFails(c) ==
  /\ handler[c] = "write" /\ batch[c] # <<>>
  /\ c \in gone \/ link[c] = "closed"
  /\ GoTo(c, "exit")
  /\ UNCHANGED <<conns, wg, link, handlerVars>>

\* The deferred clean-up: conn.Close, the set, the wait group.
Exit(c) ==
  /\ handler[c] = "exit"
  /\ link' = [link EXCEPT ![c] = "closed"]
  /\ GoTo(c, "forget")
  /\ UNCHANGED <<conns, wg, handlerVars>>

Forget(c) ==
  /\ handler[c] = "forget"
  /\ conns' = conns \ {c}
  /\ GoTo(c, "leave")
  /\ UNCHANGED <<wg, link, handlerVars>>

Leave(c) ==
  /\ handler[c] = "leave"
  /\ wg' = wg - 1
  /\ GoTo(c, "done")
  /\ UNCHANGED <<conns, link, handlerVars>>

handleConnection(c) ==
  /\ \/ Fetch(c) \/ ReadFails(c) \/ Admit(c) \/ Confirm(c)
     \/ Write(c) \/ Written(c) \/ WriteFails(c)
     \/ Exit(c) \/ Forget(c) \/ Leave(c)
  /\ UNCHANGED <<serve, closing, deadline, clientVars, shutdown>>

-----------------------------------------------------------------------------
(* Shutdown.                                                                 *)

FaultyWoken == {}

\* The connections whose reads Shutdown unblocks.
Woken == conns

\* Closing the listener also ends the connections nobody has accepted.
Begin ==
  /\ shutdown = "none" /\ shutdown' = "waiting"
  /\ closing' = TRUE
  /\ deadline' = deadline \cup Woken
  /\ link' = [c \in Clients |-> IF link[c] = "backlog" THEN "closed" ELSE link[c]]

Return ==
  /\ shutdown = "waiting" /\ wg = 0
  /\ shutdown' = "nil"
  /\ UNCHANGED <<closing, deadline, link>>

\* ctx is over first: the connections that are left are torn down.
Expire ==
  /\ shutdown = "waiting" /\ shutdown' = "expired"
  /\ link' = [c \in Clients |-> IF c \in conns THEN "closed" ELSE link[c]]
  /\ UNCHANGED <<closing, deadline>>

restVars == <<serve, conns, wg, handler, handlerVars, clientVars>>
Ends     == Return /\ UNCHANGED restVars
Shutdown == Ends \/ ((Begin \/ Expire) /\ UNCHANGED restVars)

Next ==
  \/ \E c \in Clients : Client(c) \/ handleConnection(c)
  \/ Serve \/ Shutdown

Spec == Init /\ [][Next]_vars

\* The server's goroutines run.  No client has to send, to read or to leave, nobody
\* has to call Shutdown, and its context need never expire.
FairSpec ==
  /\ Spec
  /\ \A c \in Clients : WF_vars(handleConnection(c))
  /\ WF_vars(Serve)
  /\ WF_vars(Ends)

-----------------------------------------------------------------------------
(* Properties.                                                               *)

\* A connection that is waited for is one whose handler has not left; what is known
\* of a connection's place follows from it; the buffers keep to their room.
ServerConsistent ==
  /\ serve \in {"accept", "register", "backoff", "returned"}
  /\ wg = Cardinality({c \in Clients : handler[c] \notin {"none", "done"}})
  /\ conns = {c \in Clients : handler[c] \notin {"none", "leave", "done"}}
  /\ \A c \in Clients :
       /\ Len(acks[c]) <= taken[c] /\ taken[c] <= fetched[c] /\ fetched[c] <= sent[c]
       /\ Len(batch[c]) <= MaxPipeline
  /\ deadline # {} => closing

\* When Shutdown has returned nil nothing of the server is at work and nothing will
\* be, even if Serve still holds a connection that it has just accepted: every
\* handler has left, and every order taken in was answered, unless its client hung
\* up or an earlier order of the connection was rejected (tcp_server.go 132-138).
GracefulMeansQuiet ==
  /\ ServerConsistent
  /\ shutdown = "nil" =>
       /\ conns = {}
       /\ \A c \in Clients :
            /\ handler[c] \in {"none", "done"}
            /\ Len(acks[c]) = taken[c] \/ Refused(acks[c]) \/ c \in gone

\* A handler sits in conn.Write because its client does not read.
Stalled(c) ==
  /\ handler[c] = "write" /\ batch[c] # <<>> /\ link[c] = "open" /\ c \notin gone
  /\ Len(acks[c]) - got[c] >= AckRoom

\* Once Shutdown has begun, it returns, Serve returns and every handler leaves; only
\* a client that for ever does not read its acks can keep it waiting, and only until
\* ctx expires (tcp_server.go 132-135: "acorda as conexões ociosas e espera as ordens
\* em andamento terminarem").
ShutdownReturns ==
  \/ closing ~> shutdown \in {"nil", "expired"} /\ serve = "returned" /\ conns = {}
  \/ \E c \in Clients : <>[]Stalled(c)

Contract == INSTANCE Wire WITH
  link   <- [c \in Clients |->
               IF link[c] \in {"backlog", "hand"} THEN "open" ELSE link[c]],
  forced <- shutdown = "expired"

\* Every client sees one ack per frame, in order, nothing after a rejection, and no
\* end of the connection while it is owed an ack, except by a shutdown out of time.
ImplementsWire == Contract!WireSpec
=============================================================================
