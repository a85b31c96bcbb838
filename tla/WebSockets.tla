----------------------------- MODULE WebSockets -----------------------------
(***************************************************************************)
(* The live book of api/server.go: handleWS per watcher, broadcastTicker   *)
(* and Server.Shutdown, which share the set clients under s.mu, over       *)
(* connections on which a write waits while the watcher does not read.     *)
(* The HTTP library is external: it starts a handler per upgrade until its *)
(* own shutdown, and never waits for hijacked connections.                 *)
(***************************************************************************)
EXTENDS Naturals, FiniteSets

CONSTANTS Watchers,
          Room,      \* unread snapshots that fit on a connection
          Nobody

ASSUME WebSocketsAssumption == Room \in Nat \ {0} /\ Nobody \notin Watchers

VARIABLES
  clients, stop,     \* fields of Server
  place,             \* per watcher: where its handleWS stands
  shut, left,        \* connections closed by the server; by the watcher
  unread,            \* snapshots written to a connection and not read
  ticker,            \* broadcastTicker: "select", "copy", "write", "close", "delete", "returned"
  todo, current,     \* its copy of the list; the client it writes to
  http               \* Shutdown: "none", "sweep", "library", "nil", "expired"

tickerVars == <<ticker, todo, current>>
vars == <<clients, stop, place, shut, left, unread, tickerVars, http>>

Init ==
  /\ clients = {} /\ stop = FALSE
  /\ place = [w \in Watchers |-> "away"]
  /\ shut = {} /\ left = {} /\ unread = [w \in Watchers |-> 0]
  /\ ticker = "select" /\ todo = {} /\ current = Nobody
  /\ http = "none"

FaultyBroadcasterHoldsLock == ticker \in {"copy", "write", "close"}

\* Where the broadcaster is between a Lock and its Unlock; the other sections of
\* s.mu are one step each.
BroadcasterHoldsLock == ticker = "copy"

MuFree == ~BroadcasterHoldsLock
GoTo(w, p) == place' = [place EXCEPT ![w] = p]

-----------------------------------------------------------------------------
(* A watcher and its handler.                                                *)

Upgrade(w) ==
  /\ place[w] = "away" /\ http \notin {"nil", "expired"}
  /\ GoTo(w, "register")
  /\ UNCHANGED <<clients, shut, left, unread>>

Look(w) ==
  /\ unread[w] > 0 /\ w \notin left
  /\ unread' = [unread EXCEPT ![w] = @ - 1]
  /\ UNCHANGED <<clients, place, shut, left>>

Leave(w) ==
  /\ place[w] # "away"
  /\ left' = left \cup {w}
  /\ UNCHANGED <<clients, place, shut, unread>>

Register(w) ==
  /\ place[w] = "register" /\ MuFree
  /\ clients' = clients \cup {w}
  /\ GoTo(w, "read")
  /\ UNCHANGED <<shut, left, unread>>

\* ReadMessage returns an error: the connection is closed at one of its ends.
ReadFails(w) ==
  /\ place[w] = "read" /\ w \in shut \cup left
  /\ GoTo(w, "forget")
  /\ UNCHANGED <<clients, shut, left, unread>>

Forget(w) ==
  /\ place[w] = "forget" /\ MuFree
  /\ clients' = clients \ {w}
  /\ GoTo(w, "close")
  /\ UNCHANGED <<shut, left, unread>>

CloseConn(w) ==
  /\ place[w] = "close"
  /\ shut' = shut \cup {w}
  /\ GoTo(w, "done")
  /\ UNCHANGED <<clients, left, unread>>

handleWS(w) == Register(w) \/ ReadFails(w) \/ Forget(w) \/ CloseConn(w)
Watcher(w)  == Upgrade(w) \/ Look(w) \/ Leave(w)

-----------------------------------------------------------------------------
(* broadcastTicker.                                                          *)

TickerGoes(p) == ticker' = p /\ UNCHANGED <<clients, shut, unread>>

\* With stop closed and a tick ready, select takes either.
Stopped ==
  /\ ticker = "select" /\ stop
  /\ TickerGoes("returned") /\ UNCHANGED <<todo, current>>

Tick ==
  /\ ticker = "select"
  /\ TickerGoes("copy") /\ UNCHANGED <<todo, current>>

Copy ==
  /\ ticker = "copy"
  /\ todo' = clients /\ UNCHANGED current
  /\ TickerGoes(IF clients = {} THEN "select" ELSE "write")

Pick ==
  /\ ticker = "write" /\ current = Nobody
  /\ IF todo = {}
       THEN TickerGoes("select") /\ UNCHANGED <<todo, current>>
       ELSE /\ current' \in todo /\ todo' = todo \ {current'}
            /\ TickerGoes("write")

WriteOk ==
  /\ ticker = "write" /\ current \in Watchers \ shut
  /\ unread[current] < Room
  /\ unread' = [unread EXCEPT ![current] = @ + 1]
  /\ current' = Nobody
  /\ UNCHANGED <<clients, shut, ticker, todo>>

WriteFails ==
  /\ ticker = "write" /\ current \in shut \cup left
  /\ TickerGoes("close") /\ UNCHANGED <<todo, current>>

CloseClient ==
  /\ ticker = "close"
  /\ shut' = shut \cup {current} /\ ticker' = "delete"
  /\ UNCHANGED <<clients, unread, todo, current>>

DeleteClient ==
  /\ ticker = "delete"
  /\ clients' = clients \ {current}
  /\ current' = Nobody /\ ticker' = "write"
  /\ UNCHANGED <<shut, unread, todo>>

broadcastTicker ==
  \/ Stopped \/ Tick \/ Copy \/ Pick
  \/ WriteOk \/ WriteFails \/ CloseClient \/ DeleteClient

-----------------------------------------------------------------------------
(* Server.Shutdown.                                                          *)

Begin ==
  /\ http = "none" /\ http' = "sweep"
  /\ stop' = TRUE
  /\ UNCHANGED <<clients, shut>>

Sweep ==
  /\ http = "sweep" /\ MuFree /\ http' = "library"
  /\ shut' = shut \cup clients /\ clients' = {}
  /\ UNCHANGED stop

\* app.ShutdownWithContext.
Library ==
  /\ http = "library" /\ http' \in {"nil", "expired"}
  /\ UNCHANGED <<clients, stop, shut>>

Handling(w)  == handleWS(w) /\ UNCHANGED <<stop, tickerVars, http>>
Watches(w)   == Watcher(w) /\ UNCHANGED <<stop, tickerVars, http>>
Broadcasting == broadcastTicker /\ UNCHANGED <<stop, place, left, http>>
Stopping     == Stopped /\ UNCHANGED <<stop, place, left, http>>
ShuttingDown == (Sweep \/ Library) /\ UNCHANGED <<place, left, unread, tickerVars>>

Next ==
  \/ \E w \in Watchers : Watches(w) \/ Handling(w)
  \/ Broadcasting
  \/ Begin /\ UNCHANGED <<place, left, unread, tickerVars>>
  \/ ShuttingDown

Spec == Init /\ [][Next]_vars

\* The server's goroutines run and get s.mu in turn, and select does not pass over a
\* closed stop for ever.  No watcher has to read, to leave or to come, and nobody
\* has to call Shutdown.
FairSpec ==
  /\ Spec
  /\ \A w \in Watchers : SF_vars(Handling(w))
  /\ WF_vars(Broadcasting) /\ SF_vars(Stopping) /\ SF_vars(ShuttingDown)

-----------------------------------------------------------------------------
(* Properties.                                                               *)

\* The broadcaster waits for a watcher that does not read and that came after the
\* sweep, which emptied the set: nothing closes that connection any more.
StuckOnLateComer ==
  /\ ticker = "write" /\ current \in clients \ (shut \cup left)
  /\ unread[current] = Room /\ http \notin {"none", "sweep"}

\* A watcher that does not read hurts nobody else (server.go 175-176, "um cliente
\* lento não pode travar o registro de novos clientes"): while the broadcaster waits
\* for it, the others are registered and forgotten and Shutdown gets past the set;
\* and the sweep of Shutdown frees the broadcaster, unless it waits for a latecomer.
SlowWatcherHurtsNobody ==
  /\ \A w \in Watchers : place[w] \in {"register", "forget"} ~> place[w] \in {"read", "done"}
  /\ http = "sweep" ~> http \in {"nil", "expired"}
  /\ (stop ~> ticker = "returned") \/ <>[]StuckOnLateComer
=============================================================================
