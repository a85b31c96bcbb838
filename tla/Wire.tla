-------------------------------- MODULE Wire --------------------------------
(***************************************************************************)
(* What a client of the DMA port may rely on (api/tcp_server.go 20-34 and  *)
(* 132-138): per connection, one ack per frame in the order of the frames, *)
(* a rejection last, and no order taken in and left without an ack while   *)
(* the client is there, unless a shutdown ran out of time.  TCPServer is   *)
(* shown to implement it and LoadTest runs on it.                          *)
(***************************************************************************)
EXTENDS Naturals, Sequences

CONSTANT Clients   \* the connections, each with the client behind it

\* AckOK; AckInvalid and AckDuplicate; AckRejected.
Verdicts == {"ok", "refused", "rejected"}

VARIABLES
  link,     \* the server's end: "away" until the client connects, "open", "closed"
  gone,     \* the clients that closed their end
  sent,     \* frames written to the connection
  taken,    \* frames the server has dealt with
  acks,     \* acks written to the connection
  got,      \* acks the client has read
  forced    \* a shutdown ran out of time

wireVars == <<link, gone, sent, taken, acks, got, forced>>

WireInit ==
  /\ link = [c \in Clients |-> "away"]
  /\ gone = {} /\ forced = FALSE
  /\ sent = [c \in Clients |-> 0] /\ taken = [c \in Clients |-> 0]
  /\ acks = [c \in Clients |-> <<>>] /\ got = [c \in Clients |-> 0]

\* The last ack was a rejection: the server has nothing more to say.
Over(c) == acks[c] # <<>> /\ acks[c][Len(acks[c])] = "rejected"

Dial(c) ==
  /\ link[c] = "away" /\ c \notin gone
  /\ link' = [link EXCEPT ![c] = "open"]
  /\ UNCHANGED <<gone, sent, taken, acks, got, forced>>

\* What is sent to an end that has closed is lost.
Send(c) ==
  /\ link[c] # "away" /\ c \notin gone
  /\ sent' = [sent EXCEPT ![c] = @ + 1]
  /\ UNCHANGED <<link, gone, taken, acks, got, forced>>

ReadAck(c) ==
  /\ got[c] < Len(acks[c])
  /\ got' = [got EXCEPT ![c] = @ + 1]
  /\ UNCHANGED <<link, gone, sent, taken, acks, forced>>

HangUp(c) ==
  /\ gone' = gone \cup {c}
  /\ UNCHANGED <<link, sent, taken, acks, got, forced>>

Take(c) ==
  /\ taken[c] < sent[c] /\ ~Over(c)
  /\ taken' = [taken EXCEPT ![c] = @ + 1]
  /\ UNCHANGED <<link, gone, sent, acks, got, forced>>

Answer(c) ==
  /\ link[c] = "open" /\ Len(acks[c]) < taken[c] /\ ~Over(c)
  /\ \E v \in Verdicts : acks' = [acks EXCEPT ![c] = Append(@, v)]
  /\ UNCHANGED <<link, gone, sent, taken, got, forced>>

\* A connection ends when nothing is owed to its client, or nobody waits for it.
MayClose(c) == forced' \/ Len(acks[c]) = taken[c] \/ Over(c) \/ c \in gone

Close ==
  /\ forced' \in {forced, TRUE}
  /\ \E S \in SUBSET {c \in Clients : link[c] = "open"} :
       /\ \A c \in S : MayClose(c)
       /\ link' = [c \in Clients |-> IF c \in S THEN "closed" ELSE link[c]]
  /\ UNCHANGED <<gone, sent, taken, acks, got>>

Serve == Close \/ \E c \in Clients : Take(c) \/ Answer(c)

WireNext ==
  \/ \E c \in Clients : Dial(c) \/ Send(c) \/ ReadAck(c) \/ HangUp(c)
  \/ Serve

WireSpec == WireInit /\ [][WireNext]_wireVars
=============================================================================
