-------------------------- MODULE TCPServerProofs ---------------------------
(***************************************************************************)
(* Proofs about the DMA server, for any clients, frames, batch limit and   *)
(* socket room: a graceful Shutdown leaves nothing at work, and the server *)
(* keeps the contract Wire.  Both rest on ServerInv, which ties where a    *)
(* handler stands to the frames it owes an ack.                            *)
(***************************************************************************)
EXTENDS TCPServer, FiniteSetTheorems, SequenceTheorems, TLAPS

Final  == {"ok", "refused", "rejected"}
Places == {"none", "read", "write", "exit", "forget", "leave", "done"}
Links  == {"away", "backlog", "hand", "open", "closed"}

ServerTypeOK ==
  /\ serve \in {"accept", "register", "backoff", "returned"}
  /\ closing \in BOOLEAN /\ shutdown \in {"none", "waiting", "nil", "expired"}
  /\ deadline \subseteq Clients /\ gone \subseteq Clients
  /\ link \in [Clients -> Links] /\ handler \in [Clients -> Places]
  /\ fetched \in [Clients -> Nat] /\ taken \in [Clients -> Nat]
  /\ sent \in [Clients -> Nat] /\ got \in [Clients -> Nat]
  /\ batch \in [Clients -> Seq(Final \cup {"admitted"})]
  /\ acks \in [Clients -> Seq(Final)]

Busy == {c \in Clients : handler[c] \notin {"none", "done"}}

\* The set, the wait group and the flags agree with where the handlers stand.
CountInv ==
  /\ wg = Cardinality(Busy)
  /\ conns = {c \in Clients : handler[c] \notin {"none", "leave", "done"}}
  /\ closing <=> shutdown # "none"
  /\ deadline # {} => closing
  /\ shutdown = "nil" => Busy = {}

\* A connection nobody handles has no history, and one that is closed under its
\* handler's hands was torn down by a Shutdown out of time.
PlaceInv(c) ==
  /\ link[c] \in {"away", "backlog", "hand"} => handler[c] = "none"
  /\ handler[c] = "none" =>
       /\ link[c] # "open" /\ fetched[c] = 0 /\ taken[c] = 0
       /\ batch[c] = <<>> /\ acks[c] = <<>>
  /\ handler[c] \in {"read", "write"} /\ link[c] = "closed" => shutdown = "expired"

RejectionLast(b) == \A i \in 1..(Len(b) - 1) : b[i] # "rejected"

\* The acks a and the verdicts b still to be written answer n frames.
Writing(a, b, n) ==
  /\ RejectionLast(b) /\ \A i \in 1..Len(b) : b[i] # "admitted"
  /\ Len(a) + Len(b) <= n
  /\ b # <<>> => ~Refused(a)
  /\ Len(a) + Len(b) = n \/ Refused(b) \/ (b = <<>> /\ Refused(a))

\* Every frame taken in is acked, in the batch, or behind a rejection.
AnswerInv(c) ==
  /\ Len(acks[c]) + Len(batch[c]) <= taken[c]
  /\ taken[c] <= fetched[c] /\ fetched[c] <= sent[c]
  /\ Len(batch[c]) <= MaxPipeline
  /\ RejectionLast(batch[c])
  /\ handler[c] = "read" =>
       Len(acks[c]) + Len(batch[c]) = taken[c] /\ ~Refused(acks[c])
  /\ handler[c] = "write" => Writing(acks[c], batch[c], taken[c])
  /\ handler[c] \in {"exit", "forget", "leave", "done"} =>
       \/ Len(acks[c]) = taken[c] \/ Refused(acks[c])
       \/ c \in gone \/ shutdown = "expired"

ServerInv ==
  /\ ServerTypeOK /\ CountInv
  /\ \A c \in Clients : PlaceInv(c) /\ AnswerInv(c)

-----------------------------------------------------------------------------
(* Sequences.                                                                *)

\* The first element goes from the batch to the acks.
LEMMA HeadMoves ==
  ASSUME NEW S, NEW b \in Seq(S), b # <<>>
  PROVE  /\ Head(b) \in S /\ Head(b) = b[1] /\ Tail(b) \in Seq(S)
         /\ Len(b) \in Nat \ {0} /\ Len(Tail(b)) = Len(b) - 1
         /\ \A i \in 1..(Len(b) - 1) : Tail(b)[i] = b[i + 1]
PROOF BY HeadTailProperties, EmptySeq, LenProperties

\* What Append returns.
LEMMA Appended ==
  ASSUME NEW S, NEW s \in Seq(S), NEW e \in S
  PROVE  /\ Append(s, e) \in Seq(S) /\ Append(s, e) # <<>>
         /\ Len(s) \in Nat /\ Len(Append(s, e)) = Len(s) + 1
         /\ Append(s, e)[Len(s) + 1] = e
         /\ \A i \in 1..Len(s) : Append(s, e)[i] = s[i]
PROOF BY AppendProperties, LenProperties

\* What Confirm makes of a batch: verdicts that are final, one per frame or up to
\* the order the ring gave up on.
LEMMA Confirmed ==
  ASSUME NEW b \in Seq(Final \cup {"admitted"}), RejectionLast(b),
         NEW r \in Confirmations(b)
  PROVE  /\ r \in Seq(Final \cup {"admitted"})
         /\ RejectionLast(r) /\ Len(r) <= Len(b)
         /\ \A i \in 1..Len(r) : r[i] # "admitted"
         /\ Len(r) = Len(b) \/ Refused(r)
<1> DEFINE ok == [i \in DOMAIN b |-> IF b[i] = "admitted" THEN "ok" ELSE b[i]]
<1>1. /\ ok \in Seq(Final \cup {"admitted"}) /\ Len(ok) = Len(b) /\ Len(b) \in Nat
      /\ DOMAIN b = 1..Len(b)
  <2>1. Len(b) \in Nat /\ DOMAIN b = 1..Len(b)
    BY LenProperties
  <2>2. \A i \in 1..Len(b) : b[i] \in Final \cup {"admitted"}
    BY ElementOfSeq
  <2>3. ok \in [1..Len(b) -> Final \cup {"admitted"}]
    BY <2>1, <2>2 DEF Final
  <2> QED BY <2>1, <2>3, IsASeq, LenProperties
<1>2. \A i \in 1..Len(b) : /\ ok[i] # "admitted" /\ (ok[i] = "rejected" <=> b[i] = "rejected")
  BY <1>1
<1> HIDE DEF ok
<1>3. CASE r = ok
  BY <1>1, <1>2, <1>3 DEF RejectionLast
<1>4. ASSUME NEW i \in DOMAIN b, b[i] = "admitted",
             r = Append(SubSeq(ok, 1, i - 1), "rejected")
      PROVE  /\ r \in Seq(Final \cup {"admitted"})
             /\ RejectionLast(r) /\ Len(r) <= Len(b)
             /\ \A j \in 1..Len(r) : r[j] # "admitted"
             /\ Len(r) = Len(b) \/ Refused(r)
  <2> DEFINE s == SubSeq(ok, 1, i - 1)
  <2>1. i \in 1..Len(b)
    BY <1>1
  <2>2. s \in Seq(Final \cup {"admitted"}) /\ Len(s) = i - 1
        /\ \A j \in 1..(i - 1) : s[j] = ok[j]
    BY <1>1, <2>1, SubSeqProperties
  <2> HIDE DEF s
  <2>3. r = Append(s, "rejected")
    BY <1>4 DEF s
  <2>4. /\ r \in Seq(Final \cup {"admitted"}) /\ Len(r) = i /\ r[i] = "rejected" /\ r # <<>>
        /\ \A j \in 1..(i - 1) : r[j] = ok[j]
    <3>1. "rejected" \in Final \cup {"admitted"}
      BY DEF Final
    <3> QED BY <1>1, <2>1, <2>2, <2>3, <3>1, Appended
  <2>5. \A j \in 1..(i - 1) : r[j] # "admitted" /\ r[j] # "rejected"
    BY <1>1, <1>2, <2>1, <2>4 DEF RejectionLast
  <2>6. RejectionLast(r)
    BY <1>1, <2>1, <2>4, <2>5 DEF RejectionLast
  <2>7. \A j \in 1..Len(r) : r[j] # "admitted"
    BY <1>1, <2>1, <2>4, <2>5
  <2>8. Refused(r) /\ Len(r) <= Len(b)
    BY <1>1, <2>1, <2>4 DEF Refused
  <2> QED BY <2>4, <2>6, <2>7, <2>8
<1> QED BY <1>3, <1>4 DEF Confirmations, ok

\* One moved from one account to the other.
LEMMA OneMoved == \A k \in Nat, l \in Nat \ {0} : (k + 1) + (l - 1) = k + l
PROOF OBVIOUS

\* Writing the first verdict of a batch keeps the account of frames and acks.
LEMMA HeadAnswered ==
  ASSUME NEW a \in Seq(Final), NEW b \in Seq(Final \cup {"admitted"}), NEW n \in Nat,
         b # <<>>, Writing(a, b, n)
  PROVE  /\ Append(a, Head(b)) \in Seq(Final) /\ Tail(b) \in Seq(Final \cup {"admitted"})
         /\ Len(Tail(b)) <= Len(b) /\ Writing(Append(a, Head(b)), Tail(b), n)
<1> DEFINE x == Append(a, Head(b))
           y == Tail(b)
<1>1. /\ Head(b) = b[1] /\ Head(b) \in Final \cup {"admitted"}
      /\ y \in Seq(Final \cup {"admitted"})
      /\ Len(b) \in Nat \ {0} /\ Len(y) = Len(b) - 1
      /\ \A i \in 1..(Len(b) - 1) : y[i] = b[i + 1]
  BY HeadMoves
<1>2. Head(b) \in Final
  BY <1>1 DEF Writing
<1>3. /\ x \in Seq(Final) /\ x # <<>> /\ Len(a) \in Nat
      /\ Len(x) = Len(a) + 1 /\ x[Len(a) + 1] = b[1]
  BY <1>1, <1>2, Appended
<1> HIDE DEF x, y
<1>4. y = <<>> <=> Len(b) = 1
  BY <1>1, EmptySeq, SMTT(20)
<1>5. Len(x) + Len(y) = Len(a) + Len(b)
  BY <1>1, <1>3, OneMoved
<1>6. RejectionLast(y)
  BY <1>1 DEF Writing, RejectionLast
<1>7. \A i \in 1..Len(y) : y[i] # "admitted"
  BY <1>1 DEF Writing
<1>8. Refused(x) <=> b[1] = "rejected"
  BY <1>3 DEF Refused
<1>9. y # <<>> => b[1] # "rejected"
  BY <1>1, <1>4 DEF Writing, RejectionLast
<1>10. Len(x) + Len(y) = n \/ Refused(y) \/ (y = <<>> /\ Refused(x))
  <2>1. CASE Len(a) + Len(b) = n
    BY <1>5, <2>1
  <2>2. CASE Refused(b) /\ Len(b) = 1
    BY <1>4, <1>8, <2>2 DEF Refused
  <2>3. CASE Refused(b) /\ Len(b) # 1
    BY <1>1, <1>4, <2>3 DEF Refused
  <2> QED BY <1>1, <1>3, <2>1, <2>2, <2>3 DEF Writing
<1>11. Writing(x, y, n)
  BY <1>5, <1>6, <1>7, <1>8, <1>9, <1>10 DEF Writing
<1>12. Len(y) <= Len(b)
  BY <1>1
<1> QED BY <1>1, <1>3, <1>11, <1>12 DEF x, y

-----------------------------------------------------------------------------
(* Frames.                                                                   *)

\* What a step leaves alone keeps its invariant.
LEMMA Undisturbed ==
  ASSUME ServerTypeOK, ServerTypeOK', NEW d \in Clients, PlaceInv(d), AnswerInv(d),
         link'[d] = link[d], handler'[d] = handler[d], fetched'[d] = fetched[d],
         taken'[d] = taken[d], batch'[d] = batch[d], acks'[d] = acks[d],
         sent[d] <= sent'[d], gone \subseteq gone',
         shutdown = "expired" => shutdown' = "expired"
  PROVE  PlaceInv(d)' /\ AnswerInv(d)'
<1>1. fetched[d] \in Nat /\ sent[d] \in Nat /\ sent'[d] \in Nat
  BY DEF ServerTypeOK
<1>2. fetched[d] <= sent'[d]
  BY <1>1 DEF AnswerInv
<1>3. PlaceInv(d)'
  BY DEF PlaceInv
<1>4. AnswerInv(d)'
  BY <1>2 DEF AnswerInv, Writing, RejectionLast, Refused
<1> QED BY <1>3, <1>4

\* CountInv depends on where the handlers and Shutdown stand only.
LEMMA SameCount ==
  ASSUME CountInv, handler' = handler, conns' = conns, wg' = wg,
         shutdown' = shutdown, closing' = closing, deadline' = deadline
  PROVE  CountInv'
PROOF BY DEF CountInv, Busy

-----------------------------------------------------------------------------
(* The steps.                                                                *)

\* The server starts with no connection.
LEMMA InitHolds == Init => ServerInv
<1> SUFFICES ASSUME Init PROVE ServerInv
  OBVIOUS
<1>1. ServerTypeOK
  BY EmptySeq DEF Init, ServerTypeOK, Places, Links
<1>2. Busy = {} /\ Cardinality({}) = 0
  BY FS_EmptySet DEF Init, Busy
<1>3. CountInv
  BY <1>2 DEF Init, CountInv
<1>4. ASSUME NEW c \in Clients PROVE PlaceInv(c) /\ AnswerInv(c)
  <2>1. Len(<<>>) = 0 /\ MaxPipeline \in Nat
    BY TCPAssumption
  <2> QED BY <2>1 DEF Init, PlaceInv, AnswerInv, Writing, RejectionLast, Refused
<1> QED BY <1>1, <1>3, <1>4 DEF ServerInv

\* Whatever a client does keeps the invariant.
LEMMA ClientKeeps ==
  ASSUME ServerInv, NEW c \in Clients, Client(c)
  PROVE  ServerInv'
<1> USE DEF ServerInv, Client
<1>1. /\ link' \in [Clients -> Links] /\ sent' \in [Clients -> Nat]
      /\ got' \in [Clients -> Nat] /\ gone' \subseteq Clients
      /\ gone \subseteq gone' /\ \A d \in Clients : sent[d] <= sent'[d]
  <2>1. CASE Dial(c)
    BY <2>1 DEF ServerTypeOK, Dial, clientVars, Links
  <2>2. CASE Send(c)
    BY <2>2, SMTT(20) DEF ServerTypeOK, Send
  <2>3. CASE ReadAck(c)
    BY <2>3 DEF ServerTypeOK, ReadAck
  <2>4. CASE HangUp(c)
    BY <2>4 DEF ServerTypeOK, HangUp
  <2> QED BY <2>1, <2>2, <2>3, <2>4
<1>2. ServerTypeOK'
  BY <1>1 DEF ServerTypeOK, handlerVars
<1>3. CountInv'
  BY SameCount
<1>4. ASSUME NEW d \in Clients PROVE PlaceInv(d)' /\ AnswerInv(d)'
  <2>1. sent[d] <= sent'[d] /\ gone \subseteq gone'
    BY <1>1
  <2>2. CASE link'[d] = link[d]
    BY <1>2, <2>1, <2>2, Undisturbed DEF handlerVars
  <2>3. CASE link'[d] # link[d]
    <3>1. Dial(c) /\ d = c /\ link[c] = "away" /\ link'[c] = "backlog"
      BY <2>3 DEF Dial, Send, ReadAck, HangUp, ServerTypeOK
    <3>2. PlaceInv(d)'
      BY <3>1 DEF PlaceInv, handlerVars
    <3>3. AnswerInv(d)'
      BY <3>1 DEF AnswerInv, Writing, RejectionLast, Refused, handlerVars, Dial, clientVars
    <3> QED BY <3>2, <3>3
  <2> QED BY <2>2, <2>3
<1> QED BY <1>2, <1>3, <1>4

\* Serve moves no connection but the one in its hand, and registers it only while
\* Shutdown has not begun.
LEMMA ServeKeeps ==
  ASSUME ServerInv, Serve
  PROVE  ServerInv'
<1> USE DEF ServerInv, Serve
<1>1. CASE AcceptFails \/ BackoffOver \/ AcceptClosed
  <2>1. ServerTypeOK'
    BY <1>1 DEF ServerTypeOK, AcceptFails, BackoffOver, AcceptClosed, handlerVars, clientVars
  <2>2. CountInv'
    BY <1>1, SameCount DEF AcceptFails, BackoffOver, AcceptClosed
  <2>3. ASSUME NEW d \in Clients PROVE PlaceInv(d)' /\ AnswerInv(d)'
    <3>1. sent[d] <= sent'[d]
      BY DEF ServerTypeOK, clientVars
    <3> QED BY <1>1, <2>1, <3>1, Undisturbed
      DEF AcceptFails, BackoffOver, AcceptClosed, handlerVars, clientVars
  <2> QED BY <2>1, <2>2, <2>3
<1>2. ASSUME NEW c \in Clients, Accept(c)
      PROVE  ServerInv'
  <2> USE <1>2 DEF Accept
  <2>1. ServerTypeOK'
    BY DEF ServerTypeOK, handlerVars, clientVars, Links
  <2>2. CountInv'
    BY SameCount
  <2>3. ASSUME NEW d \in Clients PROVE PlaceInv(d)' /\ AnswerInv(d)'
    <3>1. sent[d] <= sent'[d]
      BY DEF ServerTypeOK, clientVars
    <3>2. CASE d # c
      BY <2>1, <3>1, <3>2, Undisturbed DEF ServerTypeOK, handlerVars, clientVars
    <3>3. CASE d = c
      <4>1. PlaceInv(d)'
        BY <3>3 DEF ServerTypeOK, PlaceInv, handlerVars
      <4>2. AnswerInv(d)'
        BY <3>3 DEF AnswerInv, Writing, RejectionLast, Refused, handlerVars, clientVars
      <4> QED BY <4>1, <4>2
    <3> QED BY <3>2, <3>3
  <2> QED BY <2>1, <2>2, <2>3
<1>3. ASSUME NEW c \in Clients, Register(c), closing
      PROVE  ServerInv'
  <2> USE <1>3 DEF Register
  <2>1. ServerTypeOK'
    BY DEF ServerTypeOK, handlerVars, clientVars, Links
  <2>2. CountInv'
    BY SameCount
  <2>3. ASSUME NEW d \in Clients PROVE PlaceInv(d)' /\ AnswerInv(d)'
    <3>1. sent[d] <= sent'[d]
      BY DEF ServerTypeOK, clientVars
    <3>2. CASE d # c
      BY <2>1, <3>1, <3>2, Undisturbed DEF ServerTypeOK, handlerVars, clientVars
    <3>3. CASE d = c
      <4>1. PlaceInv(d)'
        BY <3>3 DEF ServerTypeOK, PlaceInv, handlerVars
      <4>2. AnswerInv(d)'
        BY <3>3 DEF AnswerInv, Writing, RejectionLast, Refused, handlerVars, clientVars
      <4> QED BY <4>1, <4>2
    <3> QED BY <3>2, <3>3
  <2> QED BY <2>1, <2>2, <2>3
<1>4. ASSUME NEW c \in Clients, Register(c), ~closing
      PROVE  ServerInv'
  <2> USE <1>4 DEF Register
  <2>1. ServerTypeOK'
    BY DEF ServerTypeOK, handlerVars, clientVars, Links, Places
  <2>2. handler[c] = "none"
    BY DEF PlaceInv
  <2>3. CountInv'
    <3>1. IsFiniteSet(Busy) /\ c \notin Busy
      BY <2>2, TCPAssumption, FS_Subset DEF Busy
    <3>2. Busy' = Busy \cup {c}
      BY DEF Busy, ServerTypeOK
    <3>3. Cardinality(Busy') = Cardinality(Busy) + 1
      BY <3>1, <3>2, FS_AddElement
    <3>4. conns' = {d \in Clients : handler'[d] \notin {"none", "leave", "done"}}
      BY SMTT(20) DEF CountInv, ServerTypeOK
    <3> QED BY <3>3, <3>4 DEF CountInv
  <2>4. ASSUME NEW d \in Clients PROVE PlaceInv(d)' /\ AnswerInv(d)'
    <3>1. sent[d] <= sent'[d]
      BY DEF ServerTypeOK, clientVars
    <3>2. CASE d # c
      BY <2>1, <3>1, <3>2, Undisturbed, ZenonT(30) DEF ServerTypeOK, handlerVars, clientVars
    <3>3. CASE d = c
      <4>1. PlaceInv(d)'
        BY <3>3 DEF ServerTypeOK, PlaceInv, handlerVars
      <4>2. AnswerInv(d)'
        BY <2>2, <3>3
        DEF ServerTypeOK, PlaceInv, AnswerInv, Writing, RejectionLast, Refused, handlerVars, clientVars
      <4> QED BY <4>1, <4>2
    <3> QED BY <3>2, <3>3
  <2> QED BY <2>1, <2>3, <2>4
<1> QED BY <1>1, <1>2, <1>3, <1>4

\* Each step of Shutdown keeps the invariant.
LEMMA ShutdownKeeps ==
  ASSUME ServerInv, Shutdown
  PROVE  ServerInv'
<1> USE DEF ServerInv, Shutdown, restVars, Ends
<1>1. ServerTypeOK'
  BY DEF ServerTypeOK, CountInv, Begin, Return, Expire, handlerVars, clientVars, Links, Woken
<1>2. CountInv'
  <2>1. CASE Begin \/ Expire
    BY <2>1 DEF CountInv, Begin, Expire, Busy
  <2>2. CASE Return
    <3>1. IsFiniteSet(Busy)
      BY TCPAssumption, FS_Subset DEF Busy
    <3>2. Busy = {}
      BY <2>2, <3>1, FS_EmptySet DEF Return, CountInv
    <3> QED BY <2>2, <3>2 DEF CountInv, Return, Busy
  <2> QED BY <2>1, <2>2
<1>3. ASSUME NEW d \in Clients PROVE PlaceInv(d)' /\ AnswerInv(d)'
  <2>1. sent[d] <= sent'[d]
    BY DEF ServerTypeOK, clientVars
  <2>2. AnswerInv(d)'
    BY ZenonT(30)
      DEF AnswerInv, Writing, RejectionLast, Refused, handlerVars, clientVars, Begin, Return, Expire
  <2>3. PlaceInv(d)'
    BY DEF PlaceInv, ServerTypeOK, CountInv, handlerVars, Begin, Return, Expire
  <2> QED BY <2>2, <2>3
<1> QED BY <1>1, <1>2, <1>3

\* Until it forgets its connection a handler is in the set and in the wait group.
LEMMA StaysCounted ==
  ASSUME ServerTypeOK, CountInv, NEW c \in Clients,
         handler[c] \in {"read", "write", "exit"},
         NEW p \in {"read", "write", "exit", "forget"},
         handler' = [handler EXCEPT ![c] = p], conns' = conns, wg' = wg,
         shutdown' = shutdown, closing' = closing, deadline' = deadline
  PROVE  CountInv'
<1>1. Busy' = Busy
  BY DEF Busy, ServerTypeOK
<1>2. conns' = {d \in Clients : handler'[d] \notin {"none", "leave", "done"}}
  BY DEF CountInv, ServerTypeOK
<1> QED BY <1>1, <1>2 DEF CountInv

\* A handler touches nothing of another connection.
LEMMA OthersUndisturbed ==
  ASSUME ServerInv, ServerTypeOK', NEW c \in Clients, handleConnection(c),
         NEW d \in Clients \ {c}
  PROVE  PlaceInv(d)' /\ AnswerInv(d)'
<1>1. sent[d] <= sent'[d]
  BY DEF ServerInv, ServerTypeOK, handleConnection, clientVars
<1>2. /\ link'[d] = link[d] /\ handler'[d] = handler[d] /\ fetched'[d] = fetched[d]
      /\ taken'[d] = taken[d] /\ batch'[d] = batch[d] /\ acks'[d] = acks[d]
  <2> USE DEF ServerInv, ServerTypeOK
  <2>1. CASE Fetch(c) \/ ReadFails(c) \/ Admit(c)
    BY <2>1 DEF Fetch, ReadFails, Admit, GoTo, handlerVars
  <2>2. CASE Confirm(c) \/ Write(c) \/ Written(c) \/ WriteFails(c)
    BY <2>2 DEF Confirm, Write, Written, WriteFails, GoTo, handlerVars
  <2>3. CASE Exit(c) \/ Forget(c) \/ Leave(c)
    BY <2>3 DEF Exit, Forget, Leave, GoTo, handlerVars
  <2> QED BY <2>1, <2>2, <2>3 DEF handleConnection
<1> QED BY <1>1, <1>2, Undisturbed DEF ServerInv, handleConnection, clientVars

\* So a step keeps the invariant if it keeps the types, the counts and its own part.
LEMMA OwnPartSuffices ==
  ASSUME ServerInv, NEW c \in Clients, handleConnection(c),
         ServerTypeOK', CountInv', PlaceInv(c)', AnswerInv(c)'
  PROVE  ServerInv'
PROOF BY OthersUndisturbed DEF ServerInv

\* A frame fetched into the buffer keeps the invariant.
LEMMA FetchKeeps ==
  ASSUME ServerInv, NEW c \in Clients, handleConnection(c), Fetch(c)
  PROVE  ServerInv'
<1> USE DEF ServerInv, handleConnection, Fetch
<1>1. PICK n \in (fetched[c] + 1)..sent[c] : fetched' = [fetched EXCEPT ![c] = n]
  OBVIOUS
<1>2. n \in Nat /\ fetched[c] <= n /\ n <= sent[c]
  BY DEF ServerTypeOK
<1>3. ServerTypeOK'
  BY <1>1, <1>2 DEF ServerTypeOK, clientVars
<1>4. CountInv'
  BY SameCount
<1>5. PlaceInv(c)'
  BY DEF PlaceInv
<1>6. AnswerInv(c)'
  BY <1>1, <1>2 DEF ServerTypeOK, AnswerInv, Writing, RejectionLast, Refused, clientVars
<1> QED BY <1>3, <1>4, <1>5, <1>6, OwnPartSuffices

\* A read that fails keeps the invariant.
LEMMA ReadFailsKeeps ==
  ASSUME ServerInv, NEW c \in Clients, handleConnection(c), ReadFails(c)
  PROVE  ServerInv'
<1> USE DEF ServerInv, handleConnection, ReadFails, GoTo, handlerVars
<1>1. ServerTypeOK'
  BY DEF ServerTypeOK, clientVars, Places
<1>2. CountInv'
  BY StaysCounted
<1>3. PlaceInv(c)'
  BY DEF ServerTypeOK, PlaceInv
<1>4. Len(acks[c]) = taken[c]
  <2>1. Len(<<>>) = 0 /\ Len(acks[c]) \in Nat
    BY LenProperties DEF ServerTypeOK
  <2>2. Len(batch[c]) = 0 /\ taken[c] \in Nat
    BY <2>1 DEF ServerTypeOK
  <2>3. Len(acks[c]) + Len(batch[c]) = taken[c]
    BY DEF AnswerInv
  <2> QED BY <2>1, <2>2, <2>3
<1>5. AnswerInv(c)'
  BY <1>4 DEF ServerTypeOK, AnswerInv, Writing, RejectionLast, Refused, clientVars
<1> QED BY <1>1, <1>2, <1>3, <1>5, OwnPartSuffices

\* Admitting a frame keeps the invariant.
LEMMA AdmitKeeps ==
  ASSUME ServerInv, NEW c \in Clients, handleConnection(c), Admit(c)
  PROVE  ServerInv'
<1> USE DEF ServerInv, handleConnection, Admit
<1>1. PICK v \in {"admitted", "refused", "rejected"} :
        batch' = [batch EXCEPT ![c] = Append(@, v)]
  OBVIOUS
<1> DEFINE b == batch[c]
<1>2. b \in Seq(Final \cup {"admitted"}) /\ v \in Final \cup {"admitted"} /\ batch'[c] = Append(b, v)
  BY <1>1 DEF ServerTypeOK, Final
<1>3. /\ batch'[c] \in Seq(Final \cup {"admitted"}) /\ Len(b) \in Nat
      /\ Len(batch'[c]) = Len(b) + 1
      /\ \A i \in 1..Len(b) : batch'[c][i] = b[i]
  BY <1>2, Appended
<1>4. ServerTypeOK'
  <2>1. batch' = [batch EXCEPT ![c] = batch'[c]]
    BY <1>1, <1>2 DEF ServerTypeOK
  <2>2. batch' \in [Clients -> Seq(Final \cup {"admitted"})]
    BY <1>3, <2>1 DEF ServerTypeOK
  <2> QED BY <2>2, SMTT(20) DEF ServerTypeOK, clientVars
<1>5. CountInv'
  BY SameCount
<1>6. PlaceInv(c)'
  BY DEF PlaceInv
<1>7. RejectionLast(batch[c])'
  <2>1. \A i \in 1..Len(b) : b[i] # "rejected"
    <3>1. RejectionLast(b) /\ ~Refused(b)
      BY DEF AnswerInv, BatchComplete
    <3>2. b = <<>> => Len(b) = 0
      BY EmptySeq
    <3> QED BY <1>3, <3>1, <3>2 DEF RejectionLast, Refused
  <2> QED BY <1>3, <2>1 DEF RejectionLast
<1>8. AnswerInv(c)'
  <2>1. taken'[c] = taken[c] + 1 /\ taken[c] < fetched[c] /\ Len(b) # MaxPipeline
        /\ taken[c] \in Nat /\ fetched[c] \in Nat /\ MaxPipeline \in Nat /\ Len(acks[c]) \in Nat
    BY TCPAssumption, LenProperties DEF ServerTypeOK, Buffered, BatchComplete
  <2>2. Len(acks[c]) + Len(b) = taken[c] /\ ~Refused(acks[c]) /\ Len(b) <= MaxPipeline
    BY DEF AnswerInv
  <2>3. /\ Len(acks'[c]) + Len(batch'[c]) = taken'[c] /\ ~Refused(acks'[c])
        /\ Len(batch'[c]) <= MaxPipeline
    BY <1>3, <1>4, <2>1, <2>2 DEF ServerTypeOK
  <2>4. taken'[c] <= fetched'[c] /\ fetched'[c] <= sent'[c] /\ handler'[c] = "read"
    BY <1>4, <2>1 DEF ServerTypeOK, AnswerInv, clientVars
  <2> QED BY <1>4, <1>7, <2>1, <2>3, <2>4 DEF ServerTypeOK, AnswerInv, Refused
<1> QED BY <1>4, <1>5, <1>6, <1>8, OwnPartSuffices

\* Confirming a batch keeps the invariant.
LEMMA ConfirmKeeps ==
  ASSUME ServerInv, NEW c \in Clients, handleConnection(c), Confirm(c)
  PROVE  ServerInv'
<1> USE DEF ServerInv, handleConnection, Confirm, GoTo
<1>1. PICK r \in Confirmations(batch[c]) : batch' = [batch EXCEPT ![c] = r]
  OBVIOUS
<1>2. batch[c] \in Seq(Final \cup {"admitted"}) /\ RejectionLast(batch[c]) /\ batch'[c] = r
  BY <1>1 DEF ServerTypeOK, AnswerInv
<1>3. /\ r \in Seq(Final \cup {"admitted"}) /\ RejectionLast(r) /\ Len(r) <= Len(batch[c])
      /\ \A i \in 1..Len(r) : r[i] # "admitted"
      /\ Len(r) = Len(batch[c]) \/ Refused(r)
  BY <1>2, Confirmed
<1>4. ServerTypeOK'
  BY <1>1, <1>3 DEF ServerTypeOK, clientVars, Places
<1>5. CountInv'
  BY StaysCounted
<1>6. PlaceInv(c)'
  BY DEF PlaceInv, ServerTypeOK
<1>7. AnswerInv(c)'
  <2>1. Len(r) \in Nat /\ Len(batch[c]) \in Nat /\ Len(acks[c]) \in Nat /\ taken[c] \in Nat
        /\ MaxPipeline \in Nat
    BY <1>2, <1>3, TCPAssumption, LenProperties DEF ServerTypeOK
  <2>2. handler'[c] = "write" /\ acks' = acks /\ taken' = taken /\ fetched' = fetched
    BY DEF ServerTypeOK
  <2>3. RejectionLast(batch[c])'
    BY <1>2, <1>3 DEF RejectionLast
  <2>4. Len(acks[c]) + Len(batch'[c]) <= taken[c] /\ Len(batch'[c]) <= MaxPipeline
    <3>1. Len(acks[c]) + Len(batch[c]) <= taken[c] /\ Len(batch[c]) <= MaxPipeline
      BY DEF AnswerInv
    <3> QED BY <1>2, <1>3, <1>4, <2>1, <3>1 DEF ServerTypeOK
  <2>5. /\ \A i \in 1..Len(batch'[c]) : batch'[c][i] # "admitted"
        /\ ~Refused(acks[c])
        /\ Len(acks[c]) + Len(batch'[c]) = taken[c] \/ Refused(batch'[c])
    BY <1>2, <1>3, <2>1 DEF AnswerInv
  <2> QED BY <2>2, <2>3, <2>4, <2>5 DEF AnswerInv, Writing, Refused, clientVars
<1> QED BY <1>4, <1>5, <1>6, <1>7, OwnPartSuffices

\* Writing an ack keeps the invariant.
LEMMA WriteKeeps ==
  ASSUME ServerInv, NEW c \in Clients, handleConnection(c), Write(c)
  PROVE  ServerInv'
<1>1. /\ acks[c] \in Seq(Final) /\ batch[c] \in Seq(Final \cup {"admitted"})
      /\ taken[c] \in Nat /\ batch[c] # <<>>
      /\ acks'[c] = Append(acks[c], Head(batch[c])) /\ batch'[c] = Tail(batch[c])
  BY DEF ServerInv, ServerTypeOK, Write
<1>2. Writing(acks[c], batch[c], taken[c])
  BY DEF ServerInv, AnswerInv, Write
<1>3. /\ acks'[c] \in Seq(Final) /\ batch'[c] \in Seq(Final \cup {"admitted"})
      /\ Len(batch'[c]) <= Len(batch[c]) /\ Writing(acks'[c], batch'[c], taken[c])
  BY <1>1, <1>2, HeadAnswered
<1> USE DEF ServerInv, handleConnection, Write
<1>4. ServerTypeOK'
  BY <1>1, <1>3 DEF ServerTypeOK, clientVars
<1>5. CountInv'
  BY SameCount
<1>6. PlaceInv(c)'
  BY DEF PlaceInv
<1>7. Len(batch'[c]) <= MaxPipeline
  <2>1. /\ Len(batch[c]) \in Nat /\ Len(batch'[c]) \in Nat /\ MaxPipeline \in Nat
        /\ Len(batch[c]) <= MaxPipeline
    BY <1>1, <1>3, TCPAssumption, LenProperties DEF AnswerInv
  <2> QED BY <1>3, <1>4, <2>1 DEF ServerTypeOK
<1>8. AnswerInv(c)'
  BY <1>3, <1>7 DEF AnswerInv, Writing, clientVars
<1> QED BY <1>4, <1>5, <1>6, <1>8, OwnPartSuffices

\* The end of a batch keeps the invariant.
LEMMA WrittenKeeps ==
  ASSUME ServerInv, NEW c \in Clients, handleConnection(c), Written(c)
  PROVE  ServerInv'
<1> USE DEF ServerInv, handleConnection, Written, GoTo, handlerVars
<1>1. ServerTypeOK'
  BY DEF ServerTypeOK, clientVars, Places
<1>2. CountInv'
  BY StaysCounted
<1>3. PlaceInv(c)'
  BY DEF ServerTypeOK, PlaceInv
<1>4. AnswerInv(c)'
  <2>1. Len(<<>>) = 0 /\ Len(acks[c]) \in Nat /\ batch[c] = <<>>
    BY LenProperties DEF ServerTypeOK
  <2>2. handler'[c] = IF Refused(acks[c]) THEN "exit" ELSE "read"
    BY DEF ServerTypeOK
  <2> QED BY <2>1, <2>2 DEF ServerTypeOK, AnswerInv, Writing, RejectionLast, Refused, clientVars
<1> QED BY <1>1, <1>2, <1>3, <1>4, OwnPartSuffices

\* A write that fails keeps the invariant.
LEMMA WriteFailsKeeps ==
  ASSUME ServerInv, NEW c \in Clients, handleConnection(c), WriteFails(c)
  PROVE  ServerInv'
<1> USE DEF ServerInv, handleConnection, WriteFails, GoTo, handlerVars
<1>1. ServerTypeOK'
  BY DEF ServerTypeOK, clientVars, Places
<1>2. CountInv'
  BY StaysCounted
<1>3. PlaceInv(c)'
  BY DEF ServerTypeOK, PlaceInv
<1>4. AnswerInv(c)'
  BY DEF ServerTypeOK, PlaceInv, AnswerInv, Writing, RejectionLast, Refused, clientVars
<1> QED BY <1>1, <1>2, <1>3, <1>4, OwnPartSuffices

\* A handler on its way out keeps the invariant.
LEMMA ExitKeeps ==
  ASSUME ServerInv, NEW c \in Clients, handleConnection(c), Exit(c)
  PROVE  ServerInv'
<1> USE DEF ServerInv, handleConnection, Exit, GoTo, handlerVars
<1>1. ServerTypeOK'
  BY DEF ServerTypeOK, clientVars, Places, Links
<1>2. CountInv'
  BY StaysCounted
<1>3. PlaceInv(c)'
  BY DEF ServerTypeOK, PlaceInv
<1>4. AnswerInv(c)'
  BY DEF ServerTypeOK, AnswerInv, Writing, RejectionLast, Refused, clientVars
<1> QED BY <1>1, <1>2, <1>3, <1>4, OwnPartSuffices

\* A handler that leaves the set of connections keeps the invariant.
LEMMA ForgetKeeps ==
  ASSUME ServerInv, NEW c \in Clients, handleConnection(c), Forget(c)
  PROVE  ServerInv'
<1> USE DEF ServerInv, handleConnection, Forget, GoTo, handlerVars
<1>1. ServerTypeOK'
  BY DEF ServerTypeOK, clientVars, Places
<1>2. CountInv'
  <2>1. Busy' = Busy
    BY DEF Busy, ServerTypeOK
  <2>2. conns' = {d \in Clients : handler'[d] \notin {"none", "leave", "done"}}
    BY DEF CountInv, ServerTypeOK
  <2> QED BY <2>1, <2>2 DEF CountInv
<1>3. PlaceInv(c)'
  BY DEF ServerTypeOK, PlaceInv
<1>4. AnswerInv(c)'
  BY DEF ServerTypeOK, AnswerInv, Writing, RejectionLast, Refused, clientVars
<1> QED BY <1>1, <1>2, <1>3, <1>4, OwnPartSuffices

\* A handler that leaves the wait group keeps the invariant.
LEMMA LeaveKeeps ==
  ASSUME ServerInv, NEW c \in Clients, handleConnection(c), Leave(c)
  PROVE  ServerInv'
<1> USE DEF ServerInv, handleConnection, Leave, GoTo, handlerVars
<1>1. ServerTypeOK'
  BY DEF ServerTypeOK, clientVars, Places
<1>2. CountInv'
  <2>1. IsFiniteSet(Busy) /\ c \in Busy
    BY TCPAssumption, FS_Subset DEF Busy
  <2>2. Busy' = Busy \ {c}
    BY DEF Busy, ServerTypeOK
  <2>3. Cardinality(Busy') = Cardinality(Busy) - 1
    BY <2>1, <2>2, FS_RemoveElement
  <2>4. conns' = {d \in Clients : handler'[d] \notin {"none", "leave", "done"}}
    BY DEF CountInv, ServerTypeOK
  <2> QED BY <2>2, <2>3, <2>4 DEF CountInv
<1>3. PlaceInv(c)'
  BY DEF ServerTypeOK, PlaceInv
<1>4. AnswerInv(c)'
  BY DEF ServerTypeOK, AnswerInv, Writing, RejectionLast, Refused, clientVars
<1> QED BY <1>1, <1>2, <1>3, <1>4, OwnPartSuffices

\* Every step keeps the invariant.
LEMMA ServerInvStep ==
  ASSUME ServerInv, [Next]_vars
  PROVE  ServerInv'
<1>1. ASSUME NEW c \in Clients, handleConnection(c)
      PROVE  ServerInv'
  BY <1>1, FetchKeeps, ReadFailsKeeps, AdmitKeeps, ConfirmKeeps, WriteKeeps, WrittenKeeps,
     WriteFailsKeeps, ExitKeeps, ForgetKeeps, LeaveKeeps DEF handleConnection
<1>2. CASE UNCHANGED vars
  <2>1. ServerTypeOK'
    BY <1>2 DEF vars, handlerVars, clientVars, ServerInv, ServerTypeOK
  <2>2. CountInv'
    BY <1>2, SameCount DEF vars, ServerInv
  <2>3. ASSUME NEW d \in Clients PROVE PlaceInv(d)' /\ AnswerInv(d)'
    <3>1. sent[d] <= sent'[d]
      BY <1>2 DEF vars, clientVars, ServerInv, ServerTypeOK
    <3> QED BY <1>2, <2>1, <3>1, Undisturbed DEF vars, handlerVars, clientVars, ServerInv
  <2> QED BY <2>1, <2>2, <2>3 DEF ServerInv
<1> QED BY <1>1, <1>2, ClientKeeps, ServeKeeps, ShutdownKeeps DEF Next

-----------------------------------------------------------------------------
(* Theorems.                                                                 *)

\* The inductive invariant: handlers, wait group and set agree, and every frame taken
\* in is answered, in the batch or behind a rejection (tcp_server.go 112-290).
THEOREM ServerInvariantHolds == Spec => []ServerInv
<1>1. Init => ServerInv
  BY InitHolds
<1>2. ServerInv /\ [Next]_vars => ServerInv'
  BY ServerInvStep
<1> QED BY <1>1, <1>2, PTL DEF Spec

\* When Shutdown has returned nil no handler is at work, whenever Serve accepted its
\* last connection, and no order taken in is left without an ack but by its own
\* client or behind a rejection (tcp_server.go 132-160).
THEOREM GracefulShutdownIsQuiet == Spec => []GracefulMeansQuiet
<1>1. ServerInv => GracefulMeansQuiet
  <2> SUFFICES ASSUME ServerInv PROVE GracefulMeansQuiet
    OBVIOUS
  <2>1. ASSUME NEW c \in Clients
        PROVE  /\ Len(acks[c]) <= taken[c] /\ taken[c] <= fetched[c] /\ fetched[c] <= sent[c]
               /\ Len(batch[c]) <= MaxPipeline
    <3>1. Len(acks[c]) \in Nat /\ Len(batch[c]) \in Nat /\ taken[c] \in Nat
      BY LenProperties DEF ServerInv, ServerTypeOK
    <3>2. AnswerInv(c)
      BY DEF ServerInv
    <3>3. Len(acks[c]) + Len(batch[c]) <= taken[c]
      BY <3>2 DEF AnswerInv
    <3> QED BY <3>1, <3>2, <3>3 DEF ServerInv, ServerTypeOK, AnswerInv
  <2>2. ServerConsistent
    BY <2>1 DEF ServerConsistent, ServerInv, ServerTypeOK, CountInv, Busy
  <2>3. ASSUME shutdown = "nil"
        PROVE  /\ conns = {}
               /\ \A c \in Clients :
                    /\ handler[c] \in {"none", "done"}
                    /\ Len(acks[c]) = taken[c] \/ Refused(acks[c]) \/ c \in gone
    <3>1. \A c \in Clients : handler[c] \in {"none", "done"}
      BY <2>3 DEF ServerInv, CountInv, Busy
    <3>2. conns = {}
      BY <3>1 DEF ServerInv, CountInv
    <3>3. Len(<<>>) = 0
      BY EmptySeq
    <3> QED BY <2>3, <3>1, <3>2, <3>3 DEF ServerInv, PlaceInv, AnswerInv
  <2> QED BY <2>2, <2>3 DEF GracefulMeansQuiet
<1> QED BY <1>1, ServerInvariantHolds, PTL

-----------------------------------------------------------------------------
(* The contract.                                                             *)

WireStep == [Contract!WireNext]_(Contract!wireVars)

\* A client does not see who holds its connection.
Wired == [c \in Clients |->
            IF link[c] \in {"backlog", "hand"} THEN "open" ELSE link[c]]

\* A step that changes nothing a client sees is a stutter of Wire.
LEMMA Unseen ==
  ASSUME Wired' = Wired, (shutdown = "expired")' = (shutdown = "expired"),
         UNCHANGED <<gone, sent, taken, acks, got>>
  PROVE  WireStep
PROOF BY DEF WireStep, Wired, Contract!wireVars

\* The connections in S end, and nothing else that a client sees.
LEMMA ConnectionsEnd ==
  ASSUME NEW S \in SUBSET Clients,
         \A c \in S : Wired[c] = "open",
         Wired' = [c \in Clients |-> IF c \in S THEN "closed" ELSE Wired[c]],
         (shutdown = "expired")' \in {shutdown = "expired", TRUE},
         UNCHANGED <<gone, sent, taken, acks, got>>,
         \A c \in S : \/ (shutdown = "expired")' \/ Len(acks[c]) = taken[c]
                      \/ Refused(acks[c]) \/ c \in gone
  PROVE  WireStep
<1>1. S \in SUBSET {c \in Clients : Wired[c] = "open"}
  OBVIOUS
<1>2. \A c \in S : Contract!MayClose(c)
  BY DEF Contract!MayClose, Contract!Over, Refused
<1>3. Contract!Close
  BY <1>1, <1>2 DEF Contract!Close, Wired
<1> QED BY <1>3 DEF WireStep, Contract!WireNext, Contract!Serve

\* A step of a client is that step of Wire.
LEMMA ClientIsWired ==
  ASSUME ServerInv, NEW c \in Clients, Client(c)
  PROVE  WireStep
<1>1. shutdown' = shutdown /\ taken' = taken /\ acks' = acks /\ c \notin gone
      /\ link \in [Clients -> Links]
  BY DEF Client, handlerVars, ServerInv, ServerTypeOK
<1>2. CASE Dial(c)
  <2>1. Wired' = [Wired EXCEPT ![c] = "open"] /\ Wired[c] = "away"
    BY <1>1, <1>2 DEF Dial, Wired
  <2>2. Contract!Dial(c)
    BY <1>1, <1>2, <2>1 DEF Dial, clientVars, Wired, Contract!Dial
  <2> QED BY <2>2 DEF WireStep, Contract!WireNext
<1>3. CASE Send(c)
  <2>1. Wired' = Wired /\ Wired[c] # "away"
    BY <1>1, <1>3 DEF Send, Wired
  <2>2. Contract!Send(c)
    BY <1>1, <1>3, <2>1 DEF Send, Wired, Contract!Send
  <2> QED BY <2>2 DEF WireStep, Contract!WireNext
<1>4. CASE ReadAck(c)
  <2>1. Wired' = Wired
    BY <1>1, <1>4 DEF ReadAck, Wired
  <2>2. Contract!ReadAck(c)
    BY <1>1, <1>4, <2>1 DEF ReadAck, Wired, Contract!ReadAck
  <2> QED BY <2>2 DEF WireStep, Contract!WireNext
<1>5. CASE HangUp(c)
  <2>1. Wired' = Wired
    BY <1>1, <1>5 DEF HangUp, Wired
  <2>2. Contract!HangUp(c)
    BY <1>1, <1>5, <2>1 DEF HangUp, Wired, Contract!HangUp
  <2> QED BY <2>2 DEF WireStep, Contract!WireNext
<1> QED BY <1>2, <1>3, <1>4, <1>5 DEF Client

\* The accept loop makes no step that a client sees, but for closing a late connection.
LEMMA ServeIsWired ==
  ASSUME ServerInv, Serve
  PROVE  WireStep
<1>1. shutdown' = shutdown /\ UNCHANGED <<gone, sent, taken, acks, got>>
      /\ link \in [Clients -> Links]
  BY DEF Serve, handlerVars, clientVars, ServerInv, ServerTypeOK
<1>2. CASE AcceptFails \/ BackoffOver \/ AcceptClosed
  BY <1>1, <1>2, Unseen DEF AcceptFails, BackoffOver, AcceptClosed, Wired
<1>3. ASSUME NEW c \in Clients, Accept(c)
      PROVE  WireStep
  <2>1. Wired' = Wired
    BY <1>1, <1>3 DEF Accept, Wired
  <2> QED BY <1>1, <2>1, Unseen
<1>4. ASSUME NEW c \in Clients, Register(c), ~closing
      PROVE  WireStep
  <2>1. Wired' = Wired
    BY <1>1, <1>4 DEF Register, Wired
  <2> QED BY <1>1, <2>1, Unseen
<1>5. ASSUME NEW c \in Clients, Register(c), closing
      PROVE  WireStep
  <2>1. /\ Wired[c] = "open"
        /\ Wired' = [d \in Clients |-> IF d \in {c} THEN "closed" ELSE Wired[d]]
    BY <1>1, <1>5 DEF Register, Wired
  <2>2. Len(acks[c]) = taken[c]
    <3>1. acks[c] = <<>> /\ taken[c] = 0
      BY <1>5 DEF Register, ServerInv, PlaceInv
    <3> QED BY <3>1, EmptySeq
  <2>3. PICK S \in SUBSET Clients : S = {c}
    OBVIOUS
  <2>4. /\ \A d \in S : Wired[d] = "open" /\ Len(acks[d]) = taken[d]
        /\ Wired' = [d \in Clients |-> IF d \in S THEN "closed" ELSE Wired[d]]
        /\ (shutdown = "expired")' \in {shutdown = "expired", TRUE}
    BY <1>1, <2>1, <2>2, <2>3
  <2> QED BY <1>1, <2>4, ConnectionsEnd
<1> QED BY <1>2, <1>3, <1>4, <1>5 DEF Serve

\* Shutdown closes connections only when its time is out.
LEMMA ShutdownIsWired ==
  ASSUME ServerInv, Shutdown
  PROVE  WireStep
<1>1. UNCHANGED <<gone, sent, taken, acks, got>> /\ link \in [Clients -> Links]
      /\ conns \subseteq Clients
  BY DEF Shutdown, Ends, restVars, handlerVars, clientVars, ServerInv, ServerTypeOK, CountInv
<1>2. CASE Begin
  <2> DEFINE S == {c \in Clients : link[c] = "backlog"}
  <2>1. Wired' = [c \in Clients |-> IF c \in S THEN "closed" ELSE Wired[c]]
        /\ \A c \in S : Wired[c] = "open"
    BY <1>1, <1>2 DEF Begin, Wired
  <2>2. \A c \in S : Len(acks[c]) = taken[c]
    <3>1. \A c \in S : acks[c] = <<>> /\ taken[c] = 0
      BY DEF ServerInv, PlaceInv
    <3> QED BY <3>1, EmptySeq
  <2>3. (shutdown = "expired")' = (shutdown = "expired")
    BY <1>2 DEF Begin
  <2> HIDE DEF S
  <2>4. S \in SUBSET Clients
    BY DEF S
  <2> QED BY <1>1, <2>1, <2>2, <2>3, <2>4, ConnectionsEnd
<1>3. CASE Return
  <2>1. Wired' = Wired /\ (shutdown = "expired")' = (shutdown = "expired")
    BY <1>3 DEF Return, Wired
  <2> QED BY <1>1, <2>1, Unseen
<1>4. CASE Expire
  <2> DEFINE S == {c \in conns : Wired[c] = "open"}
  <2>1. Wired' = [c \in Clients |-> IF c \in S THEN "closed" ELSE Wired[c]]
    <3>1. \A c \in conns : link[c] \in {"open", "closed"}
      BY <1>1 DEF ServerInv, CountInv, PlaceInv, Links
    <3> QED BY <1>1, <1>4, <3>1 DEF Expire, Wired
  <2>2. (shutdown = "expired")' = TRUE
    BY <1>4 DEF Expire
  <2>3. \A c \in S : Wired[c] = "open"
    OBVIOUS
  <2> HIDE DEF S
  <2>4. S \in SUBSET Clients
    BY <1>1 DEF S
  <2> QED BY <1>1, <2>1, <2>2, <2>3, <2>4, ConnectionsEnd
<1> QED BY <1>2, <1>3, <1>4 DEF Shutdown, Ends

\* A handler takes frames and answers them as Wire allows.
LEMMA HandlerIsWired ==
  ASSUME ServerInv, NEW c \in Clients, handleConnection(c)
  PROVE  WireStep
<1>1. shutdown' = shutdown /\ UNCHANGED <<gone, sent, got>>
      /\ link \in [Clients -> Links] /\ taken \in [Clients -> Nat]
      /\ PlaceInv(c) /\ AnswerInv(c)
  BY DEF handleConnection, clientVars, ServerInv, ServerTypeOK
<1>2. CASE Fetch(c) \/ ReadFails(c) \/ Confirm(c) \/ Written(c) \/ WriteFails(c)
           \/ Forget(c) \/ Leave(c)
  <2>1. link' = link /\ taken' = taken /\ acks' = acks
    BY <1>2 DEF Fetch, ReadFails, Confirm, Written, WriteFails, Forget, Leave, handlerVars
  <2>2. Wired' = Wired
    BY <2>1 DEF Wired
  <2> QED BY <1>1, <2>1, <2>2, Unseen
<1>3. CASE Admit(c)
  <2>1. taken[c] < sent[c]
    BY <1>1, <1>3 DEF Admit, Buffered, AnswerInv, ServerInv, ServerTypeOK
  <2>2. ~Contract!Over(c)
    BY <1>1, <1>3 DEF Admit, AnswerInv, Refused, Contract!Over
  <2>3. Contract!Take(c)
    BY <1>1, <1>3, <2>1, <2>2 DEF Admit, Contract!Take
  <2> QED BY <2>3 DEF WireStep, Contract!WireNext, Contract!Serve
<1>4. CASE Write(c)
  <2>1. link[c] = "open" /\ UNCHANGED <<link, taken>>
    BY <1>4 DEF Write
  <2>2. ~Contract!Over(c)
    BY <1>1, <1>4 DEF Write, AnswerInv, Writing, Refused, Contract!Over
  <2>3. Len(acks[c]) < taken[c]
    <3>1. /\ Len(batch[c]) \in Nat \ {0} /\ Len(acks[c]) \in Nat
          /\ acks \in [Clients -> Seq(Final)]
          /\ batch \in [Clients -> Seq(Final \cup {"admitted"})]
      BY <1>4, EmptySeq, LenProperties DEF Write, ServerInv, ServerTypeOK
    <3>2. Len(acks[c]) + Len(batch[c]) <= taken[c]
      BY <1>1 DEF AnswerInv
    <3> QED BY <1>1, <3>1, <3>2
  <2>4. PICK v \in Final : acks' = [acks EXCEPT ![c] = Append(@, v)]
    <3>1. batch[c] \in Seq(Final \cup {"admitted"}) /\ batch[c] # <<>>
          /\ \A i \in 1..Len(batch[c]) : batch[c][i] # "admitted"
      BY <1>1, <1>4 DEF Write, ServerInv, ServerTypeOK, AnswerInv, Writing
    <3>2. Head(batch[c]) \in Final \cup {"admitted"} /\ Head(batch[c]) = batch[c][1]
          /\ 1 \in 1..Len(batch[c])
      BY <3>1, HeadMoves
    <3>3. Head(batch[c]) \in Final
      BY <3>1, <3>2
    <3> QED BY <1>4, <3>3 DEF Write
  <2>5. Contract!Answer(c)
    BY <1>1, <2>1, <2>2, <2>3, <2>4 DEF Contract!Answer, Contract!Verdicts, Final
  <2> QED BY <2>5 DEF WireStep, Contract!WireNext, Contract!Serve
<1>5. CASE Exit(c)
  <2>1. link' = [link EXCEPT ![c] = "closed"] /\ UNCHANGED <<taken, acks>>
        /\ handler[c] = "exit"
    BY <1>5 DEF Exit, handlerVars
  <2>2. link[c] \in {"open", "closed"}
    BY <1>1, <2>1 DEF PlaceInv, Links
  <2>3. CASE link[c] = "closed"
    <3>1. Wired' = Wired
      BY <1>1, <2>1, <2>3 DEF Wired
    <3> QED BY <1>1, <2>1, <3>1, Unseen
  <2>4. CASE link[c] = "open"
    <3>1. /\ Wired[c] = "open"
          /\ Wired' = [d \in Clients |-> IF d \in {c} THEN "closed" ELSE Wired[d]]
      BY <1>1, <2>1, <2>4 DEF Wired
    <3>2. \/ Len(acks[c]) = taken[c] \/ Refused(acks[c])
          \/ c \in gone \/ shutdown = "expired"
      BY <1>1, <2>1 DEF AnswerInv
    <3>3. PICK S \in SUBSET Clients : S = {c}
      OBVIOUS
    <3>4. /\ Wired' = [d \in Clients |-> IF d \in S THEN "closed" ELSE Wired[d]]
          /\ (shutdown = "expired")' \in {shutdown = "expired", TRUE}
      BY <1>1, <3>1, <3>3
    <3>5. \A d \in S : Wired[d] = "open"
      BY <3>1, <3>3
    <3>6. \A d \in S : \/ (shutdown = "expired")' \/ Len(acks[d]) = taken[d]
                      \/ Refused(acks[d]) \/ d \in gone
      BY <1>1, <3>2, <3>3 DEF Refused
    <3> QED BY <1>1, <2>1, <3>4, <3>5, <3>6, ConnectionsEnd
  <2> QED BY <2>2, <2>3, <2>4
<1> QED BY <1>2, <1>3, <1>4, <1>5 DEF handleConnection

\* The server keeps what tcp_server.go 20-34 and 132-138 say a client may rely on: one
\* ack per frame in the order of the frames, nothing after a rejection, and no
\* connection that ends while its client is owed an ack, but by a shutdown out of time.
THEOREM ServerKeepsContract == Spec => ImplementsWire
<1>1. Init => Contract!WireInit
  <2> SUFFICES ASSUME Init PROVE Contract!WireInit
    OBVIOUS
  <2>1. Wired = [c \in Clients |-> "away"]
    BY DEF Init, Wired
  <2> QED BY <2>1 DEF Init, Wired, Contract!WireInit
<1>2. ServerInv /\ [Next]_vars => WireStep
  <2>1. CASE UNCHANGED vars
    <3>1. UNCHANGED <<link, shutdown, gone, sent, taken, acks, got>>
      BY <2>1 DEF vars, handlerVars, clientVars
    <3> QED BY <3>1, Unseen DEF Wired
  <2> QED BY <2>1, ClientIsWired, ServeIsWired, ShutdownIsWired, HandlerIsWired DEF Next
<1> QED BY <1>1, <1>2, ServerInvariantHolds, PTL
    DEF Spec, ImplementsWire, Contract!WireSpec, WireStep
=============================================================================
