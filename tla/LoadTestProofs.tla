--------------------------- MODULE LoadTestProofs ---------------------------
(***************************************************************************)
(* Proofs about the load client, for any number of orders, connections and *)
(* any window, on any server that keeps the contract Wire: what it reports *)
(* is what the server said, and exit code 0 means that every order is      *)
(* confirmed under an order_id of its own.                                 *)
(***************************************************************************)
EXTENDS LoadTest, Recursion, FiniteSetTheorems, SequenceTheorems

LoadTypes ==
  /\ window \in Nat
  /\ writer \in [Clients -> {"dial", "next", "flush", "failed", "await", "returned"}]
  /\ reader \in [Clients -> {"none", "read", "done"}]
  /\ put \in [Clients -> Nat] /\ sem \in [Clients -> Nat]
  /\ confirmed \in [Clients -> Nat] /\ rejected \in [Clients -> Nat]
  /\ err \in [Clients -> BOOLEAN]
  /\ sent \in [Clients -> Nat] /\ taken \in [Clients -> Nat] /\ got \in [Clients -> Nat]
  /\ acks \in [Clients -> Seq(Verdicts)]

\* An order is handed over, sent, taken, answered and reported, in that order.
Behind(c) ==
  /\ got[c] <= Len(acks[c]) /\ Len(acks[c]) <= taken[c] /\ taken[c] <= sent[c]
  /\ sent[c] <= put[c] /\ put[c] <= Share(c)

\* sem holds one place for each order in flight.
InFlight(c) == window > 0 => sem[c] = put[c] - got[c] /\ sem[c] <= window

\* The reader counts what it reads.
Counts(c) ==
  confirmed[c] = Cardinality(Oks(c, got[c])) /\ confirmed[c] + rejected[c] = got[c]

\* A reader is started by a connection that was made, has stopped when runConn
\* returns, and stops with an error or behind the last ack.
Ends(c) ==
  /\ writer[c] = "dial" => reader[c] = "none"
  /\ writer[c] = "returned" => reader[c] = "done" \/ (reader[c] = "none" /\ err[c])
  /\ reader[c] = "done" => err[c] \/ got[c] = Share(c)

\* Exit code 0 is given when every connection ended well.
ExitInv ==
  exitCode = "0" =>
    \A c \in Clients : writer[c] = "returned" /\ ~err[c] /\ rejected[c] = 0

ConnInv(c) == Behind(c) /\ InFlight(c) /\ Counts(c) /\ Ends(c)

LoadInv == LoadTypes /\ (\A c \in Clients : ConnInv(c)) /\ ExitInv

-----------------------------------------------------------------------------
(* The order_ids that main gives out.                                        *)

\* Connection c gets a full share, and one order more while there are some left over.
LEMMA SharesAre ==
  \E n \in 1..Total :
    /\ Clients = 0..n - 1
    /\ \A c \in Nat : Share(c) = Total \div n + (IF c < Total % n THEN 1 ELSE 0)
    /\ \A c \in Nat : Share(c) \in Nat
<1>1. PICK n \in 1..Total : Clients = 0..n - 1 BY LoadAssumption
<1>2. Total \in Nat /\ n \in Nat /\ n >= 1 BY LoadAssumption
<1>3. Cardinality(Clients) = n
  <2>1. 0 \in Int /\ n - 1 \in Int BY <1>2
  <2>2. Cardinality(0..n - 1) = IF 0 > n - 1 THEN 0 ELSE n - 1 - 0 + 1 BY <2>1, FS_Interval
  <2> QED BY <1>1, <1>2, <2>2
<1>4. \A c \in Nat : Share(c) = Total \div n + (IF c < Total % n THEN 1 ELSE 0)
  BY <1>3 DEF Share
<1>5. Total \div n \in Nat BY <1>2
<1>6. \A c \in Nat : Share(c) \in Nat BY <1>4, <1>5
<1> QED BY <1>1, <1>4, <1>6

\* `next` is 0 at first and each connection moves it by its share.
LEMMA FirstIdIs ==
  /\ FirstId[0] = 0
  /\ \A c \in Nat : FirstId[c] \in Nat /\ FirstId[c + 1] = FirstId[c] + Share(c)
<1> DEFINE F(f) == [c \in Nat |-> IF c = 0 THEN 0 ELSE f[c - 1] + Share(c - 1)]
           go == Nat \ {0}
           rank == [c \in Nat |-> c]
           succ == [c \in go |-> c - 1]
           base == [c \in Nat |-> 0]
           step == [x \in go \X Nat |-> x[2] + Share(x[1] - 1)]
<1>1. \A c \in Nat : Share(c) \in Nat BY SharesAre
<1>2. /\ rank \in [Nat -> Nat] /\ go \in SUBSET Nat /\ succ \in [go -> Nat]
      /\ base \in [Nat -> Nat]
  OBVIOUS
<1>3. step \in [go \X Nat -> Nat]
  <2> SUFFICES ASSUME NEW x \in go \X Nat PROVE x[2] + Share(x[1] - 1) \in Nat OBVIOUS
  <2>1. x[1] - 1 \in Nat /\ x[2] \in Nat OBVIOUS
  <2>2. Share(x[1] - 1) \in Nat BY <1>1, <2>1
  <2> QED BY <2>1, <2>2
<1>4. \A c \in go : rank[succ[c]] < rank[c] OBVIOUS
<1>5. PICK f \in [Nat -> Nat] : Solves(f, Nat, go, succ, base, step)
  <2> HIDE DEF F, go, rank, succ, base, step
  <2> QED BY <1>2, <1>3, <1>4, RecursionExists
<1>6. \A c \in go, r \in Nat : step[<<c, r>>] = r + Share(c - 1) OBVIOUS
<1>7. f = F(f)
  <2>1. F(f) = [c \in Nat |-> F(f)[c]] OBVIOUS
  <2>2. ASSUME NEW c \in Nat PROVE f[c] = F(f)[c]
    <3>1. f[c] = IF c \in go THEN step[<<c, f[succ[c]]>>] ELSE base[c] BY <1>5 DEF Solves
    <3>2. CASE c = 0
      <4>1. c \notin go /\ base[c] = 0 /\ F(f)[c] = 0 BY <3>2
      <4> HIDE DEF F, go, base, step
      <4> QED BY <3>1, <4>1
    <3>3. CASE c # 0
      <4>1. c \in go /\ succ[c] = c - 1 /\ f[c - 1] \in Nat BY <3>3
      <4>2. F(f)[c] = f[c - 1] + Share(c - 1) BY <3>3
      <4> HIDE DEF step, F, go, succ
      <4> QED BY <3>1, <4>1, <4>2, <1>6
    <3> QED BY <3>2, <3>3
  <2> HIDE DEF F
  <2> QED BY <2>1, <2>2
<1>8. FirstId = F(FirstId)
  <2>1. FirstId = CHOOSE u : u = F(u) BY DEF FirstId
  <2> HIDE DEF F
  <2> QED BY <1>7, <2>1
<1>9. FirstId[0] = 0 /\ \A c \in Nat : FirstId[c + 1] = FirstId[c] + Share(c)
  <2>1. /\ F(FirstId)[0] = 0
        /\ \A c \in Nat : F(FirstId)[c + 1] = FirstId[c] + Share(c)
    OBVIOUS
  <2> HIDE DEF F
  <2> QED BY <1>8, <2>1
<1> DEFINE T == {c \in Nat : FirstId[c] \in Nat}
<1>10. 0 \in T BY <1>9
<1>11. \A c \in T : c + 1 \in T BY <1>1, <1>9
<1>12. T = Nat
  <2> HIDE DEF T
  <2>1. T \in SUBSET Nat BY DEF T
  <2> QED BY <1>10, <1>11, <2>1, SetInduction
<1>13. \A c \in Nat : c \in T BY <1>12
<1> QED BY <1>9, <1>13

\* The ids of the first c connections.
IdsUpTo(c) == UNION {{FirstId[x] + k : k \in 1..Share(x)} : x \in 0..c - 1}

\* ... are the first FirstId[c] ones, none missing and none given twice.
LEMMA IdsAreNext == \A c \in Nat : IdsUpTo(c) = 1..FirstId[c]
<1> DEFINE T == {c \in Nat : IdsUpTo(c) = 1..FirstId[c]}
<1>1. 0 \in T
  <2>1. 0..0 - 1 = {} /\ 1..FirstId[0] = {} BY FirstIdIs
  <2> QED BY <2>1 DEF IdsUpTo
<1>2. ASSUME NEW c \in T PROVE c + 1 \in T
  <2> DEFINE mine == {FirstId[c] + k : k \in 1..Share(c)}
  <2>1. c \in Nat /\ IdsUpTo(c) = 1..FirstId[c] OBVIOUS
  <2>2. FirstId[c] \in Nat /\ FirstId[c + 1] = FirstId[c] + Share(c) BY <2>1, FirstIdIs
  <2>3. Share(c) \in Nat BY <2>1, SharesAre
  <2>4. IdsUpTo(c + 1) = IdsUpTo(c) \cup mine
    <3>1. 0..c + 1 - 1 = (0..c - 1) \cup {c} BY <2>1
    <3> QED BY <3>1 DEF IdsUpTo
  <2>5. mine = (FirstId[c] + 1)..(FirstId[c] + Share(c))
    <3>1. \A y \in mine : y \in (FirstId[c] + 1)..(FirstId[c] + Share(c)) BY <2>2, <2>3
    <3>2. ASSUME NEW y \in (FirstId[c] + 1)..(FirstId[c] + Share(c)) PROVE y \in mine
      <4>1. y - FirstId[c] \in 1..Share(c) /\ FirstId[c] + (y - FirstId[c]) = y BY <2>2, <2>3
      <4> QED BY <4>1
    <3> HIDE DEF mine
    <3> QED BY <3>1, <3>2
  <2> HIDE DEF mine
  <2>6. (1..FirstId[c]) \cup ((FirstId[c] + 1)..(FirstId[c] + Share(c)))
          = 1..(FirstId[c] + Share(c))
    BY <2>2, <2>3
  <2>7. IdsUpTo(c + 1) = 1..FirstId[c + 1] BY <2>1, <2>2, <2>4, <2>5, <2>6
  <2> QED BY <2>1, <2>7
<1>3. T = Nat
  <2> HIDE DEF T
  <2>1. T \in SUBSET Nat BY DEF T
  <2> QED BY <1>1, <1>2, <2>1, SetInduction
<1> QED BY <1>3

\* All of them together are Total.
LEMMA AllIds ==
  UNION {{FirstId[c] + k : k \in 1..Share(c)} : c \in Clients} = 1..Total
<1>1. PICK n \in 1..Total :
        /\ Clients = 0..n - 1
        /\ \A c \in Nat : Share(c) = Total \div n + (IF c < Total % n THEN 1 ELSE 0)
        /\ \A c \in Nat : Share(c) \in Nat
  BY SharesAre
<1>2. Total \in Nat /\ n \in Nat /\ n >= 1 BY LoadAssumption
<1> DEFINE d == Total \div n
           r == Total % n
<1>3. d \in Nat /\ r \in Nat /\ r < n /\ Total = n * d + r BY <1>2
<1>4. \A c \in Nat : Share(c) = d + (IF c < r THEN 1 ELSE 0) BY <1>1
<1> HIDE DEF d, r
<1> DEFINE T == {c \in Nat : FirstId[c] = c * d + (IF c < r THEN c ELSE r)}
<1>5. 0 \in T BY <1>3, FirstIdIs
<1>6. ASSUME NEW c \in T PROVE c + 1 \in T
  <2>1. c \in Nat /\ FirstId[c] = c * d + (IF c < r THEN c ELSE r) OBVIOUS
  <2>2. FirstId[c + 1] = FirstId[c] + (d + (IF c < r THEN 1 ELSE 0))
    BY <2>1, <1>4, FirstIdIs
  <2>3. (c + 1) * d = c * d + d /\ c * d \in Nat BY <1>3, <2>1
  <2> DEFINE m == c * d
  <2>4. (c + 1) * d = m + d /\ m \in Nat /\ FirstId[c] = m + (IF c < r THEN c ELSE r)
    BY <2>1, <2>3
  <2> HIDE DEF m
  <2>5. FirstId[c + 1] = m + d + (IF c + 1 < r THEN c + 1 ELSE r)
    BY <1>3, <2>1, <2>2, <2>4
  <2> QED BY <2>1, <2>4, <2>5
<1>7. T = Nat
  <2> HIDE DEF T
  <2>1. T \in SUBSET Nat BY DEF T
  <2> QED BY <1>5, <1>6, <2>1, SetInduction
<1>8. FirstId[n] = Total
  <2>1. n \in T BY <1>2, <1>7
  <2>2. ~(n < r) BY <1>2, <1>3
  <2> QED BY <1>3, <2>1, <2>2
<1>9. IdsUpTo(n) = 1..Total BY <1>2, <1>8, IdsAreNext
<1> QED BY <1>1, <1>9 DEF IdsUpTo

-----------------------------------------------------------------------------
(* LoadInv is inductive.                                                     *)

\* One more ack read is one more confirmation when it is "ok".
LEMMA OneMoreAck ==
  ASSUME NEW c \in Clients, NEW n \in Nat
  PROVE  /\ Cardinality(Oks(c, n)) \in Nat
         /\ Cardinality(Oks(c, n + 1)) =
              Cardinality(Oks(c, n)) + (IF acks[c][n + 1] = "ok" THEN 1 ELSE 0)
<1>1. IsFiniteSet(Oks(c, n))
  <2>1. 1 \in Int /\ n \in Int OBVIOUS
  <2>2. IsFiniteSet(1..n) BY <2>1, FS_Interval
  <2>3. Oks(c, n) \in SUBSET (1..n) BY DEF Oks
  <2> QED BY <2>2, <2>3, FS_Subset
<1>2. n + 1 \notin Oks(c, n) BY DEF Oks
<1>3. Cardinality(Oks(c, n)) \in Nat BY <1>1, FS_CardinalityType
<1>4. CASE acks[c][n + 1] = "ok"
  <2>1. Oks(c, n + 1) = Oks(c, n) \cup {n + 1} BY <1>4 DEF Oks
  <2>2. Cardinality(Oks(c, n) \cup {n + 1}) = Cardinality(Oks(c, n)) + 1
    BY <1>1, <1>2, FS_AddElement
  <2> QED BY <1>3, <1>4, <2>1, <2>2
<1>5. CASE acks[c][n + 1] # "ok"
  <2>1. Oks(c, n + 1) = Oks(c, n) BY <1>5 DEF Oks
  <2> QED BY <1>3, <1>5, <2>1
<1> QED BY <1>4, <1>5

\* The share of a connection is a number of orders.
LEMMA ShareIs == \A c \in Clients : Share(c) \in Nat
<1>1. PICK n \in 1..Total : Clients = 0..n - 1 /\ \A c \in Nat : Share(c) \in Nat BY SharesAre
<1> QED BY <1>1

\* Before anything is dialled nothing is in flight and nothing counted.
LEMMA LoadInitHasInv == ASSUME LoadInit PROVE LoadInv
<1>1. LoadTypes
  <2>1. window \in Nat BY LoadAssumption DEF LoadInit
  <2>2. acks \in [Clients -> Seq(Verdicts)] BY EmptySeq DEF LoadInit, WireInit
  <2> QED BY <2>1, <2>2 DEF LoadInit, WireInit, LoadTypes
<1>2. ASSUME NEW c \in Clients PROVE ConnInv(c)
  <2>1. /\ put[c] = 0 /\ sem[c] = 0 /\ sent[c] = 0 /\ taken[c] = 0 /\ got[c] = 0
        /\ acks[c] = <<>> /\ confirmed[c] = 0 /\ rejected[c] = 0
        /\ writer[c] = "dial" /\ reader[c] = "none"
    BY DEF LoadInit, WireInit
  <2>2. Len(<<>>) = 0 /\ Share(c) \in Nat /\ Share(c) >= 0 BY ShareIs
  <2>3. Behind(c) BY <2>1, <2>2 DEF Behind
  <2>4. InFlight(c)
    <3>1. window \in Nat BY <1>1 DEF LoadTypes
    <3> QED BY <2>1, <3>1 DEF InFlight
  <2>5. Oks(c, got[c]) = {} /\ Cardinality({}) = 0 BY <2>1, FS_EmptySet DEF Oks
  <2>6. Counts(c)
    <3>1. confirmed[c] + rejected[c] = got[c] BY <2>1
    <3>2. Cardinality(Oks(c, got[c])) = 0 BY <2>5
    <3> QED BY <2>1, <3>1, <3>2 DEF Counts
  <2> QED BY <2>1, <2>3, <2>4, <2>6 DEF ConnInv, Ends
<1>3. ExitInv BY DEF LoadInit, ExitInv
<1> QED BY <1>1, <1>2, <1>3 DEF LoadInv

\* What ConnInv(c) speaks of.
connOf(c) == <<window, writer[c], reader[c], put[c], sem[c], confirmed[c], rejected[c], err[c],
               sent[c], taken[c], got[c], acks[c]>>

\* A connection of which nothing changes keeps its invariant.
LEMMA OthersKeep ==
  ASSUME NEW c \in Clients, ConnInv(c), UNCHANGED connOf(c)
  PROVE  ConnInv(c)'
<1>1. /\ window' = window /\ writer'[c] = writer[c] /\ reader'[c] = reader[c]
      /\ put'[c] = put[c] /\ sem'[c] = sem[c] /\ confirmed'[c] = confirmed[c]
      /\ rejected'[c] = rejected[c] /\ err'[c] = err[c] /\ sent'[c] = sent[c]
      /\ taken'[c] = taken[c] /\ got'[c] = got[c] /\ acks'[c] = acks[c]
  BY DEF connOf
<1>2. Oks(c, got[c])' = Oks(c, got[c]) BY <1>1 DEF Oks
<1>3. Counts(c)' BY <1>1, <1>2 DEF ConnInv, Counts
<1>4. Behind(c)' BY <1>1 DEF ConnInv, Behind
<1>5. InFlight(c)' /\ Ends(c)' BY <1>1 DEF ConnInv, InFlight, Ends
<1> QED BY <1>3, <1>4, <1>5 DEF ConnInv

\* A step that touches connection c only keeps LoadInv when c keeps its invariant.
LEMMA OneConnection ==
  ASSUME LoadInv, NEW c \in Clients, ConnInv(c)', LoadTypes',
         \A x \in Clients \ {c} : UNCHANGED connOf(x),
         exitCode' = exitCode,
         writer[c] = "returned" => writer'[c] = "returned" /\ (~err[c] /\ reader[c] = "done" =>
                                     ~err'[c] /\ rejected'[c] = rejected[c])
  PROVE  LoadInv'
<1>1. \A x \in Clients : ConnInv(x)' BY OthersKeep DEF LoadInv
<1>2. ExitInv'
  <2> SUFFICES ASSUME exitCode = "0", NEW x \in Clients
               PROVE  writer'[x] = "returned" /\ ~err'[x] /\ rejected'[x] = 0
    BY DEF ExitInv
  <2>1. writer[x] = "returned" /\ ~err[x] /\ rejected[x] = 0 BY DEF LoadInv, ExitInv
  <2>2. reader[x] = "done" BY <2>1 DEF LoadInv, ConnInv, Ends
  <2>3. CASE x = c BY <2>1, <2>2, <2>3
  <2>4. CASE x # c
    <3>1. UNCHANGED connOf(x) BY <2>4
    <3> QED BY <2>1, <3>1 DEF connOf
  <2> QED BY <2>3, <2>4
<1> QED BY <1>1, <1>2 DEF LoadInv

\* What the client reads of a connection that keeps its invariant.
LEMMA ConnFacts ==
  ASSUME LoadInv, NEW c \in Clients
  PROVE  /\ Behind(c) /\ InFlight(c) /\ Counts(c) /\ Ends(c)
         /\ window \in Nat /\ put[c] \in Nat /\ sem[c] \in Nat /\ confirmed[c] \in Nat
         /\ rejected[c] \in Nat /\ err[c] \in BOOLEAN /\ sent[c] \in Nat
         /\ taken[c] \in Nat /\ got[c] \in Nat /\ acks[c] \in Seq(Verdicts)
         /\ Len(acks[c]) \in Nat /\ Share(c) \in Nat
<1>1. acks[c] \in Seq(Verdicts) BY DEF LoadInv, LoadTypes
<1>2. Len(acks[c]) \in Nat BY <1>1
<1> QED BY <1>1, <1>2, ShareIs DEF LoadInv, LoadTypes, ConnInv

\* One step of a writer.
LEMMA WriterKeeps ==
  ASSUME LoadInv, NEW c \in Clients, Writer(c)
  PROVE  LoadInv'
<1>1. /\ Behind(c) /\ InFlight(c) /\ Counts(c) /\ Ends(c)
      /\ window \in Nat /\ put[c] \in Nat /\ sem[c] \in Nat /\ confirmed[c] \in Nat
      /\ rejected[c] \in Nat /\ err[c] \in BOOLEAN /\ sent[c] \in Nat
      /\ taken[c] \in Nat /\ got[c] \in Nat /\ acks[c] \in Seq(Verdicts)
      /\ Len(acks[c]) \in Nat /\ Share(c) \in Nat
  BY ConnFacts
<1>2. LoadTypes BY DEF LoadInv
<1>3. /\ UNCHANGED <<window, confirmed, rejected, exitCode, got, acks, taken>>
      /\ Oks(c, got[c])' = Oks(c, got[c]) /\ Counts(c)'
  <2>1. UNCHANGED <<window, confirmed, rejected, exitCode, got, acks, taken>>
    BY DEF Writer, DialOk, DialFails, Put, SeesDone, SendFrame, WriteFails, Finish, ReaderDone,
           Returns, Dial, HangUp, Send, wireVars
  <2>2. Oks(c, got[c])' = Oks(c, got[c]) BY <2>1 DEF Oks
  <2> QED BY <1>1, <2>1, <2>2 DEF Counts
<1>4. CASE DialOk(c)
  <2>1. /\ writer[c] = "dial" /\ UNCHANGED <<sent, put, sem, err>>
        /\ writer' = [writer EXCEPT ![c] = "next"] /\ reader' = [reader EXCEPT ![c] = "read"]
    BY <1>4 DEF DialOk, GoTo, Dial
  <2>2. LoadTypes' BY <1>2, <1>3, <2>1 DEF LoadTypes
  <2>3. writer'[c] = "next" /\ reader'[c] = "read" BY <1>2, <2>1 DEF LoadTypes
  <2>4. ConnInv(c)' BY <1>1, <1>3, <2>1, <2>3 DEF ConnInv, Behind, InFlight, Ends
  <2>5. \A x \in Clients \ {c} : UNCHANGED connOf(x)
    BY <1>2, <1>3, <2>1 DEF connOf, LoadTypes
  <2>6. exitCode' = exitCode BY <1>3
  <2> QED BY <2>1, <2>2, <2>4, <2>5, <2>6, OneConnection
<1>5. CASE DialFails(c)
  <2>1. /\ writer[c] = "dial" /\ UNCHANGED <<sent, reader, put, sem>>
        /\ writer' = [writer EXCEPT ![c] = "returned"] /\ err' = [err EXCEPT ![c] = TRUE]
    BY <1>5 DEF DialFails, Returns, GoTo, HangUp
  <2>2. LoadTypes' BY <1>2, <1>3, <2>1 DEF LoadTypes
  <2>3. writer'[c] = "returned" /\ err'[c] BY <1>2, <2>1 DEF LoadTypes
  <2>4. ConnInv(c)' BY <1>1, <1>3, <2>1, <2>3 DEF ConnInv, Behind, InFlight, Ends
  <2>5. \A x \in Clients \ {c} : UNCHANGED connOf(x)
    BY <1>2, <1>3, <2>1 DEF connOf, LoadTypes
  <2>6. exitCode' = exitCode BY <1>3
  <2> QED BY <2>1, <2>2, <2>4, <2>5, <2>6, OneConnection
<1>6. CASE Put(c)
  <2> DEFINE place == IF window > 0 \/ put[c] - sent[c] = BufferRoom THEN "flush" ELSE "next"
             flight == IF window = 0 THEN sem[c] ELSE sem[c] + 1
  <2>1. /\ writer[c] = "next" /\ put[c] < Share(c) /\ (window = 0 \/ sem[c] < window)
        /\ UNCHANGED <<sent, reader, err>>
        /\ put' = [put EXCEPT ![c] = put[c] + 1] /\ sem' = [sem EXCEPT ![c] = flight]
        /\ writer' = [writer EXCEPT ![c] = place]
    BY <1>6 DEF Put, GoTo, wireVars
  <2>2. place \in {"flush", "next"} /\ flight \in Nat BY <1>1
  <2>3. /\ writer'[c] = place /\ put'[c] = put[c] + 1 /\ sem'[c] = flight
        /\ reader'[c] = reader[c] /\ err'[c] = err[c] /\ sent'[c] = sent[c]
    BY <1>2, <2>1 DEF LoadTypes
  <2>4. InFlight(c)' BY <1>1, <1>3, <2>1, <2>3, SMTT(20) DEF InFlight
  <2> HIDE DEF place, flight
  <2>5. LoadTypes'
    <3>1. put[c] + 1 \in Nat BY <1>1
    <3> QED BY <1>2, <1>3, <2>1, <2>2, <3>1 DEF LoadTypes
  <2>6. Behind(c)' BY <1>1, <1>3, <2>1, <2>3 DEF Behind
  <2>7. Ends(c)' BY <1>1, <1>3, <2>1, <2>2, <2>3 DEF Ends
  <2>8. ConnInv(c)' BY <1>3, <2>4, <2>6, <2>7 DEF ConnInv
  <2>9. \A x \in Clients \ {c} : UNCHANGED connOf(x)
    BY <1>2, <1>3, <2>1 DEF connOf, LoadTypes
  <2>10. exitCode' = exitCode /\ writer[c] # "returned" BY <1>3, <2>1
  <2> QED BY <2>5, <2>8, <2>9, <2>10, OneConnection
<1>7. CASE SeesDone(c)
  <2>1. /\ writer[c] = "next" /\ reader[c] = "done" /\ UNCHANGED <<sent, reader, put, sem>>
        /\ writer' = [writer EXCEPT ![c] = "returned"] /\ err' = [err EXCEPT ![c] = TRUE]
    BY <1>7 DEF SeesDone, Returns, GoTo, HangUp
  <2>2. LoadTypes' BY <1>2, <1>3, <2>1 DEF LoadTypes
  <2>3. writer'[c] = "returned" /\ err'[c] BY <1>2, <2>1 DEF LoadTypes
  <2>4. ConnInv(c)' BY <1>1, <1>3, <2>1, <2>3 DEF ConnInv, Behind, InFlight, Ends
  <2>5. \A x \in Clients \ {c} : UNCHANGED connOf(x)
    BY <1>2, <1>3, <2>1 DEF connOf, LoadTypes
  <2>6. exitCode' = exitCode BY <1>3
  <2> QED BY <2>1, <2>2, <2>4, <2>5, <2>6, OneConnection
<1>8. CASE SendFrame(c)
  <2> DEFINE place == IF sent[c] + 1 = put[c] THEN "next" ELSE "flush"
  <2>1. /\ writer[c] = "flush" /\ sent[c] < put[c] /\ UNCHANGED <<reader, put, sem, err>>
        /\ sent' = [sent EXCEPT ![c] = sent[c] + 1]
        /\ writer' = [writer EXCEPT ![c] = place]
    BY <1>8 DEF SendFrame, Send, GoTo
  <2>2. place \in {"flush", "next"} OBVIOUS
  <2> HIDE DEF place
  <2>3. writer'[c] = place /\ sent'[c] = sent[c] + 1 BY <1>2, <2>1 DEF LoadTypes
  <2>4. LoadTypes'
    <3>1. sent[c] + 1 \in Nat BY <1>1
    <3> QED BY <1>2, <1>3, <2>1, <2>2, <3>1 DEF LoadTypes
  <2>5. Behind(c)' BY <1>1, <1>3, <2>1, <2>3 DEF Behind
  <2>6. InFlight(c)' BY <1>1, <1>3, <2>1 DEF InFlight
  <2>7. Ends(c)' BY <1>1, <1>3, <2>1, <2>2, <2>3 DEF Ends
  <2>8. ConnInv(c)' BY <1>3, <2>5, <2>6, <2>7 DEF ConnInv
  <2>9. \A x \in Clients \ {c} : UNCHANGED connOf(x)
    BY <1>2, <1>3, <2>1 DEF connOf, LoadTypes
  <2>10. exitCode' = exitCode /\ writer[c] # "returned" BY <1>3, <2>1
  <2> QED BY <2>4, <2>8, <2>9, <2>10, OneConnection
<1>9. CASE WriteFails(c) \/ Finish(c)
  <2>1. PICK place \in {"failed", "flush", "await"} :
          /\ writer[c] \in {"next", "flush"} /\ UNCHANGED <<sent, reader, put, sem, err>>
          /\ writer' = [writer EXCEPT ![c] = place]
    <3>1. CASE WriteFails(c) BY <3>1 DEF WriteFails, GoTo, HangUp
    <3>2. CASE Finish(c)
      <4>1. (IF sent[c] < put[c] THEN "flush" ELSE "await") \in {"failed", "flush", "await"}
        OBVIOUS
      <4> QED BY <3>2, <4>1 DEF Finish, GoTo, wireVars
    <3> QED BY <1>9, <3>1, <3>2
  <2>2. writer'[c] = place BY <1>2, <2>1 DEF LoadTypes
  <2>3. LoadTypes' BY <1>2, <1>3, <2>1 DEF LoadTypes
  <2>4. ConnInv(c)' BY <1>1, <1>3, <2>1, <2>2 DEF ConnInv, Behind, InFlight, Ends
  <2>5. \A x \in Clients \ {c} : UNCHANGED connOf(x)
    BY <1>2, <1>3, <2>1 DEF connOf, LoadTypes
  <2>6. exitCode' = exitCode /\ writer[c] # "returned" BY <1>3, <2>1
  <2> QED BY <2>3, <2>4, <2>5, <2>6, OneConnection
<1>10. CASE ReaderDone(c)
  <2> DEFINE bad == err[c] \/ writer[c] = "failed"
  <2>1. /\ writer[c] \in {"failed", "await"} /\ reader[c] = "done"
        /\ UNCHANGED <<sent, reader, put, sem>>
        /\ writer' = [writer EXCEPT ![c] = "returned"] /\ err' = [err EXCEPT ![c] = bad]
    BY <1>10 DEF ReaderDone, Returns, GoTo, HangUp
  <2>2. bad \in BOOLEAN /\ (err[c] => bad) OBVIOUS
  <2> HIDE DEF bad
  <2>3. writer'[c] = "returned" /\ err'[c] = bad BY <1>2, <2>1 DEF LoadTypes
  <2>4. LoadTypes' BY <1>2, <1>3, <2>1, <2>2 DEF LoadTypes
  <2>5. Ends(c)' BY <1>1, <1>3, <2>1, <2>2, <2>3 DEF Ends
  <2>6. Behind(c)' /\ InFlight(c)' BY <1>1, <1>3, <2>1 DEF Behind, InFlight
  <2>7. ConnInv(c)' BY <1>3, <2>5, <2>6 DEF ConnInv
  <2>8. \A x \in Clients \ {c} : UNCHANGED connOf(x)
    BY <1>2, <1>3, <2>1 DEF connOf, LoadTypes
  <2>9. exitCode' = exitCode /\ writer[c] # "returned" BY <1>3, <2>1
  <2> QED BY <2>4, <2>7, <2>8, <2>9, OneConnection
<1> QED BY <1>4, <1>5, <1>6, <1>7, <1>8, <1>9, <1>10 DEF Writer

\* One step of a reader.
LEMMA ReaderKeeps ==
  ASSUME LoadInv, NEW c \in Clients, Reader(c)
  PROVE  LoadInv'
<1>1. /\ Behind(c) /\ InFlight(c) /\ Counts(c) /\ Ends(c)
      /\ window \in Nat /\ put[c] \in Nat /\ sem[c] \in Nat /\ confirmed[c] \in Nat
      /\ rejected[c] \in Nat /\ err[c] \in BOOLEAN /\ sent[c] \in Nat
      /\ taken[c] \in Nat /\ got[c] \in Nat /\ acks[c] \in Seq(Verdicts)
      /\ Len(acks[c]) \in Nat /\ Share(c) \in Nat
  BY ConnFacts
<1>2. LoadTypes BY DEF LoadInv
<1>3. UNCHANGED <<window, writer, put, exitCode, sent, taken, acks>> /\ reader[c] = "read"
  BY DEF Reader, ReadByte, ReadFails, ReadAck, wireVars
<1>4. writer[c] # "returned" BY <1>1, <1>3 DEF Ends
<1>5. CASE ReadByte(c)
  <2> DEFINE n == got[c] + 1
             flight == IF window = 0 THEN sem[c] ELSE sem[c] - 1
             place == IF got'[c] = Share(c) THEN "done" ELSE "read"
             one == IF acks[c][n] = "ok" THEN 1 ELSE 0
  <2>1. /\ got[c] < Len(acks[c]) /\ got' = [got EXCEPT ![c] = n]
        /\ (window = 0 \/ sem[c] > 0) /\ sem' = [sem EXCEPT ![c] = flight]
        /\ reader' = [reader EXCEPT ![c] = place] /\ UNCHANGED err
    BY <1>5 DEF ReadByte, ReadAck
  <2>2. got'[c] = n BY <1>2, <2>1 DEF LoadTypes
  <2>3. /\ confirmed' = [confirmed EXCEPT ![c] = confirmed[c] + one]
        /\ rejected' = [rejected EXCEPT ![c] = rejected[c] + (1 - one)]
    <3>1. /\ acks[c][n] = "ok" =>
               confirmed' = [confirmed EXCEPT ![c] = confirmed[c] + 1] /\ rejected' = rejected
          /\ acks[c][n] # "ok" =>
               rejected' = [rejected EXCEPT ![c] = rejected[c] + 1] /\ confirmed' = confirmed
      BY <1>5, <2>2 DEF ReadByte
    <3>2. confirmed \in [Clients -> Nat] /\ rejected \in [Clients -> Nat] BY <1>2 DEF LoadTypes
    <3>3. /\ [confirmed EXCEPT ![c] = confirmed[c] + 0] = confirmed
          /\ [rejected EXCEPT ![c] = rejected[c] + (1 - 1)] = rejected
      BY <1>1, <3>2
    <3> QED BY <3>1, <3>3
  <2>4. one \in {0, 1} /\ n \in Nat /\ place \in {"done", "read"} /\ flight \in Nat
        /\ confirmed[c] + one \in Nat /\ rejected[c] + (1 - one) \in Nat
    <3>1. one \in {0, 1} /\ place \in {"done", "read"} OBVIOUS
    <3>2. n \in Nat /\ confirmed[c] \in Nat /\ rejected[c] \in Nat /\ flight \in Nat
      BY <1>1, <2>1, SMTT(20)
    <3> HIDE DEF n, flight, place, one
    <3> QED BY <3>1, <3>2
  <2>5. /\ confirmed'[c] = confirmed[c] + one /\ rejected'[c] = rejected[c] + (1 - one)
        /\ sem'[c] = flight /\ reader'[c] = place
    BY <1>2, <2>1, <2>3 DEF LoadTypes
  <2>6. InFlight(c)'
    <3>1. window > 0 => sem'[c] = sem[c] - 1 BY <1>1, <2>5
    <3>2. window > 0 => sem[c] = put[c] - got[c] /\ sem[c] <= window BY <1>1 DEF InFlight
    <3>3. window' = window /\ put'[c] = put[c] /\ got'[c] = got[c] + 1 BY <1>3, <2>2
    <3> HIDE DEF n, flight, place, one
    <3>4. window > 0 => sem'[c] = put[c] - (got[c] + 1) /\ sem'[c] <= window
      BY <1>1, <3>1, <3>2, SMTT(20)
    <3> QED BY <3>3, <3>4 DEF InFlight
  <2>7. Ends(c)' BY <1>1, <1>3, <1>4, <2>1, <2>2, <2>5 DEF Ends
  <2>8. Counts(c)'
    <3>1. Oks(c, got[c])' = Oks(c, n) BY <1>3, <2>2 DEF Oks
    <3>2. Cardinality(Oks(c, n)) = Cardinality(Oks(c, got[c])) + one BY <1>1, OneMoreAck
    <3> HIDE DEF n, one
    <3>3. confirmed'[c] = Cardinality(Oks(c, n)) BY <1>1, <2>5, <3>2 DEF Counts
    <3>4. confirmed'[c] + rejected'[c] = got'[c]
      <4>1. confirmed[c] + rejected[c] = got[c] /\ got'[c] = got[c] + 1
        BY <1>1, <2>2 DEF Counts, n
      <4>2. \A x, y, z \in Int : (x + z) + (y + (1 - z)) = (x + y) + 1 OBVIOUS
      <4>3. confirmed[c] \in Int /\ rejected[c] \in Int /\ one \in Int BY <1>1, <2>4
      <4>4. (confirmed[c] + one) + (rejected[c] + (1 - one)) = (confirmed[c] + rejected[c]) + 1
        BY <4>2, <4>3
      <4> QED BY <2>5, <4>1, <4>4
    <3> QED BY <3>1, <3>3, <3>4 DEF Counts
  <2>9. Behind(c)' BY <1>1, <1>3, <2>1, <2>2 DEF Behind
  <2>10. ConnInv(c)' BY <2>6, <2>7, <2>8, <2>9 DEF ConnInv
  <2> HIDE DEF n, flight, place, one
  <2>11. LoadTypes' BY <1>2, <1>3, <2>1, <2>3, <2>4 DEF LoadTypes
  <2>12. \A x \in Clients \ {c} : UNCHANGED connOf(x)
    BY <1>2, <1>3, <2>1, <2>3 DEF connOf, LoadTypes
  <2>13. exitCode' = exitCode BY <1>3
  <2> QED BY <1>4, <2>10, <2>11, <2>12, <2>13, OneConnection
<1>6. CASE ReadFails(c)
  <2>1. /\ reader' = [reader EXCEPT ![c] = "done"] /\ err' = [err EXCEPT ![c] = TRUE]
        /\ UNCHANGED <<got, sem, confirmed, rejected>>
    BY <1>6 DEF ReadFails, wireVars
  <2>2. reader'[c] = "done" /\ err'[c] BY <1>2, <2>1 DEF LoadTypes
  <2>3. LoadTypes' BY <1>2, <1>3, <2>1 DEF LoadTypes
  <2>4. Oks(c, got[c])' = Oks(c, got[c]) BY <1>3, <2>1 DEF Oks
  <2>5. Counts(c)' BY <1>1, <2>1, <2>4 DEF Counts
  <2>6. ConnInv(c)'
    BY <1>1, <1>3, <1>4, <2>1, <2>2, <2>5 DEF ConnInv, Behind, InFlight, Ends
  <2>7. \A x \in Clients \ {c} : UNCHANGED connOf(x)
    BY <1>2, <1>3, <2>1 DEF connOf, LoadTypes
  <2>8. exitCode' = exitCode BY <1>3
  <2> QED BY <1>4, <2>3, <2>6, <2>7, <2>8, OneConnection
<1> QED BY <1>5, <1>6 DEF Reader

\* What a step of the server does, seen from the client: it only takes and answers more.
ServedMore ==
  /\ taken' \in [Clients -> Nat] /\ acks' \in [Clients -> Seq(Verdicts)]
  /\ \A c \in Clients : /\ taken[c] <= taken'[c] /\ taken'[c] <= sent[c]
                         /\ Len(acks[c]) <= Len(acks'[c]) /\ Len(acks'[c]) <= taken'[c]
                         /\ \A k \in 1..Len(acks[c]) : acks'[c][k] = acks[c][k]

\* One step of the server, whatever it does within the contract.
LEMMA ServerKeeps ==
  ASSUME LoadInv, Server
  PROVE  LoadInv'
<1>1. LoadTypes BY DEF LoadInv
<1>2. UNCHANGED <<window, writer, reader, put, sem, confirmed, rejected, err, exitCode, sent, got>>
  BY DEF Server, Serve, Close, Take, Answer, connVars
<1>3. ServedMore
  <2>1. \A c \in Clients : /\ taken[c] \in Nat /\ sent[c] \in Nat /\ acks[c] \in Seq(Verdicts)
                           /\ Len(acks[c]) \in Nat
                           /\ Len(acks[c]) <= taken[c] /\ taken[c] <= sent[c]
    BY ConnFacts DEF Behind
  <2>2. taken \in [Clients -> Nat] /\ acks \in [Clients -> Seq(Verdicts)] BY <1>1 DEF LoadTypes
  <2>3. CASE Close
    <3>1. UNCHANGED <<taken, acks>> BY <2>3 DEF Close
    <3> QED BY <2>1, <2>2, <3>1 DEF ServedMore
  <2>4. ASSUME NEW x \in Clients, Take(x)
        PROVE  ServedMore
    <3>1. taken[x] < sent[x] /\ taken' = [taken EXCEPT ![x] = taken[x] + 1] /\ acks' = acks
      BY <2>4 DEF Take
    <3>2. taken[x] + 1 \in Nat BY <2>1
    <3>3. taken' \in [Clients -> Nat] BY <2>2, <3>1, <3>2
    <3>4. taken'[x] = taken[x] + 1 /\ \A c \in Clients : c # x => taken'[c] = taken[c]
      BY <2>2, <3>1
    <3> QED BY <2>1, <2>2, <3>1, <3>3, <3>4 DEF ServedMore
  <2>5. ASSUME NEW x \in Clients, Answer(x)
        PROVE  ServedMore
    <3>1. PICK v \in Verdicts : acks' = [acks EXCEPT ![x] = Append(acks[x], v)]
      BY <2>5 DEF Answer
    <3>2. Len(acks[x]) < taken[x] /\ taken' = taken BY <2>5 DEF Answer
    <3> DEFINE a == Append(acks[x], v)
    <3>3. a \in Seq(Verdicts) /\ Len(a) = Len(acks[x]) + 1
          /\ \A k \in 1..Len(acks[x]) : a[k] = acks[x][k]
      BY <2>1
    <3> HIDE DEF a
    <3>4. acks' = [acks EXCEPT ![x] = a] BY <3>1 DEF a
    <3>5. acks' \in [Clients -> Seq(Verdicts)] BY <2>2, <3>3, <3>4
    <3>6. acks'[x] = a /\ \A c \in Clients : c # x => acks'[c] = acks[c] BY <2>2, <3>4
    <3> QED BY <2>1, <2>2, <3>2, <3>3, <3>5, <3>6 DEF ServedMore
  <2> QED BY <2>3, <2>4, <2>5 DEF Server, Serve
<1>4. LoadTypes' BY <1>1, <1>2, <1>3 DEF LoadTypes, ServedMore
<1>5. ASSUME NEW c \in Clients PROVE ConnInv(c)'
  <2>1. /\ Behind(c) /\ InFlight(c) /\ Counts(c) /\ Ends(c)
        /\ got[c] \in Nat /\ sent[c] \in Nat /\ put[c] \in Nat /\ taken[c] \in Nat
        /\ Len(acks[c]) \in Nat /\ Share(c) \in Nat
    BY ConnFacts
  <2>2. taken'[c] \in Nat /\ Len(acks'[c]) \in Nat
    <3>1. acks'[c] \in Seq(Verdicts) /\ taken'[c] \in Nat BY <1>3 DEF ServedMore
    <3> QED BY <3>1
  <2>3. /\ taken[c] <= taken'[c] /\ taken'[c] <= sent[c]
        /\ Len(acks[c]) <= Len(acks'[c]) /\ Len(acks'[c]) <= taken'[c]
        /\ \A k \in 1..Len(acks[c]) : acks'[c][k] = acks[c][k]
    BY <1>3 DEF ServedMore
  <2>4. Behind(c)' BY <1>2, <2>1, <2>2, <2>3 DEF Behind
  <2>5. Counts(c)'
    <3>1. \A k \in 1..got[c] : k \in 1..Len(acks[c]) BY <2>1 DEF Behind
    <3>2. Oks(c, got[c])' = Oks(c, got[c]) BY <1>2, <2>3, <3>1 DEF Oks
    <3> QED BY <1>2, <2>1, <3>2 DEF Counts
  <2>6. InFlight(c)' /\ Ends(c)' BY <1>2, <2>1 DEF InFlight, Ends
  <2> QED BY <2>4, <2>5, <2>6 DEF ConnInv
<1>6. ExitInv' BY <1>2 DEF LoadInv, ExitInv
<1> QED BY <1>4, <1>5, <1>6 DEF LoadInv

\* Every step of client, deadline, server and main keeps the invariant.
LEMMA LoadNextKeepsInv == ASSUME LoadInv, [LoadNext]_vars PROVE LoadInv'
<1>1. ASSUME NEW c \in Clients, Expire(c) PROVE LoadInv'
  <2>1. UNCHANGED <<window, writer, reader, put, sem, confirmed, rejected, err, exitCode, sent,
                    taken, got, acks>>
    BY <1>1 DEF Expire, wireVars, connVars
  <2>2. LoadTypes' /\ ExitInv' BY <2>1 DEF LoadInv, LoadTypes, ExitInv
  <2>3. \A x \in Clients : UNCHANGED connOf(x) BY <2>1 DEF connOf
  <2>4. \A x \in Clients : ConnInv(x)' BY <2>3, OthersKeep DEF LoadInv
  <2> QED BY <2>2, <2>4 DEF LoadInv
<1>2. CASE Exit
  <2>1. /\ UNCHANGED <<window, writer, reader, put, sem, confirmed, rejected, err, sent, taken,
                       got, acks>>
        /\ \A c \in Clients : writer[c] = "returned"
        /\ exitCode' = "0" => \A c \in Clients : ~err[c] /\ ~(rejected[c] > 0)
    BY <1>2 DEF Exit, wireVars, connVars
  <2>2. LoadTypes' BY <2>1 DEF LoadInv, LoadTypes
  <2>3. \A x \in Clients : UNCHANGED connOf(x) BY <2>1 DEF connOf
  <2>4. \A x \in Clients : ConnInv(x)' BY <2>3, OthersKeep DEF LoadInv
  <2>5. \A c \in Clients : rejected[c] \in Nat BY DEF LoadInv, LoadTypes
  <2>6. ExitInv' BY <2>1, <2>5 DEF ExitInv
  <2> QED BY <2>2, <2>4, <2>6 DEF LoadInv
<1>3. CASE UNCHANGED vars
  <2>1. UNCHANGED <<window, writer, reader, put, sem, confirmed, rejected, err, exitCode, sent,
                    taken, got, acks>>
    BY <1>3 DEF vars, wireVars, connVars
  <2>2. LoadTypes' /\ ExitInv' BY <2>1 DEF LoadInv, LoadTypes, ExitInv
  <2>3. \A x \in Clients : UNCHANGED connOf(x) BY <2>1 DEF connOf
  <2>4. \A x \in Clients : ConnInv(x)' BY <2>3, OthersKeep DEF LoadInv
  <2> QED BY <2>2, <2>4 DEF LoadInv
<1> QED BY <1>1, <1>2, <1>3, WriterKeeps, ReaderKeeps, ServerKeeps DEF LoadNext

\* The inductive invariant of the client holds.
THEOREM LoadInvariantHolds == LoadSpec => []LoadInv
<1>1. LoadInit => LoadInv BY LoadInitHasInv
<1>2. LoadInv /\ [LoadNext]_vars => LoadInv' BY LoadNextKeepsInv
<1> QED BY <1>1, <1>2, PTL DEF LoadSpec

\* runConn returns a result that counts exactly the acks read and that nobody still
\* writes, the window is kept, and exit code 0 means Total orders confirmed under Total
\* order_ids (main, runConn).
THEOREM ReportIsTrue == LoadSpec => []ReportTrue
<1>1. LoadInv => ReportTrue
  <2> SUFFICES ASSUME LoadInv PROVE ReportTrue OBVIOUS
  <2>1. ASSUME NEW c \in Clients
        PROVE  /\ writer[c] = "returned" =>
                    /\ reader[c] \in {"none", "done"}
                    /\ confirmed[c] = Cardinality(Oks(c, got[c]))
                    /\ confirmed[c] + rejected[c] = got[c]
               /\ window > 0 => put[c] - got[c] <= window
    <3>1. InFlight(c) /\ Counts(c) /\ Ends(c) BY ConnFacts
    <3> QED BY <3>1 DEF InFlight, Counts, Ends
  <2>2. ASSUME exitCode = "0"
        PROVE  Cardinality(UNION {{FirstId[c] + k : k \in Oks(c, Len(acks[c]))} : c \in Clients})
                 = Total
    <3>1. ASSUME NEW c \in Clients PROVE Oks(c, Len(acks[c])) = 1..Share(c)
      <4>1. /\ Behind(c) /\ Counts(c) /\ Ends(c)
            /\ got[c] \in Nat /\ Len(acks[c]) \in Nat /\ Share(c) \in Nat
            /\ taken[c] \in Nat /\ sent[c] \in Nat /\ put[c] \in Nat /\ confirmed[c] \in Nat
        BY ConnFacts
      <4>2. writer[c] = "returned" /\ ~err[c] /\ rejected[c] = 0
        BY <2>2 DEF LoadInv, ExitInv
      <4>3. got[c] = Share(c) BY <4>1, <4>2 DEF Ends
      <4>4. Len(acks[c]) = Share(c) BY <4>1, <4>3 DEF Behind
      <4>5. Cardinality(Oks(c, Share(c))) = Share(c) BY <4>1, <4>2, <4>3 DEF Counts
      <4>6. IsFiniteSet(1..Share(c)) /\ Cardinality(1..Share(c)) = Share(c)
        <5>1. 1 \in Int /\ Share(c) \in Int BY <4>1
        <5>2. /\ IsFiniteSet(1..Share(c))
              /\ Cardinality(1..Share(c)) = IF 1 > Share(c) THEN 0 ELSE Share(c) - 1 + 1
          BY <5>1, FS_Interval
        <5> QED BY <4>1, <5>2
      <4>7. Oks(c, Share(c)) \in SUBSET (1..Share(c)) BY DEF Oks
      <4>8. Oks(c, Share(c)) = 1..Share(c) BY <4>5, <4>6, <4>7, FS_Subset
      <4> QED BY <4>4, <4>8
    <3>2. UNION {{FirstId[c] + k : k \in Oks(c, Len(acks[c]))} : c \in Clients}
            = UNION {{FirstId[c] + k : k \in 1..Share(c)} : c \in Clients}
      BY <3>1, ZenonT(30)
    <3>3. Cardinality(1..Total) = Total
      <4>1. 1 \in Int /\ Total \in Int /\ Total \in Nat BY LoadAssumption
      <4>2. Cardinality(1..Total) = IF 1 > Total THEN 0 ELSE Total - 1 + 1
        BY <4>1, FS_Interval
      <4> QED BY <4>1, <4>2
    <3> QED BY <3>2, <3>3, AllIds
  <2> QED BY <2>1, <2>2 DEF ReportTrue
<1> QED BY <1>1, LoadInvariantHolds, PTL
=============================================================================
