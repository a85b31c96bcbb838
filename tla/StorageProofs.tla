---------------------------- MODULE StorageProofs ---------------------------
(***************************************************************************)
(* Proofs about internal/storage.  The write-ahead log, for any batches    *)
(* and any number of crashes and power losses: what a reader was promised  *)
(* is read, and the file is ready for the next Append.  The archiver, for  *)
(* any orders, queue and batch size, with a database that answers or not:  *)
(* nobody sends on the closed channel, no order is stored twice or         *)
(* silently lost, and a Close in time drains.                              *)
(***************************************************************************)
EXTENDS MCStorage, Recursion, SequenceTheorems

-----------------------------------------------------------------------------
(* What Scan computes.                                                       *)

Byte    == [part : {"body", "brace", "line feed", "junk"}, of : Nat]
Reading == [events : Seq(Nat), good : Nat]
Nothing == [events |-> <<>>, good |-> 0]

\* An event starts at byte i and is whole.
StartsEvent(f, i) == f[i].part = "body" /\ i < Len(f) /\ f[i + 1] = Brace(f[i].of)

\* The event at byte i and what is read from behind it.
Before(f, i, rest) == [events |-> <<f[i].of>> \o rest.events,
                       good   |-> IF rest.good = 0 THEN i + 1 ELSE rest.good]

\* from is the reading of f from each of its bytes on.
ReadingOf(f, from) ==
  \A i \in 1..(Len(f) + 1) : from[i] =
    IF i > Len(f) THEN Nothing
    ELSE IF f[i] = LineFeed THEN from[i + 1]
    ELSE IF StartsEvent(f, i) THEN Before(f, i, from[i + 2])
    ELSE Nothing

\* The recursion of Scan has a solution, and Scan is its value at the first byte.
LEMMA ScanUnfolds ==
  ASSUME NEW f \in Seq(Byte)
  PROVE  \E from : Scan(f) = from[1] /\ ReadingOf(f, from)
<1> DEFINE S == 1..(Len(f) + 1)
           F(from) == [i \in S |->
             IF i > Len(f) THEN Nothing
             ELSE IF f[i] = LineFeed THEN from[i + 1]
             ELSE IF StartsEvent(f, i) THEN Before(f, i, from[i + 2])
             ELSE Nothing]
           go   == {i \in S : i <= Len(f) /\ (f[i] = LineFeed \/ StartsEvent(f, i))}
           rank == [i \in S |-> Len(f) + 1 - i]
           succ == [i \in go |-> IF f[i] = LineFeed THEN i + 1 ELSE i + 2]
           base == [i \in S |-> Nothing]
           step == [x \in go \X Reading |->
                      IF f[x[1]] = LineFeed THEN x[2] ELSE Before(f, x[1], x[2])]
<1>1. Len(f) \in Nat /\ \A i \in 1..Len(f) : f[i] \in Byte /\ f[i].of \in Nat
  <2>1. Len(f) \in Nat /\ \A i \in 1..Len(f) : f[i] \in Byte OBVIOUS
  <2>2. \A b \in Byte : b.of \in Nat BY DEF Byte
  <2> QED BY <2>1, <2>2
<1>2. Nothing \in Reading BY DEF Nothing, Reading
<1>3. \A i \in go : i \in 1..Len(f) /\ succ[i] \in S
  <2> SUFFICES ASSUME NEW i \in go PROVE i \in 1..Len(f) /\ succ[i] \in S OBVIOUS
  <2>1. i \in 1..Len(f) BY <1>1
  <2>2. f[i] # LineFeed => i < Len(f) BY DEF StartsEvent
  <2> QED BY <2>1, <2>2, <1>1
<1>4. rank \in [S -> Nat] BY <1>1
<1>5. \A i \in go : rank[succ[i]] < rank[i]
  <2> SUFFICES ASSUME NEW i \in go PROVE rank[succ[i]] < rank[i] OBVIOUS
  <2>1. i \in 1..Len(f) /\ succ[i] \in S BY <1>3
  <2>2. succ[i] > i OBVIOUS
  <2> HIDE DEF go, succ
  <2> QED BY <2>1, <2>2, <1>1
<1>6. ASSUME NEW i \in go, NEW r \in Reading PROVE Before(f, i, r) \in Reading
  <2>1. f[i].of \in Nat /\ i + 1 \in Nat BY <1>1, <1>3
  <2>2. r.events \in Seq(Nat) /\ r.good \in Nat BY DEF Reading
  <2>3. <<f[i].of>> \o r.events \in Seq(Nat) BY <2>1, <2>2
  <2> QED BY <2>1, <2>2, <2>3 DEF Before, Reading
<1>7. step \in [go \X Reading -> Reading]
  <2> HIDE DEF go
  <2> QED BY <1>6
<1>8. base \in [S -> Reading] BY <1>2
<1>9. succ \in [go -> S] BY <1>3
<1>10. PICK g \in [S -> Reading] : Solves(g, S, go, succ, base, step)
  <2>1. go \in SUBSET S OBVIOUS
  <2> HIDE DEF S, F, go, rank, succ, base, step
  <2> QED BY <1>4, <1>5, <1>7, <1>8, <1>9, <2>1, RecursionExists
<1>11. g = F(g)
  <2> SUFFICES ASSUME NEW i \in S PROVE g[i] = F(g)[i] OBVIOUS
  <2>1. CASE i \notin go
    <3>1. g[i] = base[i] BY <2>1, <1>10 DEF Solves
    <3>2. base[i] = Nothing OBVIOUS
    <3>3. ~(i <= Len(f) /\ (f[i] = LineFeed \/ StartsEvent(f, i))) BY <2>1
    <3> HIDE DEF go, step, succ, base, rank
    <3> QED BY <3>1, <3>2, <3>3, <1>1
  <2>2. CASE i \in go
    <3>1. g[succ[i]] \in Reading BY <2>2, <1>9
    <3>2. g[i] = step[<<i, g[succ[i]]>>] BY <2>2, <1>10 DEF Solves
    <3>3. step[<<i, g[succ[i]]>>] =
            IF f[i] = LineFeed THEN g[succ[i]] ELSE Before(f, i, g[succ[i]])
      <4> HIDE DEF go, succ
      <4> QED BY <2>2, <3>1
    <3>4. i <= Len(f) /\ (f[i] = LineFeed \/ StartsEvent(f, i)) BY <2>2
    <3>5. succ[i] = IF f[i] = LineFeed THEN i + 1 ELSE i + 2 BY <2>2
    <3> HIDE DEF go, step, succ, base, rank
    <3> QED BY <3>2, <3>3, <3>4, <3>5, <1>1
  <2> QED BY <2>1, <2>2
<1>12. Scan(f) = (CHOOSE from : from = F(from))[1]
  BY DEF Scan, StartsEvent, Before, Nothing
<1> DEFINE from == CHOOSE from : from = F(from)
<1>13. from = F(from)
  <2> HIDE DEF F
  <2> QED BY <1>11
<1>14. ReadingOf(f, from)
  <2> SUFFICES ASSUME NEW i \in S PROVE from[i] = F(from)[i] BY DEF ReadingOf
  <2> HIDE DEF F, from
  <2> QED BY <1>13
<1> QED BY <1>12, <1>14

-----------------------------------------------------------------------------
(* What a log file looks like.                                               *)

\* Byte i of the encoded events ev.
ByteAt(ev, i) ==
  LET e == ev[(i - 1) \div 3 + 1]
  IN IF i % 3 = 1 THEN Body(e) ELSE IF i % 3 = 2 THEN Brace(e) ELSE LineFeed

\* f is the first n bytes of the encoded events ev, and behind them no junk or at
\* least two bytes of it.
Holds(f, ev, n) ==
  /\ n <= Len(f) /\ n <= 3 * Len(ev) /\ Len(f) # n + 1
  /\ \A i \in 1..n : f[i] = ByteAt(ev, i)
  /\ \A i \in (n + 1)..Len(f) : f[i] = Junk

\* How many events n bytes hold: the line feed of the last one may be missing.
Events(n) == (n + 1) \div 3

\* Events(n) is the number of events whose brace is among n bytes.
LEMMA EventsBounds ==
  ASSUME NEW n \in Nat
  PROVE  /\ Events(n) \in Nat
         /\ n \in (3 * Events(n) - 1)..(3 * Events(n) + 1)
BY DEF Events

\* m events are readable once the brace of the m-th is there.
LEMMA EventsAtLeast ==
  ASSUME NEW m \in Nat, NEW n \in Nat, 3 * m - 1 <= n
  PROVE  m <= Events(n)
BY DEF Events

\* Bytes behind whole events take none away, and whole events add theirs.
LEMMA EventsAppended ==
  ASSUME NEW a \in Nat, NEW n \in Nat, NEW b \in Nat
  PROVE  a <= Events(3 * a + b) /\ (b = 3 * n => Events(3 * a + b) = a + n)
<1>1. (3 * a + b + 1) \div 3 >= a OBVIOUS
<1>2. (3 * a + 3 * n + 1) \div 3 = a + n OBVIOUS
<1> QED BY <1>1, <1>2 DEF Events

\* Where the three bytes of the k-th event are.
LEMMA BytesOfEvent ==
  ASSUME NEW ev, NEW k \in Nat, k >= 1
  PROVE  /\ ByteAt(ev, 3 * k - 2) = Body(ev[k])
         /\ ByteAt(ev, 3 * k - 1) = Brace(ev[k])
         /\ ByteAt(ev, 3 * k) = LineFeed
<1>1. /\ (3 * k - 2) % 3 = 1 /\ (3 * k - 2 - 1) \div 3 + 1 = k
      /\ (3 * k - 1) % 3 = 2 /\ (3 * k - 1 - 1) \div 3 + 1 = k
      /\ (3 * k) % 3 = 0
  OBVIOUS
<1> QED BY <1>1 DEF ByteAt

\* A range of a sequence is its first entry followed by the rest.
LEMMA SubSeqFirst ==
  ASSUME NEW S, NEW s \in Seq(S), NEW k \in Nat, NEW m \in Nat, 1 <= k, k <= m, m <= Len(s)
  PROVE  <<s[k]>> \o SubSeq(s, k + 1, m) = SubSeq(s, k, m)
<1>1. <<s[k]>> \o SubSeq(s, k + 1, m) \in Seq(S) /\ SubSeq(s, k, m) \in Seq(S) OBVIOUS
<1>2. Len(<<s[k]>> \o SubSeq(s, k + 1, m)) = Len(SubSeq(s, k, m)) OBVIOUS
<1>3. \A i \in 1..Len(SubSeq(s, k, m)) :
        (<<s[k]>> \o SubSeq(s, k + 1, m))[i] = SubSeq(s, k, m)[i]
  OBVIOUS
<1> QED BY <1>1, <1>2, <1>3, SeqEqual

\* The reading of a log file: its events, and the offset behind the brace of the last.
LEMMA ScanOfLog ==
  ASSUME NEW f \in Seq(Byte), NEW ev \in Seq(Nat), NEW n \in Nat, Holds(f, ev, n)
  PROVE  /\ Scan(f).events = SubSeq(ev, 1, Events(n))
         /\ Scan(f).good = IF Events(n) = 0 THEN 0 ELSE 3 * Events(n) - 1
<1> DEFINE m == Events(n)
           Rest(k) == [events |-> SubSeq(ev, k + 1, m),
                       good   |-> IF k = m THEN 0 ELSE 3 * m - 1]
<1>1. m \in Nat /\ n \in (3 * m - 1)..(3 * m + 1) BY EventsBounds
<1>2. /\ Len(f) \in Nat /\ Len(ev) \in Nat /\ n <= Len(f) /\ Len(f) # n + 1 /\ m <= Len(ev)
      /\ \A i \in 1..n : f[i] = ByteAt(ev, i)
      /\ \A i \in (n + 1)..Len(f) : f[i] = Junk
  BY <1>1 DEF Holds
<1> HIDE DEF m
<1>3. PICK from : Scan(f) = from[1] /\ ReadingOf(f, from) BY ScanUnfolds
<1>4. /\ Junk # LineFeed /\ Junk.part # "body" /\ \A e : Junk # Brace(e) /\ Body(e) # LineFeed
      /\ \A e : Body(e).part = "body" /\ Body(e).of = e
  BY DEF Junk, LineFeed, Brace, Body
<1>5. ASSUME NEW k \in 1..m
      PROVE  /\ f[3 * k - 2] = Body(ev[k]) /\ f[3 * k - 1] = Brace(ev[k])
             /\ 3 * k <= n => f[3 * k] = LineFeed
             /\ 3 * k - 2 \in 1..Len(f) /\ 3 * k - 2 < Len(f) /\ 3 * k \in 1..(Len(f) + 1)
  <2>1. 3 * k - 2 \in 1..n /\ 3 * k - 1 \in 1..n /\ (3 * k <= n => 3 * k \in 1..n)
    BY <1>1
  <2>2. k \in Nat /\ k >= 1 BY <1>1
  <2>3. /\ f[3 * k - 2] = ByteAt(ev, 3 * k - 2) /\ f[3 * k - 1] = ByteAt(ev, 3 * k - 1)
        /\ 3 * k <= n => f[3 * k] = ByteAt(ev, 3 * k)
    BY <1>2, <2>1
  <2>4. 3 * k - 2 \in 1..Len(f) /\ 3 * k - 2 < Len(f) /\ 3 * k \in 1..(Len(f) + 1)
    BY <1>1, <1>2, <2>2
  <2> QED BY <2>2, <2>3, <2>4, BytesOfEvent
<1>6. \A k \in 1..m : from[3 * k - 2] = Before(f, 3 * k - 2, from[3 * k])
  <2> SUFFICES ASSUME NEW k \in 1..m
               PROVE  from[3 * k - 2] = Before(f, 3 * k - 2, from[3 * k])
    OBVIOUS
  <2>1. 3 * k - 2 \in 1..(Len(f) + 1) /\ ~(3 * k - 2 > Len(f))
        /\ 3 * k - 2 + 1 = 3 * k - 1 /\ 3 * k - 2 + 2 = 3 * k
    BY <1>1, <1>2, <1>5
  <2>2. f[3 * k - 2] # LineFeed /\ StartsEvent(f, 3 * k - 2)
    BY <1>4, <1>5, <2>1 DEF StartsEvent
  <2> QED BY <1>3, <2>1, <2>2 DEF ReadingOf
<1>7. ASSUME NEW i \in 1..(Len(f) + 1), i > n PROVE from[i] = Nothing
  <2>1. CASE i > Len(f) BY <1>3, <2>1 DEF ReadingOf
  <2>2. CASE i <= Len(f)
    <3>1. f[i] = Junk BY <1>2, <1>7, <2>2
    <3>2. f[i] # LineFeed /\ ~StartsEvent(f, i) BY <1>4, <3>1 DEF StartsEvent
    <3> QED BY <1>2, <1>3, <2>2, <3>2 DEF ReadingOf
  <2> QED BY <1>2, <2>1, <2>2
<1>8. n = 3 * m + 1 => from[n] = Nothing
  <2> SUFFICES ASSUME n = 3 * m + 1 PROVE from[n] = Nothing OBVIOUS
  <2>1. n \in 1..(Len(f) + 1) /\ ~(n > Len(f)) BY <1>1, <1>2
  <2>2. PICK e : f[n] = Body(e)
    <3>1. n % 3 = 1 /\ n \in 1..n BY <1>1
    <3> QED BY <1>2, <3>1 DEF ByteAt
  <2>3. ~StartsEvent(f, n)
    <3>1. n < Len(f) => f[n + 1] = Junk BY <1>2
    <3> QED BY <1>4, <3>1 DEF StartsEvent
  <2> QED BY <1>3, <1>4, <2>1, <2>2, <2>3 DEF ReadingOf
<1>9. m >= 1 => from[3 * m] = Nothing
  <2> SUFFICES ASSUME m >= 1 PROVE from[3 * m] = Nothing OBVIOUS
  <2>1. CASE n = 3 * m - 1
    <3>1. 3 * m \in 1..(Len(f) + 1) /\ 3 * m > n BY <1>1, <1>2, <2>1
    <3> QED BY <1>7, <3>1
  <2>2. CASE n >= 3 * m
    <3>1. f[3 * m] = LineFeed
      <4>1. m \in 1..m BY <1>1
      <4> QED BY <1>5, <2>2, <4>1
    <3>2. from[3 * m] = from[3 * m + 1] BY <1>1, <1>2, <1>3, <2>2, <3>1 DEF ReadingOf
    <3>3. CASE n = 3 * m + 1 BY <1>8, <3>2, <3>3
    <3>4. CASE n = 3 * m
      <4>1. 3 * m + 1 \in 1..(Len(f) + 1) /\ 3 * m + 1 > n BY <1>1, <1>2, <3>4
      <4> QED BY <1>7, <3>2, <4>1
    <3> QED BY <1>1, <2>2, <3>3, <3>4
  <2> QED BY <1>1, <2>1, <2>2
<1>10. \A k \in 1..m : k < m => from[3 * k] = from[3 * (k + 1) - 2]
  <2> SUFFICES ASSUME NEW k \in 1..m, k < m PROVE from[3 * k] = from[3 * (k + 1) - 2]
    OBVIOUS
  <2>1. 3 * k \in 1..(Len(f) + 1) /\ ~(3 * k > Len(f)) /\ 3 * k <= n
        /\ 3 * (k + 1) - 2 = 3 * k + 1
    BY <1>1, <1>2
  <2>2. f[3 * k] = LineFeed BY <1>5, <2>1
  <2> QED BY <1>3, <2>1, <2>2 DEF ReadingOf
<1>11. \A k \in 1..m : Rest(k - 1) = Before(f, 3 * k - 2, Rest(k))
  <2> SUFFICES ASSUME NEW k \in 1..m PROVE Rest(k - 1) = Before(f, 3 * k - 2, Rest(k))
    OBVIOUS
  <2>1. f[3 * k - 2].of = ev[k] BY <1>4, <1>5
  <2>2. <<ev[k]>> \o SubSeq(ev, k + 1, m) = SubSeq(ev, k, m) BY <1>1, <1>2, SubSeqFirst
  <2>3. k - 1 + 1 = k /\ k - 1 # m /\ 3 * k - 2 + 1 = 3 * k - 1 /\ 3 * m - 1 # 0 BY <1>1
  <2> QED BY <2>1, <2>2, <2>3 DEF Before
<1>12. m >= 1 => Rest(m) = Nothing
  BY <1>1, <1>2 DEF Nothing
<1> DEFINE T == {d \in Nat : d < m => from[3 * (m - d)] = Rest(m - d)}
<1>13. T = Nat
  <2>1. 0 \in T BY <1>1, <1>9, <1>12
  <2>2. ASSUME NEW d \in T PROVE d + 1 \in T
    <3> SUFFICES ASSUME d + 1 < m PROVE from[3 * (m - (d + 1))] = Rest(m - (d + 1)) OBVIOUS
    <3> DEFINE k == m - (d + 1)
    <3>1. k \in 1..m /\ k < m /\ k + 1 \in 1..m /\ m - d = k + 1 /\ k + 1 - 1 = k BY <1>1
    <3>2. from[3 * (k + 1)] = Rest(k + 1) BY <1>1, <3>1
    <3> HIDE DEF k, Rest
    <3>3. from[3 * (k + 1) - 2] = Rest(k) BY <1>6, <1>11, <3>1, <3>2
    <3> QED BY <1>10, <3>1, <3>3 DEF k
  <2> HIDE DEF T
  <2>3. T \in SUBSET Nat BY DEF T
  <2> QED BY <2>1, <2>2, <2>3, SetInduction
<1>14. from[1] = Rest(0)
  <2>1. CASE m = 0
    <3>1. n = 0 \/ n = 1 BY <1>1, <2>1
    <3>2. CASE n = 0 BY <1>2, <1>7, <2>1, <3>2 DEF Nothing
    <3>3. CASE n = 1 BY <1>2, <1>8, <2>1, <3>3 DEF Nothing
    <3> QED BY <3>1, <3>2, <3>3
  <2>2. CASE m >= 1
    <3>1. m - 1 \in Nat /\ m - 1 < m /\ m - (m - 1) = 1 BY <1>1, <2>2
    <3>2. from[3 * 1] = Rest(1)
      <4>1. m - 1 \in T BY <1>13, <3>1
      <4> QED BY <3>1, <4>1
    <3>3. 1 \in 1..m /\ 3 * 1 - 2 = 1 /\ 1 - 1 = 0 BY <1>1, <2>2
    <3> HIDE DEF Rest, T
    <3> QED BY <1>6, <1>11, <3>2, <3>3
  <2> QED BY <1>1, <2>1, <2>2
<1>15. 0 + 1 = 1 /\ (0 = m <=> m = 0) BY <1>1
<1>16. Rest(0) = [events |-> SubSeq(ev, 1, m), good |-> IF m = 0 THEN 0 ELSE 3 * m - 1]
  BY <1>15
<1> HIDE DEF Rest
<1> QED BY <1>3, <1>14, <1>16 DEF m

-----------------------------------------------------------------------------
(* Prefixes.                                                                 *)

\* The entries of a concatenation.
LEMMA ConcatAt ==
  ASSUME NEW S, NEW s \in Seq(S), NEW t \in Seq(S)
  PROVE  /\ s \o t \in Seq(S) /\ Len(s \o t) = Len(s) + Len(t)
         /\ \A i \in 1..Len(s) : (s \o t)[i] = s[i]
         /\ \A i \in 1..Len(t) : (s \o t)[Len(s) + i] = t[i]
OBVIOUS

\* A prefix agrees entry by entry.
LEMMA PrefixPointwise ==
  ASSUME NEW S, NEW s \in Seq(S), NEW t \in Seq(S)
  PROVE  IsPrefix(s, t) <=> (Len(s) <= Len(t) /\ \A i \in 1..Len(s) : s[i] = t[i])
<1> DEFINE n == Len(s)
<1>1. n \in Nat /\ SubSeq(s, 1, n) \in Seq(S) /\ Len(SubSeq(s, 1, n)) = n
      /\ \A i \in 1..n : SubSeq(s, 1, n)[i] = s[i]
  OBVIOUS
<1>2. n <= Len(t) => /\ SubSeq(t, 1, n) \in Seq(S) /\ Len(SubSeq(t, 1, n)) = n
                     /\ \A i \in 1..n : SubSeq(t, 1, n)[i] = t[i]
  OBVIOUS
<1>3. ASSUME IsPrefix(s, t) PROVE n <= Len(t) /\ \A i \in 1..n : s[i] = t[i]
  <2>1. n <= Len(t) /\ SubSeq(s, 1, n) = SubSeq(t, 1, n) BY <1>3 DEF IsPrefix
  <2> HIDE DEF n
  <2> QED BY <1>1, <1>2, <2>1
<1>4. ASSUME n <= Len(t), \A i \in 1..n : s[i] = t[i] PROVE IsPrefix(s, t)
  <2>1. SubSeq(s, 1, n) = SubSeq(t, 1, n)
    <3> HIDE DEF n
    <3> QED BY <1>1, <1>2, <1>4, SeqEqual
  <2> QED BY <1>4, <2>1 DEF IsPrefix
<1> QED BY <1>3, <1>4

\* A prefix of a prefix is a prefix.
LEMMA PrefixTransitive ==
  ASSUME NEW S, NEW s \in Seq(S), NEW t \in Seq(S), NEW u \in Seq(S),
         IsPrefix(s, t), IsPrefix(t, u)
  PROVE  IsPrefix(s, u)
<1>1. Len(s) <= Len(t) /\ \A i \in 1..Len(s) : s[i] = t[i] BY PrefixPointwise
<1>2. Len(t) <= Len(u) /\ \A i \in 1..Len(t) : t[i] = u[i] BY PrefixPointwise
<1>3. Len(s) \in Nat /\ Len(t) \in Nat /\ Len(u) \in Nat OBVIOUS
<1>4. Len(s) <= Len(u) BY <1>1, <1>2, <1>3
<1>5. \A i \in 1..Len(s) : s[i] = u[i] BY <1>1, <1>2, <1>3
<1> QED BY <1>4, <1>5, PrefixPointwise

\* The first a of a sequence's elements are a prefix of its first b, a <= b.
LEMMA ShorterIsPrefix ==
  ASSUME NEW S, NEW s \in Seq(S), NEW a \in Nat, NEW b \in Nat, a <= b, b <= Len(s)
  PROVE  IsPrefix(SubSeq(s, 1, a), SubSeq(s, 1, b))
<1>1. /\ SubSeq(s, 1, a) \in Seq(S) /\ Len(SubSeq(s, 1, a)) = a
      /\ \A i \in 1..a : SubSeq(s, 1, a)[i] = s[i]
  OBVIOUS
<1>2. /\ SubSeq(s, 1, b) \in Seq(S) /\ Len(SubSeq(s, 1, b)) = b
      /\ \A i \in 1..b : SubSeq(s, 1, b)[i] = s[i]
  OBVIOUS
<1>3. \A i \in 1..a : i \in 1..b OBVIOUS
<1>4. \A i \in 1..a : SubSeq(s, 1, a)[i] = SubSeq(s, 1, b)[i] BY <1>1, <1>2, <1>3
<1> QED BY <1>1, <1>2, <1>4, PrefixPointwise

\* The longest common prefix of two sequences is one of both, and no other is longer.
LEMMA LongestPrefix ==
  ASSUME NEW S, NEW s \in Seq(S), NEW t \in Seq(S)
  PROVE  LET c == LongestCommonPrefix({s, t})
         IN  /\ c \in Seq(S) /\ IsPrefix(c, s) /\ IsPrefix(c, t)
             /\ \A n \in Nat : n <= Len(s) /\ n <= Len(t) /\ (\A i \in 1..n : s[i] = t[i])
                                 => n <= Len(c)
<1> DEFINE C == CommonPrefixes({s, t})
           Longest(c) == \A other \in C : Len(other) <= Len(c)
<1>1. \A c \in C : c \in Seq(S) /\ IsPrefix(c, s) /\ IsPrefix(c, t)
  <2> SUFFICES ASSUME NEW c \in C PROVE c \in Seq(S) /\ IsPrefix(c, s) /\ IsPrefix(c, t)
    OBVIOUS
  <2>1. IsPrefix(c, s) /\ IsPrefix(c, t) /\ c \in Prefixes(s) \cup Prefixes(t)
    BY DEF CommonPrefixes
  <2>2. \A u \in Seq(S), l \in Nat : l <= Len(u) => SubSeq(u, 1, l) \in Seq(S) OBVIOUS
  <2>3. c \in Seq(S)
    <3>1. PICK u \in {s, t} : c \in Prefixes(u) BY <2>1
    <3>2. PICK l \in 0..Len(u) : c = SubSeq(u, 1, l) BY <3>1 DEF Prefixes
    <3>3. u \in Seq(S) /\ Len(u) \in Nat OBVIOUS
    <3> QED BY <2>2, <3>2, <3>3
  <2> QED BY <2>1, <2>3
<1>2. ASSUME NEW n \in Nat, n <= Len(s), n <= Len(t), \A i \in 1..n : s[i] = t[i]
      PROVE  SubSeq(s, 1, n) \in C /\ Len(SubSeq(s, 1, n)) = n
  <2>1. /\ SubSeq(s, 1, n) \in Seq(S) /\ Len(SubSeq(s, 1, n)) = n
        /\ \A i \in 1..n : SubSeq(s, 1, n)[i] = s[i]
    BY <1>2
  <2>2. IsPrefix(SubSeq(s, 1, n), s) BY <1>2, <2>1, PrefixPointwise
  <2>3. IsPrefix(SubSeq(s, 1, n), t) BY <1>2, <2>1, PrefixPointwise
  <2>4. SubSeq(s, 1, n) \in Prefixes(s) BY <1>2 DEF Prefixes
  <2> QED BY <2>1, <2>2, <2>3, <2>4 DEF CommonPrefixes
<1>3. \E c \in C : Longest(c)
  <2> DEFINE Rest == {k \in Nat : \E c \in C : k = Len(s) - Len(c)}
  <2>1. \A c \in C : Len(c) \in Nat /\ Len(s) - Len(c) \in Nat
    <3> SUFFICES ASSUME NEW c \in C PROVE Len(c) \in Nat /\ Len(s) - Len(c) \in Nat OBVIOUS
    <3>1. c \in Seq(S) /\ IsPrefix(c, s) BY <1>1
    <3>2. Len(c) <= Len(s) BY <3>1 DEF IsPrefix
    <3>3. Len(c) \in Nat /\ Len(s) \in Nat BY <3>1
    <3> QED BY <3>2, <3>3
  <2>2. Rest # {}
    <3>1. SubSeq(s, 1, 0) \in C
      <4>1. 0 \in Nat /\ 0 <= Len(s) /\ 0 <= Len(t) /\ \A i \in 1..0 : s[i] = t[i] OBVIOUS
      <4> QED BY <1>2, <4>1
    <3> HIDE DEF C
    <3> QED BY <2>1, <3>1
  <2>3. PICK k \in Rest : \A j \in Rest : k <= j BY <2>2, LeastNumber
  <2>4. PICK c \in C : k = Len(s) - Len(c) OBVIOUS
  <2>5. ASSUME NEW other \in C PROVE Len(other) <= Len(c)
    <3>1. Len(s) - Len(other) \in Rest BY <2>1
    <3>2. Len(s) - Len(c) <= Len(s) - Len(other) BY <2>3, <2>4, <3>1
    <3>3. Len(s) \in Nat /\ Len(c) \in Nat /\ Len(other) \in Nat BY <2>1
    <3> QED BY <3>2, <3>3
  <2> QED BY <2>4, <2>5
<1> DEFINE c == LongestCommonPrefix({s, t})
<1>4. c \in C /\ Longest(c)
  <2> HIDE DEF C
  <2>1. c = CHOOSE longest \in C : Longest(longest) BY DEF LongestCommonPrefix, C
  <2> QED BY <1>3, <2>1
<1>5. ASSUME NEW n \in Nat, n <= Len(s), n <= Len(t), \A i \in 1..n : s[i] = t[i]
      PROVE  n <= Len(c)
  BY <1>2, <1>4, <1>5
<1> HIDE DEF C, c
<1> QED BY <1>1, <1>4, <1>5 DEF c

-----------------------------------------------------------------------------
(* What the operations on the file make of a log.                            *)

\* Body, brace, line feed and junk are bytes.
LEMMA BytesAreTyped ==
  ASSUME NEW e \in Nat
  PROVE  Body(e) \in Byte /\ Brace(e) \in Byte /\ LineFeed \in Byte /\ Junk \in Byte
BY DEF Body, Brace, LineFeed, Junk, Byte

\* A log cut at byte a.
LEMMA CutLog ==
  ASSUME NEW f \in Seq(Byte), NEW ev \in Seq(Nat), NEW n \in Nat, Holds(f, ev, n),
         NEW a \in Nat, a <= n
  PROVE  /\ Prefix(f, a) \in Seq(Byte) /\ Len(Prefix(f, a)) = a
         /\ Holds(Prefix(f, a), ev, a)
<1>1. n <= Len(f) /\ n <= 3 * Len(ev) /\ \A i \in 1..n : f[i] = ByteAt(ev, i) BY DEF Holds
<1>2. a <= Len(f) /\ a <= 3 * Len(ev) BY <1>1
<1>3. /\ Prefix(f, a) \in Seq(Byte) /\ Len(Prefix(f, a)) = a
      /\ \A i \in 1..a : Prefix(f, a)[i] = f[i]
  BY <1>2 DEF Prefix
<1>4. \A i \in 1..a : i \in 1..n OBVIOUS
<1>5. \A i \in 1..a : Prefix(f, a)[i] = ByteAt(ev, i) BY <1>1, <1>3, <1>4
<1>6. a # a + 1 /\ (a + 1)..a = {} /\ a <= a OBVIOUS
<1> QED BY <1>2, <1>3, <1>5, <1>6 DEF Holds

\* Events beyond those the bytes touch do not matter.
LEMMA FewerEvents ==
  ASSUME NEW f \in Seq(Byte), NEW ev \in Seq(Nat), NEW n \in Nat, Holds(f, ev, n),
         NEW m \in Nat, m <= Len(ev), n <= 3 * m
  PROVE  /\ SubSeq(ev, 1, m) \in Seq(Nat) /\ Len(SubSeq(ev, 1, m)) = m
         /\ Holds(f, SubSeq(ev, 1, m), n)
<1>1. /\ SubSeq(ev, 1, m) \in Seq(Nat) /\ Len(SubSeq(ev, 1, m)) = m
      /\ \A k \in 1..m : SubSeq(ev, 1, m)[k] = ev[k]
  OBVIOUS
<1>2. \A i \in 1..n : (i - 1) \div 3 + 1 \in 1..m OBVIOUS
<1>3. \A i \in 1..n : ByteAt(SubSeq(ev, 1, m), i) = ByteAt(ev, i)
  BY <1>1, <1>2 DEF ByteAt
<1> QED BY <1>1, <1>3 DEF Holds

\* Part of a batch, or all of it, behind a log that ends with a line feed.
LEMMA MoreEvents ==
  ASSUME NEW f \in Seq(Byte), NEW ev \in Seq(Nat), Holds(f, ev, Len(f)), Len(f) = 3 * Len(ev),
         NEW first \in Nat, NEW n \in Nat, NEW b \in Nat, b <= 3 * n
  PROVE  LET g == f \o Prefix(Encode(first, n), b)
             more == ev \o Numbers(first, n)
         IN  /\ g \in Seq(Byte) /\ more \in Seq(Nat) /\ Len(g) = Len(f) + b
             /\ Len(more) = Len(ev) + n /\ Holds(g, more, Len(g))
<1> DEFINE c == Encode(first, n)
           p == Prefix(c, b)
           g == f \o p
           new == Numbers(first, n)
           more == ev \o new
<1>1. /\ new \in Seq(Nat) /\ Len(new) = n
      /\ \A k \in 1..n : new[k] = first + k - 1
  BY DEF Numbers
<1>2. /\ more \in Seq(Nat) /\ Len(more) = Len(ev) + n
      /\ \A k \in 1..n : more[Len(ev) + k] = first + k - 1
      /\ \A k \in 1..Len(ev) : more[k] = ev[k]
  <2> HIDE DEF new
  <2>0. new \in Seq(Nat) BY <1>1
  <2>1. /\ more \in Seq(Nat) /\ Len(more) = Len(ev) + Len(new)
        /\ \A k \in 1..Len(ev) : more[k] = ev[k]
        /\ \A k \in 1..Len(new) : more[Len(ev) + k] = new[k]
    BY <2>0, ConcatAt
  <2> HIDE DEF more
  <2> QED BY <1>1, <2>1
<1>3. \A i \in 1..(3 * n) : c[i] = ByteAt(new, i) /\ c[i] \in Byte
  <2> SUFFICES ASSUME NEW i \in 1..(3 * n) PROVE c[i] = ByteAt(new, i) /\ c[i] \in Byte
    OBVIOUS
  <2> DEFINE k == (i - 1) \div 3 + 1
             e == first + (i - 1) \div 3
  <2>1. k \in 1..n /\ e = first + k - 1 /\ e \in Nat OBVIOUS
  <2>2. new[k] = e BY <1>1, <2>1
  <2>3. c[i] = CASE i % 3 = 1 -> Body(e) [] i % 3 = 2 -> Brace(e) [] OTHER -> LineFeed
    BY DEF Encode
  <2>4. ByteAt(new, i) = IF i % 3 = 1 THEN Body(e) ELSE IF i % 3 = 2 THEN Brace(e) ELSE LineFeed
    BY <2>2 DEF ByteAt
  <2> HIDE DEF k, e, c, new
  <2>5. c[i] = ByteAt(new, i) BY <2>3, <2>4
  <2> QED BY <2>1, <2>4, <2>5, BytesAreTyped
<1>4. c \in Seq(Byte) /\ Len(c) = 3 * n
  <2>1. c = [i \in 1..(3 * n) |-> c[i]] /\ 3 * n \in Nat BY DEF Encode
  <2>2. \A i \in 1..(3 * n) : c[i] \in Byte BY <1>3
  <2> DEFINE l == 3 * n
  <2> HIDE DEF c, new, l
  <2>3. c \in [1..l -> Byte] /\ l \in Nat BY <2>1, <2>2 DEF l
  <2>4. c \in Seq(Byte) /\ Len(c) = l BY <2>3
  <2> QED BY <2>4 DEF l
<1>5. /\ p \in Seq(Byte) /\ Len(p) = b
      /\ \A i \in 1..b : p[i] = ByteAt(new, i)
  <2> HIDE DEF c, new
  <2>1. p \in Seq(Byte) /\ Len(p) = b /\ \A i \in 1..b : p[i] = c[i] BY <1>4 DEF Prefix
  <2>2. \A i \in 1..b : i \in 1..(3 * n) OBVIOUS
  <2> QED BY <1>3, <2>1, <2>2
<1>6. /\ g \in Seq(Byte) /\ Len(g) = Len(f) + b
      /\ \A i \in 1..Len(f) : g[i] = f[i]
      /\ \A i \in 1..b : g[Len(f) + i] = p[i]
  <2> HIDE DEF p
  <2>0. p \in Seq(Byte) /\ f \in Seq(Byte) BY <1>5
  <2>1. /\ g \in Seq(Byte) /\ Len(g) = Len(f) + Len(p)
        /\ \A i \in 1..Len(f) : g[i] = f[i]
        /\ \A i \in 1..Len(p) : g[Len(f) + i] = p[i]
    <3> HIDE DEF c, new, more, p, g
    <3>1. /\ f \o p \in Seq(Byte) /\ Len(f \o p) = Len(f) + Len(p)
          /\ \A i \in 1..Len(f) : (f \o p)[i] = f[i]
          /\ \A i \in 1..Len(p) : (f \o p)[Len(f) + i] = p[i]
      BY ONLY <2>0, SMTT(20)
    <3> QED BY <3>1 DEF g
  <2> QED BY <1>5, <2>1
<1>7. \A i \in 1..Len(f) : ByteAt(more, i) = ByteAt(ev, i)
  <2>1. \A i \in 1..Len(f) : (i - 1) \div 3 + 1 \in 1..Len(ev) OBVIOUS
  <2> HIDE DEF more
  <2>2. \A i \in 1..Len(f) : more[(i - 1) \div 3 + 1] = ev[(i - 1) \div 3 + 1]
    <3> SUFFICES ASSUME NEW i \in 1..Len(f)
                 PROVE  more[(i - 1) \div 3 + 1] = ev[(i - 1) \div 3 + 1]
      OBVIOUS
    <3>1. (i - 1) \div 3 + 1 \in 1..Len(ev) BY <2>1
    <3>2. \A k \in 1..Len(ev) : more[k] = ev[k] BY <1>2
    <3> QED BY <3>1, <3>2
  <2> QED BY <2>2 DEF ByteAt
<1>8. \A i \in 1..b : ByteAt(more, Len(f) + i) = ByteAt(new, i)
  <2> SUFFICES ASSUME NEW i \in 1..b PROVE ByteAt(more, Len(f) + i) = ByteAt(new, i)
    OBVIOUS
  <2>1. Len(ev) \in Nat /\ Len(f) = 3 * Len(ev) OBVIOUS
  <2>2. /\ (Len(f) + i) % 3 = i % 3
        /\ (Len(f) + i - 1) \div 3 + 1 = Len(ev) + ((i - 1) \div 3 + 1)
        /\ (i - 1) \div 3 + 1 \in 1..n
    BY <2>1
  <2>3. more[Len(ev) + ((i - 1) \div 3 + 1)] = new[(i - 1) \div 3 + 1] BY <1>1, <1>2, <2>2
  <2> HIDE DEF more, new
  <2> QED BY <2>2, <2>3 DEF ByteAt
<1>9. \A i \in 1..Len(g) : g[i] = ByteAt(more, i)
  <2> SUFFICES ASSUME NEW i \in 1..Len(g) PROVE g[i] = ByteAt(more, i) OBVIOUS
  <2>1. Len(f) \in Nat OBVIOUS
  <2> HIDE DEF g, p, more, new
  <2>2. CASE i \in 1..Len(f) BY <1>6, <1>7, <2>2 DEF Holds
  <2>3. CASE i \notin 1..Len(f)
    <3>1. i - Len(f) \in 1..b /\ i = Len(f) + (i - Len(f)) BY <1>6, <2>1, <2>3
    <3> QED BY <1>5, <1>6, <1>8, <3>1
  <2> QED BY <2>2, <2>3
<1>10. Len(g) <= 3 * Len(more) BY <1>2, <1>6
<1>11. Holds(g, more, Len(g))
  <2>1. Len(g) \in Nat BY <1>6
  <2> HIDE DEF g, more
  <2> QED BY <1>9, <1>10, <2>1 DEF Holds
<1> QED BY <1>2, <1>6, <1>11

\* A line feed behind the brace of the last event.
LEMMA LineFeedAdded ==
  ASSUME NEW f \in Seq(Byte), NEW ev \in Seq(Nat), Holds(f, ev, Len(f)),
         Len(f) = 3 * Len(ev) - 1
  PROVE  LET g == Append(f, LineFeed)
         IN  g \in Seq(Byte) /\ Len(g) = 3 * Len(ev) /\ Holds(g, ev, Len(g))
<1> DEFINE g == Append(f, LineFeed)
<1>1. /\ g \in Seq(Byte) /\ Len(g) = Len(f) + 1 /\ g[Len(f) + 1] = LineFeed
      /\ \A i \in 1..Len(f) : g[i] = f[i]
  <2>1. LineFeed \in Byte BY BytesAreTyped
  <2> QED BY <2>1
<1>2. Len(f) \in Nat /\ Len(ev) \in Nat /\ Len(ev) >= 1 OBVIOUS
<1>3. ByteAt(ev, 3 * Len(ev)) = LineFeed BY <1>2, BytesOfEvent
<1> HIDE DEF g
<1>4. \A i \in 1..Len(g) : g[i] = ByteAt(ev, i)
  <2>1. \A i \in 1..Len(f) : g[i] = ByteAt(ev, i) BY <1>1 DEF Holds
  <2>2. Len(g) = 3 * Len(ev) BY <1>1, <1>2
  <2>3. g[3 * Len(ev)] = LineFeed BY <1>1, <1>2
  <2>4. \A i \in 1..Len(g) : i \in 1..Len(f) \/ i = 3 * Len(ev) BY <1>2, <2>2
  <2> QED BY <1>3, <2>1, <2>3, <2>4
<1>5. Len(g) = 3 * Len(ev) /\ Len(g) \in Nat BY <1>1, <1>2
<1>6. Holds(g, ev, Len(g)) BY <1>4, <1>5 DEF Holds
<1> QED BY <1>1, <1>5, <1>6 DEF g

-----------------------------------------------------------------------------
(* The inductive invariant.                                                  *)

LogTypes ==
  /\ proc \in {"down", "truncated", "open", "closed"}
  /\ broken \in BOOLEAN /\ (broken => proc \in {"open", "closed"})
  /\ next \in 1..(MaxEvents + 1) /\ crashes \in 0..MaxCrashes
  /\ file \in Seq(Byte) /\ disk \in Seq(Byte)
  /\ kept \in Seq(1..MaxEvents) /\ written \in Seq(1..MaxEvents)

\* The file is a log.  Only a power loss puts junk in it, and then the disk is the file;
\* a writer that has seen no error has written whole events, and a repair that has
\* truncated has left the line feed of the last one to write.
FileInv ==
  \E ev \in Seq(Nat), n \in Nat :
    /\ Holds(file, ev, n)
    /\ n < Len(file) => disk = file /\ proc = "down"
    /\ proc = "open" /\ ~broken => n = 3 * Len(ev)
    /\ proc = "truncated" => n = 3 * Len(ev) - 1

DiskInv == \E ev \in Seq(Nat), n \in Nat : Holds(disk, ev, n)

\* r are events of w, rising and below nx.
Reads(r, w, nx) ==
  /\ r \in Seq(Nat)
  /\ \A i \in 1..Len(r) : r[i] >= 1 /\ r[i] < nx /\ \E j \in 1..Len(w) : r[i] = w[j]
  /\ \A i, j \in 1..Len(r) : i < j => r[i] < r[j]

\* What the disk would give back and what was promised is there; a writer that has seen
\* no error has promised all there is.
PromiseInv ==
  /\ IsPrefix(Scan(disk).events, ReadAll) /\ IsPrefix(kept, ReadAll)
  /\ proc = "open" /\ ~broken => kept = ReadAll

LogInv == LogTypes /\ FileInv /\ DiskInv /\ Reads(ReadAll, written, next) /\ PromiseInv

\* Events are numbers.
LEMMA EventNumbers == \A s : s \in Seq(1..MaxEvents) => s \in Seq(Nat)
<1>1. 1..MaxEvents \subseteq Nat OBVIOUS
<1> QED BY <1>1, SeqMonotonic

\* What is read of a log.
LEMMA EventsOfLog ==
  ASSUME NEW f \in Seq(Byte), NEW ev \in Seq(Nat), NEW n \in Nat, Holds(f, ev, n)
  PROVE  /\ Events(n) \in Nat /\ Events(n) <= Len(ev)
         /\ Scan(f).events \in Seq(Nat) /\ Len(Scan(f).events) = Events(n)
         /\ \A k \in 1..Events(n) : Scan(f).events[k] = ev[k]
<1>1. Events(n) \in Nat /\ n \in (3 * Events(n) - 1)..(3 * Events(n) + 1) BY EventsBounds
<1>2. n <= 3 * Len(ev) BY DEF Holds
<1>3. Events(n) <= Len(ev) BY <1>1, <1>2
<1>4. Scan(f).events = SubSeq(ev, 1, Events(n)) BY ScanOfLog
<1> DEFINE m == Events(n)
<1> HIDE DEF m
<1>5. ASSUME m \in Nat, m <= Len(ev)
      PROVE  /\ SubSeq(ev, 1, m) \in Seq(Nat) /\ Len(SubSeq(ev, 1, m)) = m
             /\ \A k \in 1..m : SubSeq(ev, 1, m)[k] = ev[k]
  BY <1>5
<1> QED BY <1>1, <1>3, <1>4, <1>5 DEF m

\* What is read from the disk is a list of events.
LEMMA DiskReadable ==
  ASSUME disk \in Seq(Byte), DiskInv
  PROVE  Scan(disk).events \in Seq(Nat)
BY EventsOfLog DEF DiskInv

\* What is read stays sound when less of it is read, ...
LEMMA ReadsLess ==
  ASSUME NEW r, NEW w, NEW nx \in Nat, Reads(r, w, nx), NEW q \in Seq(Nat), IsPrefix(q, r)
  PROVE  Reads(q, w, nx)
<1>1. r \in Seq(Nat) BY DEF Reads
<1>2. Len(q) <= Len(r) /\ \A i \in 1..Len(q) : q[i] = r[i] BY <1>1, PrefixPointwise
<1>3. \A i \in 1..Len(q) : i \in 1..Len(r)
  <2>1. Len(q) \in Nat /\ Len(r) \in Nat BY <1>1
  <2> QED BY <1>2, <2>1
<1> QED BY <1>2, <1>3 DEF Reads

\* ... and is made of the numbers of events.
LEMMA ReadsTyped ==
  ASSUME NEW r, NEW w, NEW nx \in Nat, Reads(r, w, nx), NEW m \in Nat, nx <= m + 1
  PROVE  r \in Seq(1..m) /\ Reads(r, r, nx)
<1>1. r \in Seq(Nat) /\ \A i \in 1..Len(r) : r[i] >= 1 /\ r[i] < nx BY DEF Reads
<1>2. \A i \in 1..Len(r) : r[i] \in Nat BY <1>1
<1>3. \A i \in 1..Len(r) : r[i] \in 1..m BY <1>1, <1>2
<1>4. Len(r) \in Nat /\ r = [i \in 1..Len(r) |-> r[i]] BY <1>1
<1>5. r \in Seq(1..m) BY <1>3, <1>4, IsASeq
<1> QED BY <1>5 DEF Reads

\* The next n events behind what is read.
LEMMA ReadsMore ==
  ASSUME NEW r, NEW w \in Seq(Nat), NEW nx \in Nat, nx >= 1, Reads(r, w, nx),
         NEW n \in Nat, NEW q \in Seq(Nat), Len(r) <= Len(q), Len(q) <= Len(r) + n,
         \A i \in 1..Len(r) : q[i] = r[i],
         \A i \in 1..Len(q) : i > Len(r) => q[i] = nx + (i - Len(r)) - 1
  PROVE  Reads(q, w \o Numbers(nx, n), nx + n) /\ IsPrefix(r, q)
<1> DEFINE new == Numbers(nx, n)
           all == w \o new
<1>1. r \in Seq(Nat) /\ Len(r) \in Nat /\ Len(q) \in Nat /\ Len(w) \in Nat BY DEF Reads
<1>2. /\ new \in Seq(Nat) /\ Len(new) = n
      /\ \A k \in 1..n : new[k] = nx + k - 1
  BY DEF Numbers
<1>3. /\ Len(all) = Len(w) + n
      /\ \A j \in 1..Len(w) : all[j] = w[j]
      /\ \A k \in 1..n : all[Len(w) + k] = new[k]
  <2> HIDE DEF new
  <2>1. new \in Seq(Nat) BY <1>2
  <2>2. /\ Len(all) = Len(w) + Len(new)
        /\ \A j \in 1..Len(w) : all[j] = w[j]
        /\ \A k \in 1..Len(new) : all[Len(w) + k] = new[k]
    BY <2>1
  <2> QED BY <1>2, <2>2
<1> HIDE DEF all, new
<1>4. \A i \in 1..Len(r) : r[i] \in Nat /\ r[i] >= 1 /\ r[i] < nx
  <2>1. r \in Seq(Nat) /\ \A i \in 1..Len(r) : r[i] >= 1 /\ r[i] < nx BY DEF Reads
  <2>2. \A i \in 1..Len(r) : r[i] \in Nat BY <2>1
  <2> QED BY <2>1, <2>2
<1>5. ASSUME NEW i \in 1..Len(q)
      PROVE  q[i] >= 1 /\ q[i] < nx + n /\ \E j \in 1..Len(all) : q[i] = all[j]
  <2>1. CASE i \in 1..Len(r)
    <3>1. q[i] = r[i] /\ r[i] \in Nat /\ r[i] >= 1 /\ r[i] < nx BY <1>4, <2>1
    <3>2. PICK j \in 1..Len(w) : r[i] = w[j] BY <2>1 DEF Reads
    <3>3. j \in 1..Len(all) /\ q[i] = all[j] BY <1>1, <1>3, <3>1, <3>2
    <3>4. q[i] >= 1 /\ q[i] < nx + n BY <1>1, <3>1, SMTT(20)
    <3> QED BY <3>3, <3>4
  <2>2. CASE i \notin 1..Len(r)
    <3>1. i > Len(r) /\ i - Len(r) \in 1..n BY <1>1, <2>2
    <3>2. q[i] = nx + (i - Len(r)) - 1 BY <3>1
    <3>3. all[Len(w) + (i - Len(r))] = q[i] BY <1>2, <1>3, <3>1, <3>2
    <3>4. Len(w) + (i - Len(r)) \in 1..Len(all) BY <1>1, <1>3, <3>1
    <3>5. q[i] >= 1 /\ q[i] < nx + n BY <3>1, <3>2
    <3> QED BY <3>3, <3>4, <3>5
  <2> QED BY <2>1, <2>2
<1>6. ASSUME NEW i \in 1..Len(q), NEW j \in 1..Len(q), i < j PROVE q[i] < q[j]
  <2>1. CASE j <= Len(r)
    <3>1. i \in 1..Len(r) /\ j \in 1..Len(r) BY <1>1, <1>6, <2>1
    <3>2. r[i] < r[j] BY <1>6, <3>1 DEF Reads
    <3> QED BY <3>1, <3>2
  <2>2. CASE i <= Len(r) /\ j > Len(r)
    <3>1. i \in 1..Len(r) BY <1>1, <2>2
    <3>2. q[i] = r[i] /\ r[i] \in Nat /\ r[i] < nx BY <1>4, <3>1
    <3>3. q[j] = nx + (j - Len(r)) - 1 BY <2>2
    <3> QED BY <1>1, <2>2, <3>2, <3>3, SMTT(20)
  <2>3. CASE i > Len(r)
    <3>1. j > Len(r) BY <1>1, <1>6, <2>3
    <3>2. q[i] = nx + (i - Len(r)) - 1 /\ q[j] = nx + (j - Len(r)) - 1 BY <2>3, <3>1
    <3> QED BY <1>1, <1>6, <3>2
  <2> QED BY <1>1, <2>1, <2>2, <2>3
<1>7. IsPrefix(r, q) BY <1>1, PrefixPointwise
<1> QED BY <1>5, <1>6, <1>7 DEF Reads, all, new

-----------------------------------------------------------------------------
(* Opening the file.                                                         *)

\* A repair keeps the events, and leaves a file that lacks at most one line feed.
LEMMA RepairKeeps ==
  ASSUME LogInv, RepairTruncate
  PROVE  /\ file' \in Seq(Byte) /\ ReadAll' = ReadAll
         /\ \E ev \in Seq(Nat) :
              /\ Holds(file', ev, Len(file'))
              /\ proc' = "open" => Len(file') = 3 * Len(ev)
              /\ proc' = "truncated" => Len(file') = 3 * Len(ev) - 1
<1>1. file \in Seq(Byte) BY DEF LogInv, LogTypes
<1>2. PICK ev \in Seq(Nat), n \in Nat : Holds(file, ev, n) BY DEF LogInv, FileInv
<1> DEFINE m == Events(n)
<1>3. m \in Nat /\ n \in (3 * m - 1)..(3 * m + 1) /\ m <= Len(ev)
  BY <1>1, <1>2, EventsBounds, EventsOfLog
<1>4. Good = IF m = 0 THEN 0 ELSE 3 * m - 1 BY <1>1, <1>2, ScanOfLog DEF Good
<1>5. n <= Len(file) /\ Len(file) # n + 1 /\ Len(file) \in Nat BY <1>1, <1>2 DEF Holds
<1> HIDE DEF m
<1>6. CASE m = 0
  <2>1. file' = <<>> /\ proc' = "open" BY <1>4, <1>6 DEF RepairTruncate, Opened
  <2>2. <<>> \in Seq(Byte) /\ <<>> \in Seq(Nat) /\ Len(<<>>) = 0 OBVIOUS
  <2>3. Holds(<<>>, <<>>, 0) BY <2>2 DEF Holds
  <2>4. Events(0) = 0 BY DEF Events
  <2>5. Scan(<<>>).events = <<>>
    <3>1. Scan(<<>>).events \in Seq(Nat) /\ Len(Scan(<<>>).events) = 0
      BY <2>2, <2>3, <2>4, EventsOfLog
    <3> QED BY <3>1, EmptySeq
  <2>6. Scan(file).events = <<>>
    <3>1. Scan(file).events \in Seq(Nat) /\ Len(Scan(file).events) = 0
      BY <1>1, <1>2, <1>6, EventsOfLog DEF m
    <3> QED BY <3>1, EmptySeq
  <2>7. file' \in Seq(Byte) /\ ReadAll' = ReadAll BY <2>1, <2>2, <2>5, <2>6 DEF ReadAll
  <2>8. Holds(file', <<>>, Len(file')) /\ Len(file') = 3 * Len(<<>>) BY <2>1, <2>2, <2>3
  <2> QED BY <2>1, <2>2, <2>7, <2>8
<1>7. CASE m # 0 /\ Len(file) = Good + 1
  <2>1. file' = file /\ proc' = "open" BY <1>3, <1>4, <1>7 DEF RepairTruncate, Opened
  <2>2. Len(file) = 3 * m /\ n = 3 * m BY <1>3, <1>4, <1>5, <1>7
  <2>3. /\ SubSeq(ev, 1, m) \in Seq(Nat) /\ Len(SubSeq(ev, 1, m)) = m
        /\ Holds(file, SubSeq(ev, 1, m), n)
    BY <1>1, <1>2, <1>3, <2>2, FewerEvents
  <2> QED BY <1>1, <2>1, <2>2, <2>3 DEF ReadAll
<1>8. CASE m # 0 /\ Len(file) # Good + 1
  <2> DEFINE k == 3 * m - 1
             cut == Prefix(file, k)
  <2>1. k \in Nat /\ k <= n /\ Good = k /\ Good # 0 /\ k <= Len(file) /\ k <= 3 * m
    BY <1>3, <1>4, <1>5, <1>8
  <2>2. proc' = "truncated" /\ file' = cut
    <3>1. proc' = "truncated" /\ file' = IF Len(file) = Good THEN file ELSE Prefix(file, Good)
      BY <1>8, <2>1 DEF RepairTruncate
    <3>2. Prefix(file, Len(file)) = file BY <1>1, SubSeqFull DEF Prefix
    <3> QED BY <2>1, <3>1, <3>2
  <2>3. cut \in Seq(Byte) /\ Len(cut) = k /\ Holds(cut, ev, k)
    BY <1>1, <1>2, <2>1, CutLog
  <2> HIDE DEF cut, k
  <2>4. /\ SubSeq(ev, 1, m) \in Seq(Nat) /\ Len(SubSeq(ev, 1, m)) = m
        /\ Holds(cut, SubSeq(ev, 1, m), k)
    BY <1>3, <2>1, <2>3, FewerEvents
  <2>5. Events(k) = m BY <1>3 DEF Events, k
  <2>6. Scan(cut).events = Scan(file).events
    <3>1. Scan(file).events = SubSeq(ev, 1, m) BY <1>1, <1>2, ScanOfLog DEF m
    <3>2. Scan(cut).events = SubSeq(ev, 1, m) BY <2>1, <2>3, <2>5, ScanOfLog
    <3> QED BY <3>1, <3>2
  <2>7. Len(file') = 3 * Len(SubSeq(ev, 1, m)) - 1 BY <2>2, <2>3, <2>4 DEF k
  <2> QED BY <2>2, <2>3, <2>4, <2>6, <2>7 DEF ReadAll
<1> QED BY <1>6, <1>7, <1>8

\* ... which the next step of the repair writes.
LEMMA LineFeedKeeps ==
  ASSUME LogInv, RepairLineFeed
  PROVE  /\ file' \in Seq(Byte) /\ ReadAll' = ReadAll
         /\ \E ev \in Seq(Nat) : Holds(file', ev, Len(file')) /\ Len(file') = 3 * Len(ev)
<1>1. file \in Seq(Byte) /\ proc = "truncated" /\ file' = Append(file, LineFeed)
  BY DEF LogInv, LogTypes, RepairLineFeed
<1>2. PICK ev \in Seq(Nat), n \in Nat :
        /\ Holds(file, ev, n) /\ n = 3 * Len(ev) - 1
        /\ n < Len(file) => disk = file /\ proc = "down"
  BY <1>1 DEF LogInv, FileInv
<1>3. n = Len(file) /\ Len(file) = 3 * Len(ev) - 1 /\ Len(ev) \in Nat
  <2>1. n <= Len(file) BY <1>2 DEF Holds
  <2>2. Len(file) \in Nat /\ Len(ev) \in Nat BY <1>1
  <2>3. ~(n < Len(file)) BY <1>1, <1>2
  <2> QED BY <1>2, <2>1, <2>2, <2>3
<1>4. file' \in Seq(Byte) /\ Len(file') = 3 * Len(ev) /\ Holds(file', ev, Len(file'))
  BY <1>1, <1>2, <1>3, LineFeedAdded
<1>5. Events(n) = Len(ev) /\ Events(Len(file')) = Len(ev) /\ Len(file') \in Nat
  BY <1>2, <1>3, <1>4 DEF Events
<1>6. Scan(file).events = SubSeq(ev, 1, Len(ev)) BY <1>1, <1>2, <1>5, ScanOfLog
<1>7. Scan(file').events = SubSeq(ev, 1, Len(ev)) BY <1>4, <1>5, ScanOfLog
<1> QED BY <1>4, <1>6, <1>7 DEF ReadAll

-----------------------------------------------------------------------------
(* Writing to it.                                                            *)

\* Part of a batch, or all of it, behind the whole events of an unbroken writer.
LEMMA BatchWritten ==
  ASSUME LogInv, proc = "open", broken = FALSE,
         NEW n \in Batches, NEW b \in 0..(3 * n),
         file' = file \o Prefix(Encode(next, n), b),
         next' = next + n, written' = written \o Numbers(next, n)
  PROVE  /\ file' \in Seq(Byte) /\ next' \in 1..(MaxEvents + 1)
         /\ written' \in Seq(1..MaxEvents)
         /\ \E ev \in Seq(Nat) : /\ Holds(file', ev, Len(file'))
                                 /\ b = 3 * n => Len(file') = 3 * Len(ev)
         /\ Reads(ReadAll', written', next') /\ IsPrefix(ReadAll, ReadAll')
         /\ b = 3 * n => ReadAll' = ReadAll \o Numbers(next, n)
<1>1. /\ file \in Seq(Byte) /\ next \in 1..(MaxEvents + 1) /\ written \in Seq(1..MaxEvents)
      /\ Reads(ReadAll, written, next) /\ MaxEvents \in Nat
  BY LogAssumption DEF LogInv, LogTypes
<1>2. n \in Nat /\ n >= 1 /\ next + n - 1 <= MaxEvents /\ next \in Nat /\ next >= 1
  BY <1>1, LogAssumption DEF Batches
<1>3. PICK ev \in Seq(Nat) : Holds(file, ev, Len(file)) /\ Len(file) = 3 * Len(ev)
  <2>1. PICK ev \in Seq(Nat), k \in Nat :
          /\ Holds(file, ev, k) /\ k = 3 * Len(ev)
          /\ k < Len(file) => disk = file /\ proc = "down"
    BY DEF LogInv, FileInv
  <2>2. k = Len(file) BY <1>1, <2>1 DEF Holds
  <2> QED BY <2>1, <2>2
<1> DEFINE new == Numbers(next, n)
           more == ev \o new
<1>4. /\ file' \in Seq(Byte) /\ more \in Seq(Nat) /\ Len(file') = Len(file) + b
      /\ Len(more) = Len(ev) + n /\ Holds(file', more, Len(file'))
  <2>1. b \in Nat /\ b <= 3 * n BY <1>2
  <2> DEFINE f2 == file \o Prefix(Encode(next, n), b)
  <2>2. /\ f2 \in Seq(Byte) /\ more \in Seq(Nat) /\ Len(f2) = Len(file) + b
        /\ Len(more) = Len(ev) + n /\ Holds(f2, more, Len(f2))
    BY <1>1, <1>2, <1>3, <2>1, MoreEvents
  <2> HIDE DEF more
  <2> QED BY <2>2
<1>5. /\ new \in Seq(Nat) /\ Len(new) = n /\ new \in Seq(1..MaxEvents)
      /\ \A k \in 1..n : new[k] = next + k - 1
  <2>1. \A k \in 1..n : next + k - 1 \in 1..MaxEvents BY <1>1, <1>2
  <2>2. \A k \in 1..n : next + k - 1 \in Nat BY <2>1
  <2>3. /\ new = [k \in 1..n |-> next + k - 1] /\ n \in Nat
        /\ \A k \in 1..n : new[k] = next + k - 1
    BY <1>2 DEF Numbers
  <2> HIDE DEF new
  <2>4. new \in Seq(Nat) /\ Len(new) = n BY <2>2, <2>3, IsASeq
  <2>5. new \in Seq(1..MaxEvents) BY <2>1, <2>3, IsASeq
  <2> QED BY <2>3, <2>4, <2>5
<1> HIDE DEF new
<1>6. /\ \A i \in 1..Len(ev) : more[i] = ev[i]
      /\ \A i \in 1..n : more[Len(ev) + i] = next + i - 1
  <2>1. new \in Seq(Nat) BY <1>5
  <2>2. /\ \A i \in 1..Len(ev) : more[i] = ev[i]
        /\ \A i \in 1..Len(new) : more[Len(ev) + i] = new[i]
    BY <2>1, ConcatAt
  <2> QED BY <1>5, <2>2
<1>0. Len(ev) \in Nat /\ Len(file) \in Nat /\ Len(file') \in Nat /\ b \in Nat /\ b <= 3 * n
  BY <1>1, <1>2, <1>4
<1> DEFINE r == Scan(file).events
           q == Scan(file').events
           h == Events(Len(file'))
<1>7. /\ r \in Seq(Nat) /\ Len(r) = Len(ev) /\ \A k \in 1..Len(ev) : r[k] = ev[k]
  <2>1. Len(ev) \in Nat /\ Len(file) = 3 * Len(ev) BY <1>1, <1>3
  <2>2. Events(Len(file)) = Len(ev) /\ Len(file) \in Nat BY <2>1 DEF Events
  <2> QED BY <1>1, <1>3, <2>2, EventsOfLog
<1>8. /\ q \in Seq(Nat) /\ Len(q) = h /\ h \in Nat /\ h <= Len(more)
      /\ \A k \in 1..h : q[k] = more[k]
  <2>1. Len(file') \in Nat BY <1>4
  <2> HIDE DEF more
  <2> QED BY <1>4, <2>1, EventsOfLog
<1>9. Len(ev) <= h /\ (b = 3 * n => h = Len(ev) + n)
  <2>1. Len(file') = 3 * Len(ev) + b BY <1>3, <1>4
  <2>2. /\ Len(ev) <= Events(3 * Len(ev) + b)
        /\ b = 3 * n => Events(3 * Len(ev) + b) = Len(ev) + n
    BY <1>0, <1>2, EventsAppended
  <2>3. h = Events(3 * Len(ev) + b) BY <2>1
  <2> HIDE DEF h, more
  <2> QED BY <2>2, <2>3
<1> HIDE DEF r, q, h, more
<1>10. /\ Len(r) <= Len(q) /\ Len(q) <= Len(r) + n
       /\ \A i \in 1..Len(r) : q[i] = r[i]
       /\ \A i \in 1..Len(q) : i > Len(r) => q[i] = next + (i - Len(r)) - 1
  <2>1. Len(r) = Len(ev) /\ Len(q) = h BY <1>7, <1>8
  <2>2. Len(r) <= Len(q) /\ Len(q) <= Len(r) + n BY <1>4, <1>8, <1>9, <2>1
  <2>3. \A i \in 1..Len(ev) : q[i] = r[i]
    <3>1. \A i \in 1..Len(ev) : i \in 1..h BY <1>0, <1>8, <1>9
    <3> QED BY <1>6, <1>7, <1>8, <3>1
  <2>4. ASSUME NEW i \in 1..Len(q), i > Len(r) PROVE q[i] = next + (i - Len(r)) - 1
    <3>1. i - Len(ev) \in 1..n /\ i = Len(ev) + (i - Len(ev))
      <4> DEFINE m == Len(ev)
                 l == Len(q)
      <4>1. m \in Nat /\ l \in Nat /\ n \in Nat /\ l <= m + n
        BY <1>0, <1>2, <1>8, <2>1, <2>2
      <4>2. i \in 1..l /\ i > m BY <2>1, <2>4
      <4> HIDE DEF m, l
      <4> SUFFICES i - m \in 1..n /\ i = m + (i - m) BY DEF m
      <4> QED BY <4>1, <4>2
    <3>2. q[i] = more[i] BY <1>8
    <3> QED BY <1>6, <2>1, <3>1, <3>2
  <2> QED BY <2>1, <2>2, <2>3, <2>4
<1>11. Reads(q, written \o new, next + n) /\ IsPrefix(r, q)
  <2>1. Reads(r, written, next) BY <1>1 DEF ReadAll, r
  <2>2. written \in Seq(Nat) BY <1>1
  <2> QED BY <1>2, <1>7, <1>8, <1>10, <2>1, <2>2, ReadsMore DEF new
<1>12. b = 3 * n => q = r \o new
  <2> SUFFICES ASSUME b = 3 * n PROVE q = r \o new OBVIOUS
  <2>1. Len(q) = Len(r) + n BY <1>7, <1>8, <1>9
  <2>2. new \in Seq(Nat) BY <1>5
  <2>3. /\ r \o new \in Seq(Nat) /\ Len(r \o new) = Len(r) + Len(new)
        /\ \A i \in 1..Len(r) : (r \o new)[i] = r[i]
        /\ \A i \in 1..Len(new) : (r \o new)[Len(r) + i] = new[i]
    <3>1. r \in Seq(Nat) BY <1>7
    <3> QED BY <2>2, <3>1, ConcatAt
  <2>4. ASSUME NEW i \in 1..Len(q) PROVE q[i] = (r \o new)[i]
    <3>1. Len(r) \in Nat /\ n \in Nat /\ Len(q) = Len(r) + n BY <1>2, <1>7, <2>1
    <3>2. CASE i <= Len(r)
      <4>1. i \in 1..Len(r) BY <3>1, <3>2
      <4> QED BY <1>10, <2>3, <4>1
    <3>3. CASE i > Len(r)
      <4>1. i - Len(r) \in 1..n /\ i = Len(r) + (i - Len(r)) BY <3>1, <3>3
      <4>2. q[i] = next + (i - Len(r)) - 1 BY <1>10, <3>3
      <4> QED BY <1>5, <2>3, <4>1, <4>2
    <3>4. i <= Len(r) \/ i > Len(r) BY <3>1
    <3> QED BY <3>2, <3>3, <3>4
  <2>5. Len(q) = Len(r \o new) BY <1>5, <2>1, <2>3
  <2> QED BY <1>8, <2>3, <2>4, <2>5, SeqEqual
<1>13. written \o new \in Seq(1..MaxEvents) BY <1>1, <1>5
<1>14. next + n \in 1..(MaxEvents + 1) BY <1>1, <1>2
<1>15. b = 3 * n => Len(file') = 3 * Len(more)
  BY <1>0, <1>2, <1>3, <1>4
<1> QED BY <1>4, <1>11, <1>12, <1>13, <1>14, <1>15 DEF ReadAll, r, q, new

-----------------------------------------------------------------------------
(* Losing power.                                                             *)

\* A log cut at byte n, with junk behind it.
LEMMA JunkAdded ==
  ASSUME NEW f \in Seq(Byte), NEW ev \in Seq(Nat), NEW k \in Nat, Holds(f, ev, k),
         NEW n \in Nat, n <= k, NEW j \in Nat, j # 1
  PROVE  LET g == Prefix(f, n) \o [i \in 1..j |-> Junk]
         IN  g \in Seq(Byte) /\ Holds(g, ev, n)
<1> DEFINE c == Prefix(f, n)
           junk == [i \in 1..j |-> Junk]
           g == c \o junk
<1>1. c \in Seq(Byte) /\ Len(c) = n /\ Holds(c, ev, n) BY CutLog
<1>2. junk \in Seq(Byte) /\ Len(junk) = j /\ \A i \in 1..j : junk[i] = Junk
  <2>1. Junk \in Byte /\ \A i \in 1..j : junk[i] = Junk BY BytesAreTyped
  <2> QED BY <2>1, IsASeq
<1> HIDE DEF c, junk
<1>3. /\ g \in Seq(Byte) /\ Len(g) = Len(c) + Len(junk)
      /\ \A i \in 1..Len(c) : g[i] = c[i]
      /\ \A i \in 1..Len(junk) : g[Len(c) + i] = junk[i]
  <2>1. c \in Seq(Byte) /\ junk \in Seq(Byte) BY <1>1, <1>2
  <2> QED BY <2>1, ConcatAt
<1> HIDE DEF g
<1>4. \A i \in 1..n : g[i] = ByteAt(ev, i)
  <2>1. \A i \in 1..n : c[i] = ByteAt(ev, i) BY <1>1 DEF Holds
  <2> QED BY <1>1, <1>3, <2>1
<1>5. \A i \in (n + 1)..Len(g) : g[i] = Junk
  <2> SUFFICES ASSUME NEW i \in (n + 1)..Len(g) PROVE g[i] = Junk OBVIOUS
  <2>1. Len(g) = n + j BY <1>1, <1>2, <1>3
  <2>2. i - n \in 1..j /\ i = n + (i - n) BY <2>1
  <2> QED BY <1>1, <1>2, <1>3, <2>2
<1>6. n <= Len(g) /\ Len(g) # n + 1 BY <1>1, <1>2, <1>3
<1>7. n <= 3 * Len(ev) BY <1>1 DEF Holds
<1>8. Holds(g, ev, n) BY <1>4, <1>5, <1>6, <1>7 DEF Holds
<1> QED BY <1>3, <1>8 DEF g, c, junk

\* The events on the disk are settled: file and disk agree on their bytes.
LEMMA DiskIsSettled ==
  ASSUME file \in Seq(Byte), disk \in Seq(Byte),
         NEW ev \in Seq(Nat), NEW k \in Nat, Holds(file, ev, k),
         NEW evd \in Seq(Nat), NEW kd \in Nat, Holds(disk, evd, kd),
         IsPrefix(Scan(disk).events, ReadAll)
  PROVE  /\ Settled \in Nat /\ 3 * Events(kd) - 1 <= Settled
         /\ file = disk => Len(file) <= Settled
<1> DEFINE m == Events(k)
           md == Events(kd)
           r == Scan(file).events
           rd == Scan(disk).events
           c == LongestCommonPrefix({file, disk})
<1>1. /\ c \in Seq(Byte)
      /\ \A n \in Nat : n <= Len(file) /\ n <= Len(disk) /\ (\A i \in 1..n : file[i] = disk[i])
                          => n <= Len(c)
  BY LongestPrefix
<1>2. Settled = Len(c) /\ Settled \in Nat BY <1>1 DEF Settled
<1>3. /\ m \in Nat /\ k \in (3 * m - 1)..(3 * m + 1) /\ r \in Seq(Nat) /\ Len(r) = m
      /\ \A i \in 1..m : r[i] = ev[i]
  <2>1. m \in Nat /\ k \in (3 * m - 1)..(3 * m + 1) BY EventsBounds
  <2>2. r \in Seq(Nat) /\ Len(r) = m /\ \A i \in 1..m : r[i] = ev[i] BY EventsOfLog
  <2> QED BY <2>1, <2>2
<1>4. /\ md \in Nat /\ kd \in (3 * md - 1)..(3 * md + 1) /\ rd \in Seq(Nat) /\ Len(rd) = md
      /\ \A i \in 1..md : rd[i] = evd[i]
  <2>1. md \in Nat /\ kd \in (3 * md - 1)..(3 * md + 1) BY EventsBounds
  <2>2. rd \in Seq(Nat) /\ Len(rd) = md /\ \A i \in 1..md : rd[i] = evd[i] BY EventsOfLog
  <2> QED BY <2>1, <2>2
<1>5. k <= Len(file) /\ \A i \in 1..k : file[i] = ByteAt(ev, i) BY DEF Holds
<1>6. kd <= Len(disk) /\ \A i \in 1..kd : disk[i] = ByteAt(evd, i) BY DEF Holds
<1>7. Len(file) \in Nat /\ Len(disk) \in Nat OBVIOUS
<1> HIDE DEF m, md, r, rd, c
<1>8. md <= m /\ \A i \in 1..md : rd[i] = r[i]
  <2>1. IsPrefix(rd, r) BY DEF ReadAll, r, rd
  <2>2. rd \in Seq(Nat) /\ r \in Seq(Nat) BY <1>3, <1>4
  <2>3. Len(rd) <= Len(r) /\ \A i \in 1..Len(rd) : rd[i] = r[i]
    BY <2>1, <2>2, PrefixPointwise
  <2>4. Len(rd) = md /\ Len(r) = m BY <1>3, <1>4
  <2> QED BY <2>3, <2>4
<1>9. \A i \in 1..md : evd[i] = ev[i]
  <2>1. \A i \in 1..md : i \in 1..m BY <1>3, <1>4, <1>8
  <2> QED BY <1>3, <1>4, <1>8, <2>1
<1>10. ASSUME NEW i \in 1..(3 * md - 1) PROVE file[i] = disk[i]
  <2>0. md \in Nat /\ m \in Nat /\ md <= m /\ k >= 3 * m - 1 /\ kd >= 3 * md - 1
    BY <1>3, <1>4, <1>8
  <2>1. (i - 1) \div 3 + 1 \in 1..md /\ i \in 1..k /\ i \in 1..kd BY <2>0
  <2>2. evd[(i - 1) \div 3 + 1] = ev[(i - 1) \div 3 + 1] BY <1>9, <2>1
  <2>3. ByteAt(evd, i) = ByteAt(ev, i) BY <2>2 DEF ByteAt
  <2> QED BY <1>5, <1>6, <2>1, <2>3
<1>11. 3 * md - 1 <= Settled
  <2>1. CASE md = 0 BY <1>2, <2>1
  <2>2. CASE md # 0
    <3>1. /\ 3 * md - 1 \in Nat /\ 3 * md - 1 <= Len(file) /\ 3 * md - 1 <= Len(disk)
      BY <1>3, <1>4, <1>5, <1>6, <1>7, <1>8, <2>2, SMTT(20)
    <3> QED BY <1>1, <1>2, <1>10, <3>1
  <2> QED BY <2>1, <2>2
<1>12. file = disk => Len(file) <= Settled BY <1>1, <1>2, <1>7
<1> QED BY <1>2, <1>11, <1>12 DEF md

\* What a power loss leaves holds all the disk gave back and no more than the file did.
LEMMA PowerLossReads ==
  ASSUME 1 \notin JunkLengths, LogInv, PowerLoss
  PROVE  /\ file' \in Seq(Byte)
         /\ \E ev \in Seq(Nat), n \in Nat : Holds(file', ev, n)
         /\ ReadAll' \in Seq(Nat)
         /\ IsPrefix(Scan(disk).events, ReadAll') /\ IsPrefix(ReadAll', ReadAll)
<1>1. /\ file \in Seq(Byte) /\ disk \in Seq(Byte) /\ ReadAll \in Seq(Nat)
      /\ IsPrefix(Scan(disk).events, ReadAll)
  BY DEF LogInv, LogTypes, Reads, PromiseInv
<1>2. PICK evd \in Seq(Nat), kd \in Nat : Holds(disk, evd, kd) BY DEF LogInv, DiskInv
<1>3. PICK ev \in Seq(Nat), k \in Nat : Holds(file, ev, k) /\ (k < Len(file) => disk = file)
  BY DEF LogInv, FileInv
<1>4. /\ Scan(disk).events \in Seq(Nat) /\ Len(Scan(disk).events) = Events(kd)
      /\ IsPrefix(Scan(disk).events, Scan(disk).events)
  <2>1. Scan(disk).events \in Seq(Nat) /\ Len(Scan(disk).events) = Events(kd)
    BY <1>1, <1>2, EventsOfLog
  <2> QED BY <2>1, PrefixPointwise
<1>5. CASE file' = disk
  BY <1>1, <1>2, <1>4, <1>5 DEF ReadAll
<1>6. ASSUME NEW n \in Settled..Len(file), NEW j \in JunkLengths, n + j <= Len(file),
             file' = Prefix(file, n) \o [i \in 1..j |-> Junk]
      PROVE  file' = disk \/ (n \in Nat /\ n <= k /\ j \in Nat /\ j # 1 /\ Events(kd) <= Events(n))
  <2>1. /\ Settled \in Nat /\ 3 * Events(kd) - 1 <= Settled
        /\ file = disk => Len(file) <= Settled
    BY <1>1, <1>2, <1>3, DiskIsSettled
  <2>2. j \in Nat /\ j # 1 /\ n \in Nat /\ n <= Len(file) /\ n >= Settled /\ Len(file) \in Nat
    <3>1. j \in Nat /\ j # 1 BY LogAssumption
    <3>2. Len(file) \in Nat BY <1>1
    <3> QED BY <2>1, <3>1, <3>2
  <2>3. CASE k < Len(file)
    <3>1. disk = file /\ n = Len(file) /\ j = 0 BY <1>3, <1>6, <2>1, <2>2, <2>3
    <3>2. Prefix(file, n) = file BY <1>1, <3>1, SubSeqFull DEF Prefix
    <3>3. [i \in 1..j |-> Junk] = <<>> BY <3>1
    <3>4. file \o <<>> = file BY <1>1
    <3> QED BY <1>6, <3>1, <3>2, <3>3, <3>4
  <2>4. CASE ~(k < Len(file))
    <3>1. n <= k BY <2>2, <2>4
    <3>2. Events(kd) \in Nat BY <1>2, EventsBounds
    <3>3. Events(kd) <= Events(n)
      <4>1. 3 * Events(kd) - 1 <= n BY <2>1, <2>2, <3>2
      <4> QED BY <2>2, <3>2, <4>1, EventsAtLeast
    <3> QED BY <2>2, <3>1, <3>3
  <2> QED BY <2>3, <2>4
<1>7. CASE \E n \in Settled..Len(file), j \in JunkLengths :
             n + j <= Len(file) /\ file' = Prefix(file, n) \o [i \in 1..j |-> Junk]
  <2>1. PICK n \in Settled..Len(file), j \in JunkLengths :
          n + j <= Len(file) /\ file' = Prefix(file, n) \o [i \in 1..j |-> Junk]
    BY <1>7
  <2>2. CASE file' = disk BY <1>5, <2>2
  <2>3. CASE file' # disk
    <3>1. n \in Nat /\ n <= k /\ j \in Nat /\ j # 1 /\ Events(kd) <= Events(n)
      BY <1>6, <2>1, <2>3
    <3>2. file' \in Seq(Byte) /\ Holds(file', ev, n)
      BY <1>1, <1>3, <2>1, <3>1, JunkAdded
    <3>3. /\ ReadAll' \in Seq(Nat) /\ Len(ReadAll') = Events(n) /\ Events(n) \in Nat
          /\ \A i \in 1..Events(n) : ReadAll'[i] = ev[i]
      BY <3>1, <3>2, EventsOfLog DEF ReadAll
    <3>4. /\ Len(ReadAll) = Events(k) /\ Events(k) \in Nat
          /\ \A i \in 1..Events(k) : ReadAll[i] = ev[i]
      BY <1>1, <1>3, EventsOfLog DEF ReadAll
    <3>5. Events(n) <= Events(k) BY <3>1 DEF Events
    <3>6. \A i \in 1..Events(n) : i \in 1..Events(k) BY <3>3, <3>4, <3>5
    <3>7. \A i \in 1..Events(n) : ReadAll'[i] = ReadAll[i] BY <3>3, <3>4, <3>6
    <3>8. IsPrefix(ReadAll', ReadAll) BY <1>1, <3>3, <3>4, <3>5, <3>7, PrefixPointwise
    <3>9. \A i \in 1..Events(kd) : Scan(disk).events[i] = ReadAll[i]
      <4> DEFINE s == Scan(disk).events
      <4>1. s \in Seq(Nat) /\ Len(s) = Events(kd) /\ ReadAll \in Seq(Nat) /\ IsPrefix(s, ReadAll)
        BY <1>1, <1>4
      <4> HIDE DEF s
      <4>2. \A i \in 1..Len(s) : s[i] = ReadAll[i] BY <4>1, PrefixPointwise, SMTT(20)
      <4> QED BY <4>1, <4>2 DEF s
    <3>10. \A i \in 1..Events(kd) : i \in 1..Events(n)
      <4>1. Events(kd) \in Nat BY <1>2, EventsBounds
      <4> QED BY <3>1, <3>3, <4>1
    <3>11. \A i \in 1..Events(kd) : Scan(disk).events[i] = ReadAll'[i] BY <3>7, <3>9, <3>10
    <3>12. IsPrefix(Scan(disk).events, ReadAll')
      BY <1>4, <3>1, <3>3, <3>11, PrefixPointwise
    <3> QED BY <3>2, <3>1, <3>3, <3>8, <3>12
  <2> QED BY <2>2, <2>3
<1> QED BY <1>5, <1>7 DEF PowerLoss

-----------------------------------------------------------------------------
(* The invariant is inductive.                                               *)

\* A new log satisfies the invariant.
LEMMA LogStarts == ASSUME LogInit PROVE LogInv
<1>1. <<>> \in Seq(Byte) /\ <<>> \in Seq(Nat) /\ <<>> \in Seq(1..MaxEvents) /\ Len(<<>>) = 0
  OBVIOUS
<1>2. Holds(<<>>, <<>>, 0) BY <1>1 DEF Holds
<1>3. Events(0) = 0 BY DEF Events
<1>4. Scan(<<>>).events = <<>>
  <2>1. Scan(<<>>).events \in Seq(Nat) /\ Len(Scan(<<>>).events) = 0
    BY <1>1, <1>2, <1>3, EventsOfLog
  <2> QED BY <2>1, EmptySeq
<1>5. IsPrefix(<<>>, <<>>) BY <1>1 DEF IsPrefix
<1>6. LogTypes
  <2>1. /\ file = <<>> /\ disk = <<>> /\ kept = <<>> /\ written = <<>>
        /\ proc = "down" /\ broken = FALSE /\ next = 1 /\ crashes = 0
    BY DEF LogInit
  <2>2. /\ file \in Seq(Byte) /\ disk \in Seq(Byte)
        /\ kept \in Seq(1..MaxEvents) /\ written \in Seq(1..MaxEvents)
    BY <1>1, <2>1
  <2>3. next \in 1..(MaxEvents + 1) /\ crashes \in 0..MaxCrashes BY <2>1, LogAssumption
  <2> QED BY <2>1, <2>2, <2>3 DEF LogTypes
<1>7. FileInv /\ DiskInv BY <1>1, <1>2 DEF LogInit, FileInv, DiskInv
<1>8. Reads(ReadAll, written, next)
  <2>1. ReadAll \in Seq(Nat) /\ Len(ReadAll) = 0 BY <1>1, <1>4 DEF LogInit, ReadAll
  <2>2. 1..0 = {} OBVIOUS
  <2> QED BY <2>1, <2>2 DEF Reads
<1>9. PromiseInv BY <1>4, <1>5 DEF LogInit, ReadAll, PromiseInv
<1> QED BY <1>6, <1>7, <1>8, <1>9 DEF LogInv

\* Opening the file changes neither its events nor the disk's.
LEMMA OpenStep ==
  ASSUME LogInv, UNCHANGED <<disk, broken, next, crashes>>, broken = FALSE,
         file' \in Seq(Byte), ReadAll' = ReadAll, Opened,
         NEW ev \in Seq(Nat), Holds(file', ev, Len(file')), Len(file') = 3 * Len(ev)
  PROVE  LogInv'
<1>1. /\ proc' = "open" /\ kept' = ReadAll /\ written' = ReadAll
  BY DEF Opened, ReadAll
<1>2. Reads(ReadAll, written, next) /\ next \in Nat /\ MaxEvents \in Nat /\ next <= MaxEvents + 1
  BY LogAssumption DEF LogInv, LogTypes
<1>3. ReadAll \in Seq(1..MaxEvents) /\ Reads(ReadAll, ReadAll, next) BY <1>2, ReadsTyped
<1>4. LogTypes' BY <1>1, <1>3 DEF LogInv, LogTypes
<1>5. FileInv'
  <2>1. Len(file') \in Nat /\ ~(Len(file') < Len(file')) OBVIOUS
  <2> QED BY <1>1, <2>1 DEF FileInv
<1>6. DiskInv' BY DEF LogInv, DiskInv
<1>7. IsPrefix(ReadAll, ReadAll) BY <1>3, PrefixPointwise
<1>8. PromiseInv' BY <1>1, <1>7 DEF LogInv, PromiseInv
<1> QED BY <1>1, <1>3, <1>4, <1>5, <1>6, <1>8 DEF LogInv

\* Every step of the log, and every crash and power loss, keeps the invariant.
LEMMA LogStep == ASSUME 1 \notin JunkLengths, LogInv, [LogNext]_logVars PROVE LogInv'
<1>1. /\ LogTypes /\ FileInv /\ DiskInv /\ Reads(ReadAll, written, next) /\ PromiseInv
      /\ file \in Seq(Byte) /\ disk \in Seq(Byte)
  BY DEF LogInv, LogTypes
<1>2. CASE RepairTruncate
  <2>1. /\ file' \in Seq(Byte) /\ ReadAll' = ReadAll
        /\ \E ev \in Seq(Nat) : /\ Holds(file', ev, Len(file'))
                                /\ proc' = "open" => Len(file') = 3 * Len(ev)
                                /\ proc' = "truncated" => Len(file') = 3 * Len(ev) - 1
    BY <1>2, RepairKeeps
  <2>2. UNCHANGED <<disk, broken, next, crashes>> /\ broken = FALSE
    BY <1>1, <1>2 DEF RepairTruncate, LogTypes
  <2>3. CASE Opened
    <3>1. proc' = "open" BY <2>3 DEF Opened
    <3> QED BY <2>1, <2>2, <2>3, <3>1, OpenStep
  <2>4. CASE proc' = "truncated" /\ UNCHANGED <<kept, written>>
    <3>1. LogTypes' BY <1>1, <2>1, <2>2, <2>4 DEF LogTypes
    <3>2. FileInv'
      <4>1. Len(file') \in Nat /\ ~(Len(file') < Len(file')) BY <2>1
      <4> QED BY <2>1, <2>4, <4>1 DEF FileInv
    <3>3. DiskInv' BY <1>1, <2>2 DEF DiskInv
    <3>4. PromiseInv' BY <1>1, <2>1, <2>2, <2>4 DEF PromiseInv
    <3> QED BY <1>1, <2>1, <2>2, <2>4, <3>1, <3>2, <3>3, <3>4 DEF LogInv
  <2> QED BY <1>2, <2>3, <2>4 DEF RepairTruncate
<1>3. CASE RepairLineFeed
  <2>1. /\ file' \in Seq(Byte) /\ ReadAll' = ReadAll
        /\ \E ev \in Seq(Nat) : Holds(file', ev, Len(file')) /\ Len(file') = 3 * Len(ev)
    BY <1>3, LineFeedKeeps
  <2>2. UNCHANGED <<disk, broken, next, crashes>> /\ broken = FALSE /\ Opened
    BY <1>1, <1>3 DEF RepairLineFeed, LogTypes
  <2> QED BY <2>1, <2>2, OpenStep
<1>4. CASE AppendOk
  <2>1. PICK n \in Batches :
          /\ file' = file \o Encode(next, n) /\ next' = next + n
          /\ kept' = kept \o Numbers(next, n) /\ written' = written \o Numbers(next, n)
    BY <1>4 DEF AppendOk
  <2>2. /\ proc = "open" /\ broken = FALSE /\ UNCHANGED <<disk, proc, broken, crashes>>
    BY <1>1, <1>4 DEF AppendOk, LogTypes
  <2>3. n \in Nat BY LogAssumption DEF Batches
  <2>4. Prefix(Encode(next, n), 3 * n) = Encode(next, n)
    <3>1. 3 * n \in Nat /\ Encode(next, n) = [k \in 1..(3 * n) |-> Encode(next, n)[k]]
      BY <2>3 DEF Encode
    <3> DEFINE c == Encode(next, n)
               R == {c[k] : k \in 1..(3 * n)}
    <3>2. c \in Seq(R) /\ Len(c) = 3 * n
      <4> HIDE DEF c
      <4> QED BY <3>1, IsASeq DEF c
    <3> HIDE DEF c, R
    <3> QED BY <3>2, SubSeqFull DEF Prefix, c
  <2>5. /\ file' \in Seq(Byte) /\ next' \in 1..(MaxEvents + 1)
        /\ written' \in Seq(1..MaxEvents)
        /\ \E ev \in Seq(Nat) : Holds(file', ev, Len(file')) /\ Len(file') = 3 * Len(ev)
        /\ Reads(ReadAll', written', next') /\ IsPrefix(ReadAll, ReadAll')
        /\ ReadAll' = ReadAll \o Numbers(next, n)
    <3>1. 3 * n \in 0..(3 * n) BY <2>3
    <3> QED BY <2>1, <2>2, <2>4, <3>1, BatchWritten
  <2>6. kept' = ReadAll' BY <1>1, <2>1, <2>2, <2>5 DEF PromiseInv
  <2>7. /\ ReadAll \in Seq(Nat) /\ ReadAll' \in Seq(Nat)
        /\ IsPrefix(ReadAll', ReadAll') /\ kept' \in Seq(1..MaxEvents)
    <3>1. ReadAll \in Seq(Nat) /\ ReadAll' \in Seq(Nat) BY <1>1, <2>5 DEF Reads
    <3>2. next' \in Nat /\ MaxEvents \in Nat /\ next' <= MaxEvents + 1 BY <2>5, LogAssumption
    <3>3. kept' \in Seq(1..MaxEvents) BY <2>5, <2>6, <3>2, ReadsTyped
    <3> QED BY <3>1, <3>3, PrefixPointwise
  <2>8. LogTypes' BY <1>1, <2>2, <2>5, <2>7 DEF LogTypes
  <2>9. FileInv'
    <3>1. Len(file') \in Nat /\ ~(Len(file') < Len(file')) BY <2>5
    <3> QED BY <2>2, <2>5, <3>1 DEF FileInv
  <2>10. DiskInv' BY <1>1, <2>2 DEF DiskInv
  <2>11. PromiseInv'
    <3>1. Scan(disk).events \in Seq(Nat) BY <1>1, DiskReadable
    <3>2. IsPrefix(Scan(disk).events, ReadAll')
      BY <1>1, <2>5, <2>7, <3>1, PrefixTransitive DEF PromiseInv
    <3> QED BY <2>2, <2>6, <2>7, <3>2 DEF PromiseInv
  <2> QED BY <2>5, <2>8, <2>9, <2>10, <2>11 DEF LogInv
<1>5. ASSUME proc = "open", ~broken, PartOfBatch, UNCHANGED <<disk, kept>>,
             \/ broken' = TRUE /\ UNCHANGED <<proc, crashes>>
             \/ crashes < MaxCrashes /\ Down
      PROVE  LogInv'
  <2>0. PICK n \in Batches : \E b \in 0..(3 * n - 1) :
          /\ file' = file \o Prefix(Encode(next, n), b)
          /\ next' = next + n /\ written' = written \o Numbers(next, n)
    BY <1>5 DEF PartOfBatch
  <2>1. PICK b \in 0..(3 * n - 1) :
          /\ file' = file \o Prefix(Encode(next, n), b)
          /\ next' = next + n /\ written' = written \o Numbers(next, n)
    BY <2>0
  <2>2. n \in Nat /\ b \in 0..(3 * n) /\ broken = FALSE
    BY <1>1, <1>5, LogAssumption DEF Batches, LogTypes
  <2>3. /\ file' \in Seq(Byte) /\ next' \in 1..(MaxEvents + 1)
        /\ written' \in Seq(1..MaxEvents)
        /\ \E ev \in Seq(Nat) : Holds(file', ev, Len(file'))
        /\ Reads(ReadAll', written', next') /\ IsPrefix(ReadAll, ReadAll')
    BY <1>5, <2>1, <2>2, BatchWritten
  <2>4. LogTypes'
    <3>1. /\ proc' \in {"open", "down"} /\ broken' \in BOOLEAN
          /\ broken' => proc' = "open"
      BY <1>5 DEF Down
    <3>4. crashes' \in 0..MaxCrashes
      <4>1. crashes \in 0..MaxCrashes /\ MaxCrashes \in Nat BY <1>1, LogAssumption DEF LogTypes
      <4> QED BY <1>5, <4>1 DEF Down
    <3>2. disk' \in Seq(Byte) /\ kept' \in Seq(1..MaxEvents) BY <1>1, <1>5 DEF LogTypes
    <3> QED BY <2>3, <3>1, <3>2, <3>4 DEF LogTypes
  <2>5. proc' \in {"open", "down"} /\ (proc' = "open" => broken' = TRUE) BY <1>5 DEF Down
  <2>6. FileInv'
    <3>1. Len(file') \in Nat /\ ~(Len(file') < Len(file')) BY <2>3
    <3> QED BY <2>3, <2>5, <3>1 DEF FileInv
  <2>7. DiskInv' BY <1>1, <1>5 DEF DiskInv
  <2>8. PromiseInv'
    <3>1. Scan(disk).events \in Seq(Nat) BY <1>1, DiskReadable
    <3>2. ReadAll \in Seq(Nat) /\ ReadAll' \in Seq(Nat) /\ kept \in Seq(Nat)
      <4>1. ReadAll \in Seq(Nat) /\ ReadAll' \in Seq(Nat) BY <1>1, <2>3 DEF Reads
      <4>2. kept \in Seq(1..MaxEvents) BY <1>1 DEF LogTypes
      <4> QED BY <4>1, <4>2, EventNumbers
    <3>3. IsPrefix(Scan(disk).events, ReadAll')
      BY <1>1, <2>3, <3>1, <3>2, PrefixTransitive DEF PromiseInv
    <3>4. IsPrefix(kept, ReadAll')
      BY <1>1, <2>3, <3>2, PrefixTransitive DEF PromiseInv
    <3> QED BY <1>5, <2>5, <3>3, <3>4 DEF PromiseInv
  <2> QED BY <2>3, <2>4, <2>6, <2>7, <2>8 DEF LogInv
<1>6. CASE AppendFails BY <1>5, <1>6 DEF AppendFails
<1>7. CASE CrashInAppend BY <1>5, <1>7 DEF CrashInAppend
<1>8. ASSUME UNCHANGED <<file, next, kept, written>>, LogTypes',
             disk' \in {file, disk}, proc' # "truncated",
             proc' # "down" => proc = "open", proc' = "down" => disk' = disk,
             proc' = "open" => broken' = broken
      PROVE  LogInv'
  <2>1. ReadAll' = ReadAll BY <1>8 DEF ReadAll
  <2>2. FileInv' BY <1>1, <1>8 DEF FileInv
  <2>3. DiskInv' BY <1>1, <1>8 DEF DiskInv, FileInv
  <2>4. IsPrefix(ReadAll, ReadAll)
    <3>1. ReadAll \in Seq(Nat) BY <1>1 DEF Reads
    <3> QED BY <3>1, PrefixPointwise
  <2>5. PromiseInv' BY <1>1, <1>8, <2>1, <2>4 DEF PromiseInv, ReadAll
  <2> QED BY <1>1, <1>8, <2>1, <2>2, <2>3, <2>5 DEF LogInv
<1>9. CASE Sync
  <2>1. LogTypes' BY <1>1, <1>9 DEF LogTypes, Sync
  <2>2. /\ UNCHANGED <<file, next, kept, written>> /\ disk' \in {file, disk}
        /\ proc' = "open" /\ broken' = broken /\ proc = "open"
    BY <1>9 DEF Sync
  <2> QED BY <1>8, <2>1, <2>2
<1>10. CASE CloseLog
  <2>1. LogTypes' BY <1>1, <1>10 DEF LogTypes, CloseLog
  <2>2. /\ UNCHANGED <<file, next, kept, written>> /\ disk' \in {file, disk}
        /\ proc' = "closed" /\ proc = "open"
    BY <1>10 DEF CloseLog
  <2> QED BY <1>8, <2>1, <2>2
<1>11. CASE Crash
  <2>1. /\ UNCHANGED <<file, disk, next, kept, written>>
        /\ proc' = "down" /\ broken' = FALSE /\ crashes < MaxCrashes /\ crashes' = crashes + 1
        /\ disk' \in {file, disk}
    BY <1>11 DEF Crash, Down
  <2>2. LogTypes'
    <3>1. crashes' \in 0..MaxCrashes BY <1>1, <2>1, LogAssumption DEF LogTypes
    <3> QED BY <1>1, <2>1, <3>1 DEF LogTypes
  <2> QED BY <1>8, <2>1, <2>2
<1>12. CASE PowerLoss
  <2>1. /\ file' \in Seq(Byte)
        /\ \E ev \in Seq(Nat), n \in Nat : Holds(file', ev, n)
        /\ ReadAll' \in Seq(Nat)
        /\ IsPrefix(Scan(disk).events, ReadAll') /\ IsPrefix(ReadAll', ReadAll)
    BY <1>12, PowerLossReads
  <2>2. /\ disk' = file' /\ UNCHANGED <<next, written>> /\ crashes < MaxCrashes
        /\ proc' = "down" /\ broken' = FALSE /\ crashes' = crashes + 1
        /\ kept' = LongestCommonPrefix({kept, Scan(disk).events})
    BY <1>12 DEF PowerLoss, Down
  <2>3. /\ kept' \in Seq(Nat) /\ IsPrefix(kept', Scan(disk).events)
    <3>1. Scan(disk).events \in Seq(Nat) /\ kept \in Seq(Nat)
      BY <1>1, DiskReadable, EventNumbers DEF LogTypes
    <3> QED BY <2>2, <3>1, LongestPrefix
  <2>4. next \in Nat /\ MaxEvents \in Nat /\ next <= MaxEvents + 1 BY <1>1, LogAssumption DEF LogTypes
  <2>5. Reads(ReadAll', written, next) BY <1>1, <2>1, <2>4, ReadsLess
  <2>6. IsPrefix(kept', ReadAll')
    <3>1. Scan(disk).events \in Seq(Nat) BY <1>1, DiskReadable
    <3> QED BY <2>1, <2>3, <3>1, PrefixTransitive
  <2>7. kept' \in Seq(1..MaxEvents)
    <3>1. Reads(kept', written, next) BY <2>3, <2>4, <2>5, <2>6, ReadsLess
    <3> QED BY <2>4, <3>1, ReadsTyped
  <2>8. LogTypes'
    <3>1. crashes' \in 0..MaxCrashes BY <1>1, <2>2, LogAssumption DEF LogTypes
    <3> QED BY <1>1, <2>1, <2>2, <2>7, <3>1 DEF LogTypes
  <2>9. FileInv' /\ DiskInv' BY <2>1, <2>2 DEF FileInv, DiskInv
  <2>10. PromiseInv'
    <3>1. Scan(disk)'.events = ReadAll' BY <2>2 DEF ReadAll
    <3>2. IsPrefix(ReadAll', ReadAll') BY <2>1, PrefixPointwise
    <3> QED BY <2>2, <2>6, <3>1, <3>2 DEF PromiseInv
  <2> QED BY <2>2, <2>5, <2>8, <2>9, <2>10 DEF LogInv
<1>13. CASE UNCHANGED logVars
  BY <1>1, <1>13 DEF logVars, LogInv, LogTypes, FileInv, DiskInv, ReadAll, PromiseInv
<1> QED
  BY <1>2, <1>3, <1>4, <1>6, <1>7, <1>9, <1>10, <1>11, <1>12, <1>13 DEF LogNext

-----------------------------------------------------------------------------
(* The promises.                                                             *)

\* The invariant of the log holds, unless the junk can be a single byte.
LEMMA LogAlways ==
  ASSUME 1 \notin JunkLengths
  PROVE  LogSpec => []LogInv
<1>1. LogInit => LogInv BY LogStarts
<1>2. LogInv /\ [LogNext]_logVars => LogInv' BY LogStep
<1> QED BY <1>1, <1>2, PTL DEF LogSpec

\* Whatever crashes and power losses happen, and wherever they fall, what a reader was
\* promised is read, first and in order, and nothing else than what was appended (NewWAL,
\* repairTail, Append, Sync, ReadAll) - unless a power loss leaves exactly one byte of
\* junk, which repairTail takes for the line feed.
THEOREM LogKeepsItsPromises ==
  ASSUME 1 \notin JunkLengths
  PROVE  LogSpec => []NothingLostNothingInvented
<1>1. LogInv => NothingLostNothingInvented
  <2> SUFFICES ASSUME LogInv PROVE NothingLostNothingInvented OBVIOUS
  <2>1. LogTypes /\ Reads(ReadAll, written, next) /\ IsPrefix(kept, ReadAll)
    BY DEF LogInv, PromiseInv
  <2>2. next \in Nat /\ MaxEvents \in Nat /\ next <= MaxEvents + 1
    BY <2>1, LogAssumption DEF LogTypes
  <2>3. ReadAll \in Seq(1..MaxEvents) BY <2>1, <2>2, ReadsTyped
  <2>4. LogTypeOK BY <2>1, <2>3 DEF LogTypes, LogTypeOK
  <2>5. DOMAIN ReadAll = 1..Len(ReadAll) /\ DOMAIN written = 1..Len(written)
    BY <2>1, <2>3 DEF LogTypes
  <2>6. \A i \in DOMAIN ReadAll : \E j \in DOMAIN written : ReadAll[i] = written[j]
    BY <2>1, <2>5 DEF Reads
  <2>7. \A i, j \in DOMAIN ReadAll : i < j => ReadAll[i] < ReadAll[j]
    BY <2>1, <2>5 DEF Reads
  <2> QED BY <2>1, <2>4, <2>6, <2>7 DEF NothingLostNothingInvented
<1> QED BY <1>1, LogAlways, PTL

\* An opened file with events in it ends with the line feed of the last one, whatever the
\* crash that came before left of it (repairTail), under the same condition.
THEOREM LogEndsInLineFeed ==
  ASSUME 1 \notin JunkLengths
  PROVE  LogSpec => []EndsInLineFeed
<1>1. LogInv => EndsInLineFeed
  <2> SUFFICES ASSUME LogInv, proc = "open", ~broken, file # <<>>
               PROVE  file[Len(file)] = LineFeed
    BY DEF EndsInLineFeed
  <2>1. file \in Seq(Byte) BY DEF LogInv, LogTypes
  <2>2. PICK ev \in Seq(Nat), n \in Nat :
          Holds(file, ev, n) /\ ~(n < Len(file)) /\ n = 3 * Len(ev)
    BY DEF LogInv, FileInv
  <2>3. Len(file) \in Nat /\ Len(file) # 0 /\ Len(ev) \in Nat BY <2>1, EmptySeq
  <2>4. n = Len(file) /\ Len(file) \in 1..n
    <3>1. n <= Len(file) BY <2>2 DEF Holds
    <3> QED BY <2>2, <2>3, <3>1
  <2>5. file[Len(file)] = ByteAt(ev, 3 * Len(ev)) BY <2>2, <2>4 DEF Holds
  <2>6. Len(ev) >= 1 BY <2>2, <2>3, <2>4
  <2> QED BY <2>3, <2>5, <2>6, BytesOfEvent
<1> QED BY <1>1, LogAlways, PTL

\* What main replays when the file is opened, after whatever crashes, is what a reader was
\* promised before the repair, first and in order, and nothing that was not appended
\* (NewWAL, repairTail), under the same condition.
THEOREM LogReplays ==
  ASSUME 1 \notin JunkLengths
  PROVE  LogSpec => ReplayIsTrue
<1>1. ASSUME LogInv, [LogNext]_logVars, proc # "open", proc' = "open"
      PROVE  /\ IsPrefix(kept, kept')
             /\ \A i \in DOMAIN kept' : \E j \in DOMAIN written : kept'[i] = written[j]
  <2>1. Reads(ReadAll, written, next) /\ IsPrefix(kept, ReadAll) /\ LogTypes
    BY <1>1 DEF LogInv, PromiseInv
  <2>2. (RepairTruncate \/ RepairLineFeed) /\ Opened
    BY <1>1 DEF LogNext, logVars, RepairTruncate, RepairLineFeed, AppendOk, AppendFails, Sync,
       CloseLog, Crash, CrashInAppend, PowerLoss, Down
  <2>3. ReadAll' = ReadAll BY <1>1, <2>2, RepairKeeps, LineFeedKeeps
  <2>4. kept' = ReadAll BY <2>2, <2>3 DEF Opened, ReadAll
  <2>5. DOMAIN ReadAll = 1..Len(ReadAll) /\ DOMAIN written = 1..Len(written)
    BY <2>1 DEF Reads, LogTypes
  <2> QED BY <2>1, <2>4, <2>5 DEF Reads
<1>2. LogInv /\ [LogNext]_logVars =>
        [proc # "open" /\ proc' = "open" =>
           /\ IsPrefix(kept, kept')
           /\ \A i \in DOMAIN kept' : \E j \in DOMAIN written : kept'[i] = written[j]]_logVars
  BY <1>1
<1> QED BY <1>2, LogAlways, PTL DEF LogSpec, ReplayIsTrue

-----------------------------------------------------------------------------
(* The archiver.                                                             *)

\* closeMu: who holds it for writing, and that readers and writer exclude each other.
LockInv ==
  /\ lock = "held" <=> closer = "mark"
  /\ lock = "waiting" <=> closer = "lock"
  /\ lock = "held" => Readers = {}

\* What is closed, and who has stopped.
ClosedInv ==
  /\ closed = chClosed
  /\ chClosed <=> closer \notin {"idle", "lock", "mark"}
  /\ chClosed => \A o \in Orders : push[o] # "send"
  /\ worker \in {"last flush", "done"} => chClosed /\ orderCh = <<>>
  /\ worker = "done" => batch = <<>>
  /\ worker = "receive" => Len(batch) < BatchSize
  /\ closer = "grace" => expired
  /\ closer = "returned" /\ ~expired => worker = "done"

\* The inductive invariant of the locking and the closing.
CloseInv == TypeOK /\ LockInv /\ ClosedInv

USE DEF pushVars, queueVars, workerVars, closeVars

\* Push keeps it: its look at closed and its send are under the read lock.
LEMMA PushKeeps ==
  ASSUME CloseInv, NEW o \in Orders, Push(o)
  PROVE  CloseInv'
<1> USE DEF CloseInv, PushSteps
<1>1. CASE RLock(o)
  <2>1. TypeOK' BY <1>1 DEF RLock, TypeOK
  <2>2. LockInv' BY <1>1 DEF RLock, LockInv, Readers
  <2>3. ClosedInv' BY <1>1 DEF RLock, ClosedInv, TypeOK
  <2> QED BY <2>1, <2>2, <2>3
<1>2. CASE Look(o)
  <2>1. TypeOK' BY <1>2 DEF Look, TypeOK
  <2>2. LockInv' BY <1>2 DEF Look, LockInv, Readers, TypeOK
  <2>3. ClosedInv' BY <1>2 DEF Look, ClosedInv, TypeOK
  <2> QED BY <2>1, <2>2, <2>3
<1>3. CASE Send(o)
  <2>1. TypeOK'
    <3>1. /\ orderCh' \in Seq(Orders) /\ Len(orderCh') = Len(orderCh) + 1
          /\ accepted' \in Seq(Orders)
      BY <1>3 DEF Send, TypeOK
    <3>2. Len(orderCh') <= QueueRoom BY <1>3, <3>1, BatcherAssumption DEF Send, TypeOK
    <3> QED BY <1>3, <3>1, <3>2 DEF Send, TypeOK
  <2>2. LockInv' BY <1>3 DEF Send, LockInv, Readers, TypeOK
  <2>3. ClosedInv' BY <1>3 DEF Send, ClosedInv, TypeOK
  <2> QED BY <2>1, <2>2, <2>3
<1> QED BY <1>1, <1>2, <1>3 DEF Push

\* The worker and the sink keep it: the worker stops with nothing left.
LEMMA WorkerKeeps ==
  ASSUME CloseInv, Worker \/ Sink
  PROVE  CloseInv'
<1> USE DEF CloseInv, WorkerSteps
<1>1. CASE Receive
  <2>1. /\ batch' \in Seq(Orders) /\ Len(batch') = Len(batch) + 1
        /\ orderCh' \in Seq(Orders) /\ Len(orderCh') = Len(orderCh) - 1
    BY <1>1 DEF Receive, TypeOK
  <2>2. /\ Len(batch) < BatchSize
        /\ worker' = IF Len(batch') >= BatchSize THEN "flush" ELSE "receive"
    BY <1>1 DEF Receive, ClosedInv
  <2>3. TypeOK' BY <1>1, <2>1, <2>2, BatcherAssumption DEF Receive, TypeOK
  <2>4. LockInv' BY <1>1 DEF Receive, LockInv, Readers
  <2>5. ClosedInv'
    <3>1. Len(batch') \in Nat /\ worker' \in {"flush", "receive"} BY <2>1, <2>2
    <3>2. worker' = "receive" => Len(batch') < BatchSize BY <2>2, <3>1, BatcherAssumption
    <3>3. UNCHANGED <<pushVars, closeVars>> /\ worker = "receive" BY <1>1 DEF Receive
    <3> QED BY <3>1, <3>2, <3>3 DEF ClosedInv
  <2> QED BY <2>3, <2>4, <2>5
<1>2. CASE Tick BY <1>2 DEF Tick, TypeOK, LockInv, Readers, ClosedInv
<1>3. CASE ChannelClosed BY <1>3 DEF ChannelClosed, TypeOK, LockInv, Readers, ClosedInv
<1>4. CASE Sink
  <2>1. archived' \in Seq(Orders) /\ lost' \subseteq Orders
    <3>1. CASE SinkStores
      <4>1. archived' = archived \o batch /\ lost' = lost BY <3>1 DEF SinkStores
      <4>2. archived \in Seq(Orders) /\ batch \in Seq(Orders) /\ lost \subseteq Orders
        BY DEF TypeOK
      <4>3. archived \o batch \in Seq(Orders) BY <4>2
      <4> QED BY <4>1, <4>2, <4>3
    <3>2. CASE SinkFails
      <4>1. /\ archived' \in {archived, archived \o batch}
            /\ lost' = lost \cup {batch[i] : i \in DOMAIN batch}
        BY <3>2 DEF SinkFails
      <4>2. batch \in Seq(Orders) /\ archived \in Seq(Orders) /\ lost \subseteq Orders
        BY DEF TypeOK
      <4>3. archived \o batch \in Seq(Orders) /\ \A i \in DOMAIN batch : batch[i] \in Orders
        BY <4>2
      <4> QED BY <4>1, <4>2, <4>3
    <3> QED BY <1>4, <3>1, <3>2 DEF Sink
  <2>2. /\ batch' = <<>> /\ worker' = AfterFlush /\ worker \in {"flush", "last flush"}
        /\ UNCHANGED <<push, closed, chClosed, lock, orderCh, accepted, closer, cancelled,
                       expired>>
    BY <1>4 DEF Sink, SinkStores, SinkFails, Flushing
  <2>3. batch' \in Seq(Orders) /\ Len(batch') = 0
    <3>1. batch' = <<>> BY <2>2
    <3> QED BY <3>1
  <2>4. TypeOK'
    <3>1. worker' \in WorkerSteps BY <2>2 DEF AfterFlush
    <3>2. Len(batch') <= BatchSize BY <2>3, BatcherAssumption
    <3>3. UNCHANGED <<push, closed, chClosed, lock, orderCh, accepted, closer, cancelled,
                      expired>>
      BY <2>2
    <3> QED BY <2>1, <2>3, <3>1, <3>2, <3>3 DEF TypeOK
  <2>5. LockInv' BY <2>2 DEF LockInv, Readers
  <2>6. ClosedInv'
    <3>1. worker' = "receive" => Len(batch') < BatchSize BY <2>3, BatcherAssumption
    <3>2. worker' \in {"last flush", "done"} => worker = "last flush" /\ worker' = "done"
      BY <2>2 DEF AfterFlush
    <3>3. worker # "done" BY <2>2
    <3> QED BY <2>2, <3>1, <3>2, <3>3 DEF ClosedInv
  <2> QED BY <2>4, <2>5, <2>6
<1> QED BY <1>1, <1>2, <1>3, <1>4 DEF Worker

\* Close keeps it: the channel is closed under the write lock.
LEMMA CloseKeeps ==
  ASSUME CloseInv, LockWaits \/ Close \/ Expire
  PROVE  CloseInv'
<1> USE DEF CloseInv, CloserSteps
<1>1. CASE LockWaits BY <1>1 DEF LockWaits, TypeOK, LockInv, ClosedInv
<1>2. CASE LockTaken BY <1>2 DEF LockTaken, TypeOK, LockInv, ClosedInv, Readers
<1>3. CASE CloseChannel
  BY <1>3 DEF CloseChannel, TypeOK, LockInv, ClosedInv, Readers
<1>4. CASE WorkerDone BY <1>4 DEF WorkerDone, TypeOK, LockInv, ClosedInv, Readers
<1>5. CASE GiveUp BY <1>5 DEF GiveUp, TypeOK, LockInv, ClosedInv, Readers
<1>6. CASE GraceOver BY <1>6 DEF GraceOver, TypeOK, LockInv, ClosedInv, Readers
<1>7. CASE Expire BY <1>7 DEF Expire, TypeOK, LockInv, ClosedInv, Readers
<1> QED BY <1>1, <1>2, <1>3, <1>4, <1>5, <1>6, <1>7 DEF Close

\* CloseInv holds in every behaviour.
THEOREM CloseInvariantHolds == Spec => []CloseInv
<1>1. Init => CloseInv
  <2> SUFFICES ASSUME Init PROVE CloseInv
    OBVIOUS
  <2>1. /\ orderCh \in Seq(Orders) /\ batch \in Seq(Orders) /\ archived \in Seq(Orders)
        /\ accepted \in Seq(Orders) /\ Len(orderCh) = 0 /\ Len(batch) = 0
    BY DEF Init
  <2>2. push \in [Orders -> PushSteps] BY DEF Init, PushSteps
  <2>3. TypeOK
    <3>1. Len(orderCh) <= QueueRoom /\ Len(batch) <= BatchSize BY <2>1, BatcherAssumption
    <3>2. /\ lock = "free" /\ closed = FALSE /\ chClosed = FALSE /\ cancelled = FALSE
          /\ expired = FALSE /\ lost = {} /\ worker = "receive" /\ closer = "idle"
      BY DEF Init
    <3> QED BY <2>1, <2>2, <3>1, <3>2 DEF TypeOK, WorkerSteps, CloserSteps
  <2>4. LockInv BY DEF Init, LockInv
  <2>5. ClosedInv
    <3>1. Len(batch) < BatchSize BY <2>1, BatcherAssumption
    <3>2. closed = FALSE /\ chClosed = FALSE /\ worker = "receive" /\ closer = "idle"
      BY DEF Init
    <3> QED BY <3>1, <3>2 DEF ClosedInv
  <2> QED BY <2>3, <2>4, <2>5 DEF CloseInv
<1>2. CloseInv /\ [Next]_vars => CloseInv'
  <2>1. CloseInv /\ Next => CloseInv' BY PushKeeps, WorkerKeeps, CloseKeeps DEF Next
  <2>2. CloseInv /\ UNCHANGED vars => CloseInv'
    <3> SUFFICES ASSUME CloseInv, UNCHANGED vars PROVE CloseInv'
      OBVIOUS
    <3>1. TypeOK' BY DEF vars, CloseInv, TypeOK
    <3> QED BY <3>1 DEF vars, CloseInv, LockInv, ClosedInv, Readers
  <2> QED BY <2>1, <2>2
<1> QED BY <1>1, <1>2, PTL DEF Spec

\* Nobody is about to send on the closed channel (batcher.go 105-113).
THEOREM NobodySendsOnClosed == Spec => []NoSendOnClosed
<1>1. CloseInv => NoSendOnClosed BY DEF CloseInv, ClosedInv, NoSendOnClosed
<1> QED BY <1>1, CloseInvariantHolds, PTL

\* A Close that returns in time has left nothing in memory (batcher.go 115).
THEOREM CloseInTimeDrains == Spec => []CloseDrains
<1>1. CloseInv => CloseDrains BY DEF CloseInv, ClosedInv, CloseDrains
<1> QED BY <1>1, CloseInvariantHolds, PTL

-----------------------------------------------------------------------------
(* The places of an order.                                                   *)

\* The elements of a line are those of its parts.
LEMMA SetOfParts ==
  ASSUME NEW S, NEW a \in Seq(S), NEW b \in Seq(S)
  PROVE  ToSet(a \o b) = ToSet(a) \cup ToSet(b)
<1>1. /\ a \o b \in Seq(S) /\ DOMAIN (a \o b) = 1..(Len(a) + Len(b))
      /\ \A i \in 1..Len(a) : (a \o b)[i] = a[i]
      /\ \A i \in 1..Len(b) : (a \o b)[Len(a) + i] = b[i]
      /\ DOMAIN a = 1..Len(a) /\ DOMAIN b = 1..Len(b) /\ Len(a) \in Nat /\ Len(b) \in Nat
  OBVIOUS
<1>2. ASSUME NEW i \in DOMAIN (a \o b) PROVE (a \o b)[i] \in ToSet(a) \cup ToSet(b)
  <2>1. CASE i <= Len(a) BY <2>1, <1>1 DEF ToSet
  <2>2. CASE i > Len(a)
    <3>1. i - Len(a) \in 1..Len(b) /\ i = Len(a) + (i - Len(a)) BY <2>2, <1>1
    <3> QED BY <3>1, <1>1 DEF ToSet
  <2> QED BY <2>1, <2>2, <1>1
<1>3. ASSUME NEW i \in DOMAIN a PROVE a[i] \in ToSet(a \o b)
  BY <1>1 DEF ToSet
<1>4. ASSUME NEW i \in DOMAIN b PROVE b[i] \in ToSet(a \o b)
  <2>1. Len(a) + i \in DOMAIN (a \o b) BY <1>1
  <2> QED BY <2>1, <1>1 DEF ToSet
<1> QED BY <1>2, <1>3, <1>4 DEF ToSet

\* A line repeats nothing exactly when its parts repeat nothing and share nothing.
LEMMA InjectiveParts ==
  ASSUME NEW S, NEW a \in Seq(S), NEW b \in Seq(S)
  PROVE  IsInjective(a \o b) <=>
           IsInjective(a) /\ IsInjective(b) /\ ToSet(a) \cap ToSet(b) = {}
<1>1. /\ DOMAIN (a \o b) = 1..(Len(a) + Len(b))
      /\ \A i \in 1..Len(a) : (a \o b)[i] = a[i]
      /\ \A i \in 1..Len(b) : (a \o b)[Len(a) + i] = b[i]
      /\ DOMAIN a = 1..Len(a) /\ DOMAIN b = 1..Len(b) /\ Len(a) \in Nat /\ Len(b) \in Nat
  OBVIOUS
<1>2. ASSUME IsInjective(a \o b)
      PROVE  IsInjective(a) /\ IsInjective(b) /\ ToSet(a) \cap ToSet(b) = {}
  <2>1. \A i, j \in 1..(Len(a) + Len(b)) : (a \o b)[i] = (a \o b)[j] => i = j
    BY <1>1, <1>2 DEF IsInjective
  <2>2. ASSUME NEW i \in DOMAIN a, NEW j \in DOMAIN a, a[i] = a[j] PROVE i = j
    BY <2>1, <2>2, <1>1
  <2>3. ASSUME NEW i \in DOMAIN b, NEW j \in DOMAIN b, b[i] = b[j] PROVE i = j
    <3>1. Len(a) + i \in 1..(Len(a) + Len(b)) /\ Len(a) + j \in 1..(Len(a) + Len(b))
      BY <1>1
    <3>2. Len(a) + i = Len(a) + j BY <3>1, <2>1, <2>3, <1>1
    <3> QED BY <3>2, <1>1
  <2>4. ASSUME NEW i \in DOMAIN a, NEW j \in DOMAIN b PROVE a[i] # b[j]
    <3>1. Len(a) + j \in 1..(Len(a) + Len(b)) /\ i \in 1..(Len(a) + Len(b)) /\ i # Len(a) + j
      BY <1>1
    <3> QED BY <3>1, <2>1, <1>1
  <2> QED BY <2>2, <2>3, <2>4 DEF IsInjective, ToSet
<1>3. ASSUME IsInjective(a), IsInjective(b), ToSet(a) \cap ToSet(b) = {}
      PROVE  IsInjective(a \o b)
  <2>1. ASSUME NEW i \in 1..Len(a), NEW j \in 1..Len(b) PROVE a[i] # b[j]
    BY <1>1, <1>3 DEF ToSet
  <2> SUFFICES ASSUME NEW i \in DOMAIN (a \o b), NEW j \in DOMAIN (a \o b),
                      (a \o b)[i] = (a \o b)[j]
               PROVE  i = j
    BY DEF IsInjective
  <2>2. CASE i <= Len(a) /\ j <= Len(a) BY <2>2, <1>1, <1>3 DEF IsInjective
  <2>3. CASE i <= Len(a) /\ j > Len(a)
    <3>1. j - Len(a) \in 1..Len(b) /\ j = Len(a) + (j - Len(a)) BY <2>3, <1>1
    <3> QED BY <3>1, <2>1, <2>3, <1>1
  <2>4. CASE i > Len(a) /\ j <= Len(a)
    <3>1. i - Len(a) \in 1..Len(b) /\ i = Len(a) + (i - Len(a)) BY <2>4, <1>1
    <3> QED BY <3>1, <2>1, <2>4, <1>1
  <2>5. CASE i > Len(a) /\ j > Len(a)
    <3>1. /\ i - Len(a) \in 1..Len(b) /\ i = Len(a) + (i - Len(a))
          /\ j - Len(a) \in 1..Len(b) /\ j = Len(a) + (j - Len(a))
      BY <2>5, <1>1
    <3>2. b[i - Len(a)] = b[j - Len(a)] BY <3>1, <1>1
    <3>3. i - Len(a) = j - Len(a) BY <3>1, <3>2, <1>1, <1>3 DEF IsInjective
    <3> QED BY <3>1, <3>3, <1>1
  <2> QED BY <2>2, <2>3, <2>4, <2>5, <1>1
<1> QED BY <1>2, <1>3

\* A line grows at its end by an order that is not in it.
LEMMA Enqueued ==
  ASSUME NEW S, NEW a \in Seq(S), NEW e \in S, e \notin ToSet(a), IsInjective(a)
  PROVE  IsInjective(Append(a, e)) /\ ToSet(Append(a, e)) = ToSet(a) \cup {e}
<1>1. /\ DOMAIN Append(a, e) = 1..(Len(a) + 1) /\ DOMAIN a = 1..Len(a) /\ Len(a) \in Nat
      /\ \A i \in 1..Len(a) : Append(a, e)[i] = a[i]
      /\ Append(a, e)[Len(a) + 1] = e
  OBVIOUS
<1>2. \A i \in 1..Len(a) : a[i] # e BY <1>1 DEF ToSet
<1>3. \A i \in 1..(Len(a) + 1) : i \in 1..Len(a) \/ i = Len(a) + 1 BY <1>1
<1>4. IsInjective(Append(a, e)) BY <1>1, <1>2, <1>3 DEF IsInjective
<1>5. ToSet(Append(a, e)) = ToSet(a) \cup {e}
  <2>1. \A i \in DOMAIN Append(a, e) : Append(a, e)[i] \in ToSet(a) \cup {e}
    BY <1>1, <1>3 DEF ToSet
  <2>2. \A i \in DOMAIN a : a[i] \in ToSet(Append(a, e)) BY <1>1, <1>3 DEF ToSet
  <2>3. e \in ToSet(Append(a, e)) BY <1>1, <1>3 DEF ToSet
  <2> QED BY <2>1, <2>2, <2>3 DEF ToSet
<1> QED BY <1>4, <1>5

\* A line begins with its first part.
LEMMA ConcatBegins ==
  ASSUME NEW S, NEW a \in Seq(S), NEW b \in Seq(S)
  PROVE  SubSeq(a \o b, 1, Len(a)) = a
<1> DEFINE ab == a \o b
           n == Len(a)
<1>1. /\ ab \in Seq(S) /\ n \in Nat /\ n <= Len(ab)
      /\ \A i \in 1..n : ab[i] = a[i]
  OBVIOUS
<1> HIDE DEF ab
<1>2. /\ SubSeq(ab, 1, n) \in Seq(S) /\ Len(SubSeq(ab, 1, n)) = n
      /\ \A i \in 1..n : SubSeq(ab, 1, n)[i] = ab[i]
  BY <1>1
<1>3. SubSeq(ab, 1, n) = a BY <1>1, <1>2, SeqEqual
<1> QED BY <1>3 DEF ab

\* A line whose end grows.
LEMMA EndGrows ==
  ASSUME NEW S, NEW a \in Seq(S), NEW b \in Seq(S), NEW e \in S
  PROVE  a \o Append(b, e) = Append(a \o b, e)
<1>1. Append(b, e) = b \o <<e>> /\ <<e>> \in Seq(S) BY AppendIsConcat
<1>2. a \o b \in Seq(S) BY ConcatProperties
<1>3. Append(a \o b, e) = (a \o b) \o <<e>> BY <1>2, AppendIsConcat
<1> QED BY <1>1, <1>3, ConcatAssociative

\* A head that moves to the end of the line before it stays where it is in the whole.
LEMMA HeadMoves ==
  ASSUME NEW S, NEW a \in Seq(S), NEW b \in Seq(S), b # <<>>
  PROVE  Append(a, Head(b)) \o Tail(b) = a \o b
<1>1. Head(b) \in S /\ Tail(b) \in Seq(S) /\ <<Head(b)>> \in Seq(S) OBVIOUS
<1>2. Append(a, Head(b)) = a \o <<Head(b)>> BY <1>1, AppendIsConcat
<1>3. (a \o <<Head(b)>>) \o Tail(b) = a \o (<<Head(b)>> \o Tail(b)) BY <1>1, ConcatAssociative
<1>4. <<Head(b)>> \o Tail(b) = b
  <2>1. /\ Len(b) \in Nat /\ Len(b) >= 1 /\ Len(Tail(b)) = Len(b) - 1 /\ Head(b) = b[1]
        /\ \A i \in 1..(Len(b) - 1) : Tail(b)[i] = b[i + 1]
    OBVIOUS
  <2>2. <<Head(b)>> \o Tail(b) \in Seq(S) /\ Len(<<Head(b)>> \o Tail(b)) = Len(b)
    BY <1>1, <2>1
  <2>3. \A i \in 1..Len(b) : (<<Head(b)>> \o Tail(b))[i] = b[i] BY <1>1, <2>1
  <2> QED BY <2>2, <2>3, SeqEqual
<1> QED BY <1>2, <1>3, <1>4

\* Two lines that stand in the same order still do when the longer one grows, and when
\* both grow by the same.
LEMMA OrderGrows ==
  ASSUME NEW S, NEW s \in Seq(S), NEW t \in Seq(S), NEW b \in Seq(S),
         InOrderOf(s, t), ToSet(s) \subseteq ToSet(t)
  PROVE  InOrderOf(s, t \o b) /\ InOrderOf(s \o b, t \o b)
<1> DEFINE sb == s \o b
           tb == t \o b
<1>1. /\ DOMAIN s = 1..Len(s) /\ DOMAIN t = 1..Len(t) /\ DOMAIN b = 1..Len(b)
      /\ Len(s) \in Nat /\ Len(t) \in Nat /\ Len(b) \in Nat
  OBVIOUS
<1>2. /\ DOMAIN sb = 1..(Len(s) + Len(b)) /\ \A i \in 1..Len(s) : sb[i] = s[i]
      /\ \A i \in 1..Len(b) : sb[Len(s) + i] = b[i]
  OBVIOUS
<1>3. /\ DOMAIN tb = 1..(Len(t) + Len(b)) /\ \A i \in 1..Len(t) : tb[i] = t[i]
      /\ \A i \in 1..Len(b) : tb[Len(t) + i] = b[i]
  OBVIOUS
<1> HIDE DEF sb, tb
<1>4. ASSUME NEW i \in DOMAIN s, NEW j \in DOMAIN s, i < j
      PROVE  \E k, m \in DOMAIN tb : k < m /\ tb[k] = s[i] /\ tb[m] = s[j]
  <2>1. PICK k \in DOMAIN t, m \in DOMAIN t : k < m /\ t[k] = s[i] /\ t[m] = s[j]
    BY <1>4 DEF InOrderOf
  <2>2. k \in DOMAIN tb /\ m \in DOMAIN tb /\ tb[k] = t[k] /\ tb[m] = t[m] BY <1>1, <1>3
  <2> QED BY <2>1, <2>2
<1>5. ASSUME NEW i \in DOMAIN sb, NEW j \in DOMAIN sb, i < j
      PROVE  \E k, m \in DOMAIN tb : k < m /\ tb[k] = sb[i] /\ tb[m] = sb[j]
  <2>1. CASE j <= Len(s)
    <3>1. i \in DOMAIN s /\ j \in DOMAIN s BY <1>1, <1>2, <1>5, <2>1
    <3>2. sb[i] = s[i] /\ sb[j] = s[j] BY <1>1, <1>2, <3>1
    <3> QED BY <1>4, <1>5, <3>1, <3>2
  <2>2. CASE i <= Len(s) /\ j > Len(s)
    <3>1. i \in DOMAIN s /\ j - Len(s) \in DOMAIN b /\ j = Len(s) + (j - Len(s))
      BY <1>1, <1>2, <2>2
    <3>2. sb[i] = s[i] /\ sb[j] = b[j - Len(s)] BY <1>1, <1>2, <3>1
    <3>3. PICK k \in DOMAIN t : t[k] = s[i] BY <3>1 DEF ToSet
    <3> DEFINE m == Len(t) + (j - Len(s))
    <3>4. k \in DOMAIN tb /\ m \in DOMAIN tb /\ k < m BY <1>1, <1>3, <3>1
    <3>5. tb[k] = sb[i] /\ tb[m] = sb[j] BY <1>1, <1>3, <3>1, <3>2, <3>3
    <3> QED BY <3>4, <3>5
  <2>3. CASE i > Len(s)
    <3>1. /\ i - Len(s) \in DOMAIN b /\ i = Len(s) + (i - Len(s))
          /\ j - Len(s) \in DOMAIN b /\ j = Len(s) + (j - Len(s))
      <4>1. /\ i \in 1..(Len(s) + Len(b)) /\ j \in 1..(Len(s) + Len(b))
            /\ i > Len(s) /\ j > Len(s)
        BY <1>1, <1>2, <1>5, <2>3
      <4> QED BY <1>1, <4>1
    <3>2. sb[i] = b[i - Len(s)] /\ sb[j] = b[j - Len(s)] BY <1>1, <1>2, <3>1
    <3> DEFINE k == Len(t) + (i - Len(s))
               m == Len(t) + (j - Len(s))
    <3>3. k \in DOMAIN tb /\ m \in DOMAIN tb /\ k < m BY <1>1, <1>3, <1>5, <3>1
    <3>4. tb[k] = sb[i] /\ tb[m] = sb[j] BY <1>1, <1>3, <3>1, <3>2
    <3> QED BY <3>3, <3>4
  <2> QED BY <1>1, <1>2, <1>5, <2>1, <2>2, <2>3
<1> QED BY <1>4, <1>5 DEF InOrderOf, sb, tb

\* Push took what is accepted, nothing twice; the queue and the batch are its end, and
\* what was flushed, settled, its beginning, of which the table has what is not lost.
PlaceInv ==
  /\ IsInjective(accepted) /\ ToSet(accepted) = {o \in Orders : push[o] = "ok"}
  /\ IsInjective(archived)
  /\ \E settled \in Seq(Orders) :
       /\ accepted = settled \o (batch \o orderCh)
       /\ ToSet(archived) \cup lost = ToSet(settled)
       /\ InOrderOf(archived, settled)

\* The empty line holds nothing, once, in any order.
LEMMA EmptyPlace == IsInjective(<<>>) /\ ToSet(<<>>) = {} /\ InOrderOf(<<>>, <<>>)
BY DEF IsInjective, ToSet, InOrderOf

\* Push adds an order that was not taken yet; the worker moves the line on; a flush,
\* whatever comes of it, settles the batch.
LEMMA PlaceKept ==
  ASSUME TypeOK, PlaceInv, Next
  PROVE  PlaceInv'
<1> DEFINE Ok == {o \in Orders : push[o] = "ok"}
<1>0. /\ orderCh \in Seq(Orders) /\ batch \in Seq(Orders) /\ archived \in Seq(Orders)
      /\ accepted \in Seq(Orders) /\ push \in [Orders -> PushSteps]
  BY DEF TypeOK
<1>s. PICK settled \in Seq(Orders) :
        /\ accepted = settled \o (batch \o orderCh)
        /\ ToSet(archived) \cup lost = ToSet(settled)
        /\ InOrderOf(archived, settled)
  BY DEF PlaceInv
<1>1. ASSUME UNCHANGED <<archived, accepted, lost>>, Ok' = Ok,
             batch' \o orderCh' = batch \o orderCh
      PROVE  PlaceInv'
  BY <1>1, <1>s DEF PlaceInv
<1>2. ASSUME NEW o \in Orders, RLock(o) \/ Look(o) PROVE PlaceInv'
  <2>1. UNCHANGED <<archived, accepted, batch, orderCh, lost>> BY <1>2 DEF RLock, Look
  <2>2. \A p \in Orders : push'[p] = "ok" <=> push[p] = "ok" BY <1>0, <1>2 DEF RLock, Look
  <2> QED BY <2>1, <2>2, <1>1
<1>3. ASSUME NEW o \in Orders, Send(o) PROVE PlaceInv'
  <2>1. /\ UNCHANGED <<archived, batch, lost>>
        /\ orderCh' = Append(orderCh, o) /\ accepted' = Append(accepted, o)
        /\ push[o] = "send" /\ push' = [push EXCEPT ![o] = "ok"]
    BY <1>3 DEF Send
  <2>2. Ok' = Ok \cup {o} /\ o \notin Ok BY <1>0, <2>1
  <2>3. o \notin ToSet(accepted) /\ IsInjective(accepted) BY <2>2 DEF PlaceInv
  <2>4. IsInjective(accepted') /\ ToSet(accepted') = ToSet(accepted) \cup {o}
    BY <1>0, <2>1, <2>3, Enqueued
  <2>5. accepted' = settled \o (batch' \o orderCh')
    <3>1. batch \o orderCh \in Seq(Orders) BY <1>0, ConcatProperties
    <3>2. batch \o Append(orderCh, o) = Append(batch \o orderCh, o) BY <1>0, EndGrows
    <3>3. settled \o Append(batch \o orderCh, o) = Append(settled \o (batch \o orderCh), o)
      BY <3>1, EndGrows
    <3> QED BY <1>s, <2>1, <3>2, <3>3
  <2> QED BY <1>s, <2>1, <2>2, <2>4, <2>5 DEF PlaceInv
<1>4. CASE Receive
  <2>1. /\ orderCh # <<>> /\ batch' = Append(batch, Head(orderCh)) /\ orderCh' = Tail(orderCh)
        /\ UNCHANGED <<archived, accepted, lost, push>>
    BY <1>4 DEF Receive
  <2>2. batch' \o orderCh' = batch \o orderCh BY <1>0, <2>1, HeadMoves
  <2> QED BY <1>1, <2>1, <2>2
<1>5. CASE Sink
  <2> DEFINE more == settled \o batch
  <2>1. /\ batch' = <<>> /\ UNCHANGED <<orderCh, accepted, push>>
        /\ archived' \in {archived, archived \o batch}
        /\ ToSet(archived') \cup lost' = ToSet(archived) \cup lost \cup ToSet(batch)
    <3>1. ToSet(archived \o batch) = ToSet(archived) \cup ToSet(batch)
      BY <1>0, SetOfParts
    <3>2. CASE SinkStores BY <3>1, <3>2 DEF SinkStores
    <3>3. CASE SinkFails
      <4>1. lost' = lost \cup ToSet(batch) BY <3>3 DEF SinkFails, ToSet
      <4> QED BY <3>1, <3>3, <4>1 DEF SinkFails
    <3> QED BY <1>5, <3>2, <3>3 DEF Sink
  <2>2. more \in Seq(Orders) /\ ToSet(more) = ToSet(settled) \cup ToSet(batch)
    BY <1>0, ConcatProperties, SetOfParts
  <2>3. accepted' = more \o (batch' \o orderCh')
    <3>1. batch' \o orderCh' = orderCh BY <1>0, <2>1, ConcatEmptySeq
    <3>2. (settled \o batch) \o orderCh = settled \o (batch \o orderCh)
      <4>1. settled \in Seq(Orders) /\ batch \in Seq(Orders) /\ orderCh \in Seq(Orders)
        BY <1>0
      <4> QED BY <4>1, ConcatAssociative, SMTT(20)
    <3> QED BY <1>s, <2>1, <3>1, <3>2
  <2>4. InOrderOf(archived', more)
    <3>1. ToSet(archived) \subseteq ToSet(settled) BY <1>s
    <3>2. InOrderOf(archived, more) /\ InOrderOf(archived \o batch, more)
      BY <1>0, <1>s, <3>1, OrderGrows
    <3> QED BY <2>1, <3>2
  <2>5. IsInjective(archived')
    <3>1. batch \o orderCh \in Seq(Orders) BY <1>0, ConcatProperties
    <3>2. IsInjective(batch \o orderCh) /\ ToSet(settled) \cap ToSet(batch \o orderCh) = {}
      BY <1>s, <3>1, InjectiveParts DEF PlaceInv
    <3>3. IsInjective(batch) /\ ToSet(batch) \subseteq ToSet(batch \o orderCh)
      BY <1>0, <3>2, InjectiveParts, SetOfParts
    <3>4. ToSet(archived) \cap ToSet(batch) = {} BY <1>s, <3>2, <3>3
    <3>5. IsInjective(archived \o batch) BY <1>0, <3>3, <3>4, InjectiveParts DEF PlaceInv
    <3> QED BY <2>1, <3>5 DEF PlaceInv
  <2>6. ToSet(archived') \cup lost' = ToSet(more) BY <1>s, <2>1, <2>2
  <2>7. IsInjective(accepted') /\ ToSet(accepted') = Ok' BY <2>1 DEF PlaceInv
  <2> HIDE DEF more
  <2> QED BY <2>2, <2>3, <2>4, <2>5, <2>6, <2>7 DEF PlaceInv
<1>6. CASE Tick \/ ChannelClosed \/ LockWaits \/ Close \/ Expire
  <2>1. UNCHANGED <<archived, accepted, batch, orderCh, lost, push>>
    BY <1>6 DEF Tick, ChannelClosed, LockWaits, Close, LockTaken, CloseChannel, WorkerDone,
       GiveUp, GraceOver, Expire
  <2> QED BY <2>1, <1>1
<1> QED BY <1>2, <1>3, <1>4, <1>5, <1>6 DEF Next, Push, Worker

\* Every order that Push took is in the queue, in the batch or settled, in the order of
\* the Pushes, and once; what is settled is in the table, or reported as lost, or both, and
\* the table too keeps the order and repeats nothing (batcher.go 105-113, 147-185).
THEOREM OrdersAreSomewhereOnce == Spec => []EveryOrderSomewhereOnce
<1>1. Init => PlaceInv
  <2> SUFFICES ASSUME Init PROVE PlaceInv
    OBVIOUS
  <2>1. /\ archived = <<>> /\ batch = <<>> /\ orderCh = <<>> /\ lost = {}
        /\ accepted = <<>>
    BY DEF Init
  <2>2. {o \in Orders : push[o] = "ok"} = {} BY DEF Init
  <2>3. <<>> \in Seq(Orders) /\ <<>> = <<>> \o (<<>> \o <<>>) OBVIOUS
  <2> QED BY <2>1, <2>2, <2>3, EmptyPlace DEF PlaceInv
<1>2. TypeOK /\ PlaceInv /\ [Next]_vars => PlaceInv'
  <2>1. PlaceInv /\ UNCHANGED vars => PlaceInv' BY DEF PlaceInv, vars
  <2> QED BY <2>1, PlaceKept
<1>3. CloseInv => TypeOK BY DEF CloseInv
<1>4. TypeOK /\ PlaceInv => EveryOrderSomewhereOnce
  <2> SUFFICES ASSUME TypeOK, PlaceInv PROVE EveryOrderSomewhereOnce
    OBVIOUS
  <2>1. orderCh \in Seq(Orders) /\ batch \in Seq(Orders) BY DEF TypeOK
  <2>2. PICK settled \in Seq(Orders) :
          /\ accepted = settled \o (batch \o orderCh)
          /\ ToSet(archived) \cup lost = ToSet(settled)
          /\ InOrderOf(archived, settled)
    BY DEF PlaceInv
  <2>3. Flushed = settled
    <3> DEFINE line == batch \o orderCh
    <3>1. line \in Seq(Orders) /\ Len(line) = Len(batch) + Len(orderCh)
      BY <2>1, ConcatProperties
    <3>2. Len(batch) \in Nat /\ Len(orderCh) \in Nat /\ Len(settled) \in Nat BY <2>1
    <3> HIDE DEF line
    <3>3. settled \o line \in Seq(Orders) /\ Len(settled \o line) = Len(settled) + Len(line)
      BY <3>1, ConcatProperties
    <3>4. Len(accepted) - Len(batch) - Len(orderCh) = Len(settled)
      <4>1. accepted = settled \o line BY <2>2 DEF line
      <4> QED BY <3>1, <3>2, <3>3, <4>1
    <3>5. Flushed = SubSeq(settled \o line, 1, Len(settled)) BY <2>2, <3>4 DEF Flushed, line
    <3> QED BY <3>1, <3>5, ConcatBegins
  <2>4. accepted = Flushed \o batch \o orderCh
    BY <2>1, <2>2, <2>3, ConcatAssociative, SMTT(20)
  <2> QED BY <2>2, <2>3, <2>4 DEF EveryOrderSomewhereOnce, PlaceInv
<1> QED BY <1>1, <1>2, <1>3, <1>4, CloseInvariantHolds, PTL DEF Spec
=============================================================================
