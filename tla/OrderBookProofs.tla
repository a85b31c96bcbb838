--------------------------- MODULE OrderBookProofs --------------------------
(***************************************************************************)
(* Proofs about internal/matching, for any prices, quantities, number of   *)
(* orders and depth: container/heap keeps the price heaps, bestPrices      *)
(* reads the k best prices off the first 2^k - 1 entries, the redundant    *)
(* parts of the book agree, and the trades are those of price-time         *)
(* priority.                                                               *)
(***************************************************************************)
EXTENDS MCMatching, Recursion, SequenceTheorems, FiniteSetTheorems

-----------------------------------------------------------------------------
(* The heaps of container/heap.                                            *)

\* up brings the price at position i of g where it belongs, along the path to the top.
Climbs(side, up, n) ==
  \A g \in [1..n -> Nat], i \in 1..n : up[<<g, i>>] =
    IF i > 1 /\ Better(side, g[i], g[i \div 2])
      THEN up[<<Swap(g, i, i \div 2), i \div 2>>] ELSE g

\* Swapping two places of an array changes those two and no other.
LEMMA SwapTyped ==
  ASSUME NEW n \in Nat, NEW g \in [1..n -> Nat], NEW i \in 1..n, NEW j \in 1..n
  PROVE  /\ Swap(g, i, j) \in [1..n -> Nat]
         /\ Swap(g, i, j)[i] = g[j] /\ Swap(g, i, j)[j] = g[i]
         /\ \A k \in 1..n : k # i /\ k # j => Swap(g, i, j)[k] = g[k]
BY DEF Swap

\* The recursion of HeapPush has a solution.
LEMMA PushUnfolds ==
  ASSUME NEW side, NEW h \in Seq(Nat), NEW price
  PROVE  \E up : /\ HeapPush(side, h, price) = up[<<Append(h, price), Len(h) + 1>>]
                 /\ Climbs(side, up, Len(h) + 1)
<1> DEFINE n == Len(h) + 1
           G == [1..n -> Nat]
           S == G \X (1..n)
           F(up) == [s \in S |->
             LET g == s[1]
                 i == s[2]
                 parent == i \div 2
             IN IF i > 1 /\ Better(side, g[i], g[parent])
                  THEN up[<<Swap(g, i, parent), parent>>]
                  ELSE g]
           go   == {s \in S : s[2] > 1 /\ Better(side, s[1][s[2]], s[1][s[2] \div 2])}
           rank == [s \in S |-> s[2]]
           succ == [s \in go |-> <<Swap(s[1], s[2], s[2] \div 2), s[2] \div 2>>]
           base == [s \in S |-> s[1]]
<1>1. n \in Nat OBVIOUS
<1>2. \A s \in go : s[1] \in G /\ s[2] \in 1..n /\ s[2] \div 2 \in 1..n /\ s[2] \div 2 < s[2]
  <2> SUFFICES ASSUME NEW s \in go
               PROVE  s[1] \in G /\ s[2] \in 1..n /\ s[2] \div 2 \in 1..n /\ s[2] \div 2 < s[2]
    OBVIOUS
  <2>1. s[1] \in G /\ s[2] \in 1..n /\ s[2] > 1 OBVIOUS
  <2> HIDE DEF G, go
  <2> QED BY <1>1, <2>1
<1>3. \A s \in go : succ[s] \in S /\ rank[succ[s]] < rank[s]
  <2> SUFFICES ASSUME NEW s \in go PROVE succ[s] \in S /\ rank[succ[s]] < rank[s] OBVIOUS
  <2>1. s[1] \in G /\ s[2] \in 1..n /\ s[2] \div 2 \in 1..n /\ s[2] \div 2 < s[2] BY <1>2
  <2>2. Swap(s[1], s[2], s[2] \div 2) \in G BY <1>1, <2>1, SwapTyped
  <2>3. succ[s] = <<Swap(s[1], s[2], s[2] \div 2), s[2] \div 2>> OBVIOUS
  <2>4. succ[s] \in S /\ succ[s][2] = s[2] \div 2
    <3> HIDE DEF G, succ, go
    <3> QED BY <2>1, <2>2, <2>3
  <2>5. rank[succ[s]] = s[2] \div 2 /\ rank[s] = s[2]
    <3> HIDE DEF succ, G
    <3> QED BY <2>4
  <2> HIDE DEF rank, S, succ
  <2> QED BY <2>1, <2>4, <2>5
<1>4. rank \in [S -> Nat]
  <2> SUFFICES ASSUME NEW s \in S PROVE s[2] \in Nat OBVIOUS
  <2> HIDE DEF G
  <2> QED BY <1>1
<1>5. base \in [S -> G]
  <2> HIDE DEF G
  <2> QED OBVIOUS
<1>6. succ \in [go -> S]
  <2>1. succ = [s \in go |-> succ[s]] OBVIOUS
  <2> HIDE DEF succ, go, S, rank
  <2> QED BY <1>3, <2>1
<1>7. go \in SUBSET S
  <2> HIDE DEF S
  <2> QED OBVIOUS
<1>8. PICK f \in [S -> G] : Loops(f, S, go, succ, base)
  <2>1. \A s \in go : rank[succ[s]] < rank[s] BY <1>3
  <2> HIDE DEF S, F, G, go, rank, succ, base
  <2> QED BY <1>4, <1>5, <1>6, <1>7, <2>1, LoopExists
<1>9. f = F(f)
  <2> SUFFICES ASSUME NEW s \in S PROVE f[s] = F(f)[s] OBVIOUS
  <2>1. f[s] = IF s \in go THEN f[succ[s]] ELSE base[s] BY <1>8 DEF Loops
  <2>2. s \in go => succ[s] = <<Swap(s[1], s[2], s[2] \div 2), s[2] \div 2>> OBVIOUS
  <2>3. base[s] = s[1] OBVIOUS
  <2>4. s \in go <=> s[2] > 1 /\ Better(side, s[1][s[2]], s[1][s[2] \div 2]) OBVIOUS
  <2> HIDE DEF S, G, go, succ, base
  <2> QED BY <2>1, <2>2, <2>3, <2>4
<1> DEFINE up == CHOOSE u : u = F(u)
<1>11. up = F(up)
  <2> HIDE DEF F
  <2> QED BY <1>9
<1>12. HeapPush(side, h, price) = up[<<Append(h, price), Len(h) + 1>>] BY DEF HeapPush
<1>13. Climbs(side, up, n)
  <2> SUFFICES ASSUME NEW g \in G, NEW i \in 1..n
               PROVE  up[<<g, i>>] = IF i > 1 /\ Better(side, g[i], g[i \div 2])
                                       THEN up[<<Swap(g, i, i \div 2), i \div 2>>] ELSE g
    BY DEF Climbs
  <2>1. <<g, i>> \in S /\ <<g, i>>[1] = g /\ <<g, i>>[2] = i
    <3> HIDE DEF G
    <3> QED OBVIOUS
  <2>2. F(up)[<<g, i>>] = IF i > 1 /\ Better(side, g[i], g[i \div 2])
                            THEN up[<<Swap(g, i, i \div 2), i \div 2>>] ELSE g
    <3> HIDE DEF S, up
    <3> QED BY <2>1
  <2> HIDE DEF F, up
  <2> QED BY <1>11, <2>2
<1> QED BY <1>12, <1>13

\* A function on 1..n is a sequence of length n.
LEMMA ArrayIsSeq ==
  ASSUME NEW n \in Nat, NEW g \in [1..n -> Nat]
  PROVE  g \in Seq(Nat) /\ Len(g) = n
<1>1. g \in Seq(Nat) BY SeqDef
<1>2. Len(g) \in Nat /\ DOMAIN g = 1..Len(g) /\ DOMAIN g = 1..n BY <1>1, LenProperties
<1> QED BY <1>1, <1>2

\* down looks at the better of the children that exist, or finds none.
LEMMA BetterChildIs ==
  ASSUME NEW side, NEW n \in Nat, NEW g \in [1..n -> Nat], NEW i \in Nat, i > 0
  PROVE  LET c == BetterChild(side, g, i)
         IN  /\ c = i <=> 2 * i > n
             /\ c # i => /\ c \in {2 * i, 2 * i + 1} /\ c \in 1..n /\ c > i /\ i \in 1..n
                         /\ \A k \in 1..n : k \div 2 = i => ~Better(side, g[k], g[c])
<1>1. Len(g) = n BY ArrayIsSeq
<1>2. \A k \in 1..n : k \div 2 = i => k = 2 * i \/ k = 2 * i + 1 OBVIOUS
<1>3. CASE 2 * i > n BY <1>1, <1>3 DEF BetterChild
<1>4. CASE ~(2 * i > n)
  <2>1. CASE 2 * i + 1 <= n /\ Better(side, g[2 * i + 1], g[2 * i])
    <3>1. BetterChild(side, g, i) = 2 * i + 1 BY <1>1, <1>4, <2>1 DEF BetterChild
    <3>2. g[2 * i + 1] \in Nat /\ g[2 * i] \in Nat BY <1>4, <2>1
    <3>3. \A k \in 1..n : k \div 2 = i => ~Better(side, g[k], g[2 * i + 1])
      <4>1. ~Better(side, g[2 * i], g[2 * i + 1]) /\ ~Better(side, g[2 * i + 1], g[2 * i + 1])
        BY <2>1, <3>2 DEF Better
      <4> QED BY <1>2, <4>1
    <3> QED BY <1>4, <2>1, <3>1, <3>3
  <2>2. CASE ~(2 * i + 1 <= n /\ Better(side, g[2 * i + 1], g[2 * i]))
    <3>1. BetterChild(side, g, i) = 2 * i BY <1>1, <1>4, <2>2 DEF BetterChild
    <3>2. g[2 * i] \in Nat BY <1>4
    <3>3. \A k \in 1..n : k \div 2 = i => ~Better(side, g[k], g[2 * i])
      BY <1>2, <2>2, <3>2 DEF Better
    <3> QED BY <1>4, <2>2, <3>1, <3>3
  <2> QED BY <2>1, <2>2
<1> QED BY <1>3, <1>4

\* down brings the price at position i of g where it belongs, along the better children.
Sinks(side, down, n) ==
  \A g \in [1..n -> Nat], i \in 1..(n + 1) : down[<<g, i>>] =
    IF BetterChild(side, g, i) # i /\ Better(side, g[BetterChild(side, g, i)], g[i])
      THEN down[<<Swap(g, i, BetterChild(side, g, i)), BetterChild(side, g, i)>>] ELSE g

\* The recursion of HeapPop has a solution.
LEMMA PopUnfolds ==
  ASSUME NEW side, NEW h \in Seq(Nat), h # <<>>
  PROVE  \E down : /\ HeapPop(side, h) = down[<<SubSeq(Swap(h, 1, Len(h)), 1, Len(h) - 1), 1>>]
                   /\ Sinks(side, down, Len(h) - 1)
<1> DEFINE n == Len(h) - 1
           G == [1..n -> Nat]
           S == G \X (1..Len(h))
           Child(s) == BetterChild(side, s[1], s[2])
           F(down) == [s \in S |->
             LET g == s[1]
                 i == s[2]
                 child == BetterChild(side, g, i)
             IN IF child # i /\ Better(side, g[child], g[i])
                  THEN down[<<Swap(g, i, child), child>>]
                  ELSE g]
           go   == {s \in S : Child(s) # s[2] /\ Better(side, s[1][Child(s)], s[1][s[2]])}
           rank == [s \in S |-> Len(h) - s[2]]
           succ == [s \in go |-> <<Swap(s[1], s[2], Child(s)), Child(s)>>]
           base == [s \in S |-> s[1]]
<1>1. n \in Nat /\ Len(h) = n + 1 BY EmptySeq
<1>2. \A s \in go : s[1] \in G /\ s[2] \in 1..n /\ Child(s) \in 1..n /\ s[2] < Child(s)
  <2> SUFFICES ASSUME NEW s \in go
               PROVE  s[1] \in G /\ s[2] \in 1..n /\ Child(s) \in 1..n /\ s[2] < Child(s)
    OBVIOUS
  <2>1. s[1] \in G /\ s[2] \in 1..Len(h) /\ Child(s) # s[2] OBVIOUS
  <2>2. s[2] \in Nat /\ s[2] > 0 BY <1>1, <2>1
  <2> HIDE DEF go, n
  <2> QED BY <1>1, <2>1, <2>2, BetterChildIs
<1>3. \A s \in go : succ[s] \in S /\ rank[succ[s]] < rank[s]
  <2> SUFFICES ASSUME NEW s \in go PROVE succ[s] \in S /\ rank[succ[s]] < rank[s] OBVIOUS
  <2>1. s[1] \in G /\ s[2] \in 1..n /\ Child(s) \in 1..n /\ s[2] < Child(s) BY <1>2
  <2> DEFINE c == Child(s)
  <2>2. succ[s] = <<Swap(s[1], s[2], c), c>> OBVIOUS
  <2>3. s \in S OBVIOUS
  <2> HIDE DEF c, n
  <2>4. Swap(s[1], s[2], c) \in G BY <1>1, <2>1, SwapTyped DEF c
  <2>5. c \in 1..Len(h) BY <1>1, <2>1 DEF c
  <2>6. succ[s] \in S /\ succ[s][2] = c
    <3> HIDE DEF G, succ, go
    <3> QED BY <2>2, <2>4, <2>5
  <2>7. rank[succ[s]] = Len(h) - c /\ rank[s] = Len(h) - s[2]
    <3> HIDE DEF succ, G
    <3> QED BY <2>3, <2>6
  <2>8. s[2] < c /\ s[2] \in Nat /\ c \in Nat
    <3>1. s[2] \in 1..n /\ c \in 1..n /\ s[2] < c BY <2>1 DEF c
    <3> HIDE DEF S, G, go, rank, succ
    <3> QED BY <1>1, <3>1
  <2> HIDE DEF rank, S, succ, G
  <2> QED BY <1>1, <2>6, <2>7, <2>8
<1>4. rank \in [S -> Nat]
  <2> SUFFICES ASSUME NEW s \in S PROVE Len(h) - s[2] \in Nat OBVIOUS
  <2> HIDE DEF G
  <2> QED BY <1>1
<1>5. base \in [S -> G]
  <2> HIDE DEF G
  <2> QED OBVIOUS
<1>6. succ \in [go -> S]
  <2>1. succ = [s \in go |-> succ[s]] OBVIOUS
  <2> HIDE DEF succ, go, S, rank
  <2> QED BY <1>3, <2>1
<1>7. go \in SUBSET S
  <2> HIDE DEF S
  <2> QED OBVIOUS
<1>8. PICK f \in [S -> G] : Loops(f, S, go, succ, base)
  <2>1. \A s \in go : rank[succ[s]] < rank[s] BY <1>3
  <2> HIDE DEF S, F, G, go, rank, succ, base
  <2> QED BY <1>4, <1>5, <1>6, <1>7, <2>1, LoopExists
<1>9. f = F(f)
  <2> SUFFICES ASSUME NEW s \in S PROVE f[s] = F(f)[s] OBVIOUS
  <2>1. f[s] = IF s \in go THEN f[succ[s]] ELSE base[s] BY <1>8 DEF Loops
  <2>2. s \in go => succ[s] = <<Swap(s[1], s[2], Child(s)), Child(s)>> OBVIOUS
  <2>3. base[s] = s[1] OBVIOUS
  <2>4. s \in go <=> Child(s) # s[2] /\ Better(side, s[1][Child(s)], s[1][s[2]]) OBVIOUS
  <2> HIDE DEF S, G, go, succ, base
  <2> QED BY <2>1, <2>2, <2>3, <2>4
<1> DEFINE down == CHOOSE u : u = F(u)
<1>10. down = F(down)
  <2> HIDE DEF F
  <2> QED BY <1>9
<1>11. HeapPop(side, h) = down[<<SubSeq(Swap(h, 1, Len(h)), 1, Len(h) - 1), 1>>] BY DEF HeapPop
<1>12. Sinks(side, down, n)
  <2> SUFFICES ASSUME NEW g \in G, NEW i \in 1..(n + 1)
               PROVE  down[<<g, i>>] =
                        IF BetterChild(side, g, i) # i
                             /\ Better(side, g[BetterChild(side, g, i)], g[i])
                          THEN down[<<Swap(g, i, BetterChild(side, g, i)),
                                      BetterChild(side, g, i)>>]
                          ELSE g
    BY DEF Sinks
  <2>1. <<g, i>> \in S /\ <<g, i>>[1] = g /\ <<g, i>>[2] = i
    <3> HIDE DEF G
    <3> QED BY <1>1
  <2>2. F(down)[<<g, i>>] =
          IF BetterChild(side, g, i) # i /\ Better(side, g[BetterChild(side, g, i)], g[i])
            THEN down[<<Swap(g, i, BetterChild(side, g, i)), BetterChild(side, g, i)>>]
            ELSE g
    <3> HIDE DEF S, down
    <3> QED BY <2>1
  <2> HIDE DEF F, down
  <2> QED BY <1>10, <2>2
<1> QED BY <1>11, <1>12

-----------------------------------------------------------------------------

\* Better is a strict total order; these are the forms the sift proofs use.
LEMMA BetterIsOrder ==
  ASSUME NEW side, NEW p \in Nat, NEW q \in Nat, NEW r \in Nat
  PROVE  /\ ~(Better(side, p, q) /\ Better(side, q, p)) /\ ~Better(side, p, p)
         /\ ~Better(side, p, q) /\ ~Better(side, q, r) => ~Better(side, p, r)
         /\ Better(side, p, q) /\ ~Better(side, r, q) => ~Better(side, r, p)
         /\ p # q => Better(side, p, q) \/ Better(side, q, p)
BY DEF Better

\* The first n entries of g are the prices X, each once.
Lists(g, n, X) ==
  /\ g \in [1..n -> Nat]
  /\ \A i, j \in 1..n : g[i] = g[j] => i = j
  /\ \A i \in 1..n : g[i] \in X
  /\ \A x \in X : \E i \in 1..n : g[i] = x

\* No price beats its parent, ...
Ordered(side, g, n) == \A j \in 2..n : ~Better(side, g[j], g[j \div 2])

\* ... none beats its grandparent over position i, ...
OrderedOver(side, g, n, i) ==
  \A j \in 2..n : j \div 2 = i /\ i > 1 => ~Better(side, g[j], g[i \div 2])

\* ... and no price but the one at i, or but the children of i, beats its parent.
OrderedButAt(side, g, n, i) ==
  /\ OrderedOver(side, g, n, i)
  /\ \A j \in 2..n : j # i => ~Better(side, g[j], g[j \div 2])
OrderedButUnder(side, g, n, i) ==
  /\ OrderedOver(side, g, n, i)
  /\ \A j \in 2..n : j \div 2 # i => ~Better(side, g[j], g[j \div 2])

\* A swap leaves the same prices in the array, each at one place.
LEMMA SwapLists ==
  ASSUME NEW n \in Nat, NEW X, NEW g, Lists(g, n, X), NEW i \in 1..n, NEW j \in 1..n
  PROVE  Lists(Swap(g, i, j), n, X)
<1> DEFINE f == Swap(g, i, j)
<1>1. g \in [1..n -> Nat] BY DEF Lists
<1>2. /\ f \in [1..n -> Nat] /\ f[i] = g[j] /\ f[j] = g[i]
      /\ \A k \in 1..n : k # i /\ k # j => f[k] = g[k]
  BY <1>1, SwapTyped, SMTT(20)
<1> HIDE DEF f
<1>3. \A k, l \in 1..n : f[k] = f[l] => k = l
  <2>1. \A k, l \in 1..n : g[k] = g[l] => k = l BY DEF Lists
  <2>2. ASSUME NEW k \in 1..n, NEW l \in 1..n, f[k] = f[l] PROVE k = l
    <3>1. CASE k = i BY <1>2, <2>1, <2>2, <3>1
    <3>2. CASE k = j BY <1>2, <2>1, <2>2, <3>2
    <3>3. CASE k # i /\ k # j BY <1>2, <2>1, <2>2, <3>3
    <3> QED BY <3>1, <3>2, <3>3
  <2> QED BY <2>2
<1>4. \A k \in 1..n : f[k] \in X BY <1>2 DEF Lists
<1>5. \A x \in X : \E k \in 1..n : f[k] = x
  <2> SUFFICES ASSUME NEW x \in X PROVE \E k \in 1..n : f[k] = x OBVIOUS
  <2>1. PICK k \in 1..n : g[k] = x BY DEF Lists
  <2> QED BY <1>2, <2>1
<1> QED BY <1>2, <1>3, <1>4, <1>5 DEF Lists, f

\* One turn of up.
LEMMA ClimbStep ==
  ASSUME NEW side, NEW n \in Nat, NEW g \in [1..n -> Nat], NEW i \in 1..n, i > 1,
         OrderedButAt(side, g, n, i), Better(side, g[i], g[i \div 2])
  PROVE  OrderedButAt(side, Swap(g, i, i \div 2), n, i \div 2)
<1> DEFINE p == i \div 2
           f == Swap(g, i, p)
<1>1. p \in 1..n /\ p < i OBVIOUS
<1>2. /\ f[i] = g[p] /\ f[p] = g[i]
      /\ \A k \in 1..n : k # i /\ k # p => f[k] = g[k]
  <2> HIDE DEF p
  <2> QED BY <1>1 DEF Swap
<1>3. Better(side, g[i], g[p]) /\ ~Better(side, g[p], g[i])
  <2>1. g[i] \in Nat /\ g[p] \in Nat BY <1>1
  <2> QED BY <2>1 DEF Better
<1>4. \A j \in 2..n : /\ j \in 1..n /\ j \div 2 \in 1..n /\ j \div 2 < j
                      /\ j # i => ~Better(side, g[j], g[j \div 2])
                      /\ j \div 2 = i => ~Better(side, g[j], g[p])
  <2>1. \A j \in 2..n : j \in 1..n /\ j \div 2 \in 1..n /\ j \div 2 < j OBVIOUS
  <2> QED BY <2>1 DEF OrderedButAt, OrderedOver
<1>5. ASSUME NEW j \in 2..n, j # p PROVE ~Better(side, f[j], f[j \div 2])
  <2> DEFINE q == j \div 2
  <2>1. j \in 1..n /\ q \in 1..n /\ q < j BY <1>4
  <2>2. (j # i => ~Better(side, g[j], g[q])) /\ (q = i => ~Better(side, g[j], g[p])) BY <1>4
  <2>3. j = i => q = p OBVIOUS
  <2> HIDE DEF f, p, q
  <2> SUFFICES ~Better(side, f[j], f[q]) BY DEF q
  <2>4. CASE j = i BY <1>2, <1>3, <2>3, <2>4 DEF Better
  <2>5. CASE j # i /\ q = i
    <3>1. f[j] = g[j] /\ f[q] = g[p] BY <1>2, <1>5, <2>1, <2>5
    <3> QED BY <2>2, <2>5, <3>1 DEF Better
  <2>6. CASE j # i /\ q = p
    <3>1. f[j] = g[j] /\ f[q] = g[i] BY <1>2, <1>5, <2>1, <2>6
    <3>2. ~Better(side, g[j], g[p]) BY <2>2, <2>6
    <3>3. g[j] \in Nat /\ g[p] \in Nat /\ g[i] \in Nat BY <1>1, <2>1
    <3> QED BY <1>3, <3>1, <3>2, <3>3 DEF Better
  <2>7. CASE j # i /\ q # i /\ q # p
    <3>1. f[j] = g[j] /\ f[q] = g[q] BY <1>2, <1>5, <2>1, <2>7
    <3> QED BY <2>2, <2>7, <3>1 DEF Better
  <2> QED BY <2>4, <2>5, <2>6, <2>7
<1>6. ASSUME NEW j \in 2..n, j \div 2 = p, p > 1 PROVE ~Better(side, f[j], f[p \div 2])
  <2> DEFINE r == p \div 2
  <2>1. p \in 2..n /\ r \in 1..n /\ r < p BY <1>1, <1>6
  <2>2. j \in 1..n /\ p < j BY <1>4, <1>6
  <2>3. ~Better(side, g[p], g[r]) BY <1>1, <1>4, <2>1
  <2>4. j # i => ~Better(side, g[j], g[p]) BY <1>4, <1>6
  <2> HIDE DEF f, p, r
  <2> SUFFICES ~Better(side, f[j], f[r]) BY DEF r
  <2>5. f[r] = g[r] BY <1>1, <1>2, <2>1
  <2>6. CASE j = i BY <1>2, <2>3, <2>5, <2>6 DEF Better
  <2>7. CASE j # i
    <3>1. f[j] = g[j] BY <1>1, <1>2, <2>2, <2>7
    <3>2. g[j] \in Nat /\ g[p] \in Nat /\ g[r] \in Nat BY <1>1, <2>1, <2>2
    <3> QED BY <2>3, <2>4, <2>5, <2>7, <3>1, <3>2 DEF Better
  <2> QED BY <2>6, <2>7
<1> HIDE DEF f, p
<1>7. OrderedButAt(side, f, n, p) BY <1>5, <1>6 DEF OrderedButAt, OrderedOver
<1> QED BY <1>7 DEF f, p

\* One turn of down.
LEMMA SinkStep ==
  ASSUME NEW side, NEW n \in Nat, NEW g \in [1..n -> Nat], NEW i \in 1..n, NEW c \in 1..n,
         c \div 2 = i, \A k \in 1..n : k \div 2 = i => ~Better(side, g[k], g[c]),
         OrderedButUnder(side, g, n, i), Better(side, g[c], g[i])
  PROVE  OrderedButUnder(side, Swap(g, i, c), n, c)
<1> DEFINE f == Swap(g, i, c)
<1>1. i < c OBVIOUS
<1>2. /\ f[i] = g[c] /\ f[c] = g[i]
      /\ \A k \in 1..n : k # i /\ k # c => f[k] = g[k]
  BY DEF Swap
<1>3. ~Better(side, g[i], g[c]) BY BetterIsOrder
<1>4. \A j \in 2..n : /\ j \in 1..n /\ j \div 2 \in 1..n /\ j \div 2 < j
                      /\ j \div 2 # i => ~Better(side, g[j], g[j \div 2])
                      /\ j \div 2 = i /\ i > 1 => ~Better(side, g[j], g[i \div 2])
  <2>1. \A j \in 2..n : j \in 1..n /\ j \div 2 \in 1..n /\ j \div 2 < j OBVIOUS
  <2> QED BY <2>1 DEF OrderedButUnder, OrderedOver
<1>5. c \in 2..n BY <1>1
<1>6. ASSUME NEW j \in 2..n, j \div 2 # c PROVE ~Better(side, f[j], f[j \div 2])
  <2> DEFINE q == j \div 2
  <2>1. j \in 1..n /\ q \in 1..n /\ q < j BY <1>4
  <2>2. q # i => ~Better(side, g[j], g[q]) BY <1>4
  <2>3. i = j => i > 1 /\ ~Better(side, g[c], g[q]) BY <1>4, <1>5
  <2>4. q = i => ~Better(side, g[j], g[c]) BY <1>4
  <2>5. q # c BY <1>6
  <2>6. j = c => q = i OBVIOUS
  <2> HIDE DEF f, q
  <2> SUFFICES ~Better(side, f[j], f[q]) BY DEF q
  <2>7. CASE j = c BY <1>2, <1>3, <2>6, <2>7
  <2>8. CASE j = i
    <3>1. f[j] = g[c] /\ f[q] = g[q] BY <1>2, <2>1, <2>5, <2>8
    <3> QED BY <2>3, <2>8, <3>1 DEF Better
  <2>9. CASE j # c /\ j # i /\ q = i
    <3>1. f[j] = g[j] /\ f[q] = g[c] BY <1>2, <2>1, <2>9
    <3> QED BY <2>4, <2>9, <3>1 DEF Better
  <2>10. CASE j # c /\ j # i /\ q # i
    <3>1. f[j] = g[j] /\ f[q] = g[q] BY <1>2, <2>1, <2>5, <2>10
    <3> QED BY <2>2, <2>10, <3>1 DEF Better
  <2> QED BY <2>7, <2>8, <2>9, <2>10
<1>7. ASSUME NEW j \in 2..n, j \div 2 = c PROVE ~Better(side, f[j], f[c \div 2])
  <2>1. j \in 1..n /\ c < j BY <1>4, <1>7
  <2>2. ~Better(side, g[j], g[c])
    <3>1. j \div 2 # i BY <1>1, <1>7
    <3> QED BY <1>4, <1>7, <3>1
  <2> HIDE DEF f
  <2>3. f[j] = g[j] /\ f[c \div 2] = g[c]
    <3>1. j # i /\ j # c /\ c \div 2 = i BY <1>1, <2>1
    <3> QED BY <1>2, <2>1, <3>1
  <2> QED BY <2>2, <2>3 DEF Better
<1> HIDE DEF f
<1>8. OrderedButUnder(side, f, n, c) BY <1>6, <1>7 DEF OrderedButUnder, OrderedOver
<1> QED BY <1>8 DEF f

\* Where up ends: a heap with the same prices.
LEMMA ClimbEnds ==
  ASSUME NEW side, NEW n \in Nat, NEW up, Climbs(side, up, n), NEW X,
         NEW g, Lists(g, n, X), NEW i \in 1..n, OrderedButAt(side, g, n, i)
  PROVE  Lists(up[<<g, i>>], n, X) /\ Ordered(side, up[<<g, i>>], n)
<1> DEFINE Ends(f, j) == Lists(up[<<f, j>>], n, X) /\ Ordered(side, up[<<f, j>>], n)
           Up(k) == \A f \in [1..n -> Nat], j \in 1..n :
                      j <= k /\ Lists(f, n, X) /\ OrderedButAt(side, f, n, j) => Ends(f, j)
           T == {k \in Nat : Up(k)}
<1>1. 0 \in T OBVIOUS
<1>2. ASSUME NEW k \in T PROVE k + 1 \in T
  <2> SUFFICES ASSUME NEW f \in [1..n -> Nat], NEW j \in 1..n, j <= k + 1,
                      Lists(f, n, X), OrderedButAt(side, f, n, j)
               PROVE  Ends(f, j)
    OBVIOUS
  <2>1. Up(k) /\ k \in Nat OBVIOUS
  <2> HIDE DEF T
  <2>2. CASE j > 1 /\ Better(side, f[j], f[j \div 2])
    <3> DEFINE e == Swap(f, j, j \div 2)
    <3>1. up[<<f, j>>] = up[<<e, j \div 2>>] BY <2>2 DEF Climbs
    <3>2. j \div 2 \in 1..n /\ j \div 2 <= k BY <2>1, <2>2
    <3>3. e \in [1..n -> Nat] /\ Lists(e, n, X) BY <3>2, SwapTyped, SwapLists
    <3>4. OrderedButAt(side, e, n, j \div 2) BY <2>2, ClimbStep
    <3> HIDE DEF e
    <3>5. Ends(e, j \div 2)
      <4> HIDE DEF Ends
      <4> QED BY <2>1, <3>2, <3>3, <3>4
    <3> QED BY <3>1, <3>5
  <2>3. CASE ~(j > 1 /\ Better(side, f[j], f[j \div 2]))
    <3>1. up[<<f, j>>] = f BY <2>3 DEF Climbs
    <3>2. Ordered(side, f, n)
      <4> SUFFICES ASSUME NEW l \in 2..n PROVE ~Better(side, f[l], f[l \div 2]) BY DEF Ordered
      <4>1. CASE l = j BY <2>3, <4>1
      <4>2. CASE l # j BY <4>2 DEF OrderedButAt
      <4> QED BY <4>1, <4>2
    <3> QED BY <3>1, <3>2
  <2> QED BY <2>2, <2>3
<1>3. T = Nat
  <2> HIDE DEF T
  <2>1. T \in SUBSET Nat BY DEF T
  <2> QED BY <1>1, <1>2, <2>1, SetInduction
<1>4. Up(n)
  <2>1. n \in T BY <1>3
  <2> QED BY <2>1
<1>5. g \in [1..n -> Nat] /\ i <= n BY DEF Lists
<1>6. Ends(g, i)
  <2> HIDE DEF Ends
  <2> QED BY <1>4, <1>5
<1> QED BY <1>6

\* Where down ends.
LEMMA SinkEnds ==
  ASSUME NEW side, NEW n \in Nat, NEW down, Sinks(side, down, n), NEW X,
         NEW g, Lists(g, n, X), NEW i \in 1..(n + 1), OrderedButUnder(side, g, n, i)
  PROVE  Lists(down[<<g, i>>], n, X) /\ Ordered(side, down[<<g, i>>], n)
<1> DEFINE Ends(f, j) == Lists(down[<<f, j>>], n, X) /\ Ordered(side, down[<<f, j>>], n)
           Down(k) == \A f \in [1..n -> Nat], j \in 1..(n + 1) :
                        n + 1 - j <= k /\ Lists(f, n, X) /\ OrderedButUnder(side, f, n, j)
                          => Ends(f, j)
           T == {k \in Nat : Down(k)}
<1>1. ASSUME NEW f \in [1..n -> Nat], NEW j \in 1..(n + 1),
             Lists(f, n, X), OrderedButUnder(side, f, n, j),
             LET c == BetterChild(side, f, j) IN ~(c # j /\ Better(side, f[c], f[j]))
      PROVE  Ends(f, j)
  <2> DEFINE c == BetterChild(side, f, j)
  <2>1. down[<<f, j>>] = f BY <1>1 DEF Sinks
  <2>2. /\ c = j <=> 2 * j > n
        /\ c # j => /\ c \in 1..n /\ j \in 1..n
                    /\ \A k \in 1..n : k \div 2 = j => ~Better(side, f[k], f[c])
    <3>1. j \in Nat /\ j > 0 OBVIOUS
    <3> QED BY <3>1, BetterChildIs
  <2> HIDE DEF c
  <2>3. Ordered(side, f, n)
    <3> SUFFICES ASSUME NEW l \in 2..n PROVE ~Better(side, f[l], f[l \div 2]) BY DEF Ordered
    <3>1. CASE l \div 2 # j BY <1>1, <3>1 DEF OrderedButUnder
    <3>2. CASE l \div 2 = j
      <4>1. c # j /\ l \in 1..n BY <2>2, <3>2
      <4>2. ~Better(side, f[l], f[c]) BY <2>2, <3>2, <4>1
      <4>3. ~Better(side, f[c], f[j]) BY <1>1, <4>1 DEF c
      <4>4. f[l] \in Nat /\ f[c] \in Nat /\ f[j] \in Nat BY <2>2, <4>1
      <4>5. ~Better(side, f[l], f[j]) BY <4>2, <4>3, <4>4, BetterIsOrder
      <4> QED BY <3>2, <4>5, Zenon
    <3> QED BY <3>1, <3>2
  <2> QED BY <1>1, <2>1, <2>3
<1>2. 0 \in T
  <2> SUFFICES ASSUME NEW f \in [1..n -> Nat], NEW j \in 1..(n + 1), n + 1 - j <= 0,
                      Lists(f, n, X), OrderedButUnder(side, f, n, j)
               PROVE  Ends(f, j)
    OBVIOUS
  <2>1. j \in Nat /\ j > 0 /\ 2 * j > n OBVIOUS
  <2> DEFINE c == BetterChild(side, f, j)
  <2>2. /\ c = j <=> 2 * j > n
        /\ c # j => /\ c \in 1..n /\ j \in 1..n
                    /\ \A k \in 1..n : k \div 2 = j => ~Better(side, f[k], f[c])
    BY <2>1, BetterChildIs
  <2> HIDE DEF c
  <2>3. c = j BY <2>1, <2>2
  <2> USE DEF c
  <2> QED BY <1>1, <2>3
<1>3. ASSUME NEW k \in T PROVE k + 1 \in T
  <2> SUFFICES ASSUME NEW f \in [1..n -> Nat], NEW j \in 1..(n + 1), n + 1 - j <= k + 1,
                      Lists(f, n, X), OrderedButUnder(side, f, n, j)
               PROVE  Ends(f, j)
    OBVIOUS
  <2>1. Down(k) /\ k \in Nat OBVIOUS
  <2> DEFINE c == BetterChild(side, f, j)
  <2>2. CASE c # j /\ Better(side, f[c], f[j])
    <3>1. /\ c \in {2 * j, 2 * j + 1} /\ c \in 1..n /\ c > j /\ j \in 1..n
          /\ \A l \in 1..n : l \div 2 = j => ~Better(side, f[l], f[c])
      <4>1. j \in Nat /\ j > 0 OBVIOUS
      <4> QED BY <2>2, <4>1, BetterChildIs
    <3>2. down[<<f, j>>] = down[<<Swap(f, j, c), c>>] BY <2>2 DEF Sinks
    <3> HIDE DEF c, T, Ends
    <3>3. c \div 2 = j /\ c \in 1..(n + 1) /\ n + 1 - c <= k BY <2>1, <3>1
    <3> DEFINE e == Swap(f, j, c)
    <3>4. e \in [1..n -> Nat] /\ Lists(e, n, X) BY <3>1, SwapTyped, SwapLists
    <3>5. OrderedButUnder(side, e, n, c) BY <2>2, <3>1, <3>3, SinkStep
    <3> HIDE DEF e
    <3>6. Ends(e, c) BY <2>1, <3>3, <3>4, <3>5
    <3>7. down[<<f, j>>] = down[<<e, c>>] BY <3>2 DEF e
    <3> QED BY <3>6, <3>7 DEF Ends
  <2>3. CASE ~(c # j /\ Better(side, f[c], f[j])) BY <1>1, <2>3
  <2> QED BY <2>2, <2>3
<1>4. T = Nat
  <2> HIDE DEF T
  <2>1. T \in SUBSET Nat BY DEF T
  <2> QED BY <1>2, <1>3, <2>1, SetInduction
<1>5. Down(n)
  <2>1. n \in T BY <1>4
  <2> QED BY <2>1
<1>6. g \in [1..n -> Nat] /\ n + 1 - i <= n BY DEF Lists
<1>7. Ends(g, i)
  <2> HIDE DEF Ends
  <2> QED BY <1>5, <1>6
<1> QED BY <1>7

-----------------------------------------------------------------------------

\* h is the heap of the prices X.
HeapOf(side, h, X) ==
  h \in Seq(Nat) /\ Lists(h, Len(h), X) /\ Ordered(side, h, Len(h))

\* An empty array is a heap of no prices.
LEMMA EmptyHeap == ASSUME NEW side PROVE HeapOf(side, <<>>, {})
<1>1. <<>> \in Seq(Nat) /\ Len(<<>>) = 0 /\ <<>> \in [1..0 -> Nat] OBVIOUS
<1>2. 1..0 = {} /\ 2..0 = {} OBVIOUS
<1>3. Lists(<<>>, 0, {}) BY <1>1, <1>2 DEF Lists
<1>4. Ordered(side, <<>>, 0) BY <1>2 DEF Ordered
<1> QED BY <1>1, <1>3, <1>4 DEF HeapOf

\* heap.Push of a price the heap does not hold.
LEMMA PushKeepsHeap ==
  ASSUME NEW side, NEW X, NEW h, HeapOf(side, h, X), NEW p \in Nat, p \notin X
  PROVE  HeapOf(side, HeapPush(side, h, p), X \cup {p})
<1> DEFINE n == Len(h) + 1
           g == Append(h, p)
<1>1. h \in Seq(Nat) /\ Len(h) \in Nat /\ h \in [1..Len(h) -> Nat] BY DEF HeapOf, Lists
<1>2. PICK up : HeapPush(side, h, p) = up[<<g, n>>] /\ Climbs(side, up, n)
  BY <1>1, PushUnfolds
<1>3. /\ n \in Nat /\ n \in 1..n /\ g \in [1..n -> Nat] /\ g[n] = p
      /\ \A i \in 1..Len(h) : g[i] = h[i]
  <2>1. /\ g \in Seq(Nat) /\ Len(g) = n /\ g[n] = p
        /\ \A i \in 1..Len(h) : g[i] = h[i]
    BY <1>1
  <2>2. n \in Nat /\ n \in 1..n BY <1>1
  <2> HIDE DEF g, n
  <2>3. g \in [1..n -> Nat] BY <2>1, LenProperties
  <2> QED BY <2>1, <2>2, <2>3
<1>4. \A i \in 1..n : i = n \/ i \in 1..Len(h) BY <1>1
<1>5. \A i \in 1..Len(h) : i \in 1..n BY <1>1
<1> HIDE DEF g, n
<1>6. Lists(g, n, X \cup {p})
  <2>1. \A i, j \in 1..n : g[i] = g[j] => i = j BY <1>3, <1>4 DEF HeapOf, Lists
  <2>2. \A i \in 1..n : g[i] \in X \cup {p} BY <1>3, <1>4 DEF HeapOf, Lists
  <2>3. \A x \in X \cup {p} : \E i \in 1..n : g[i] = x
    <3> SUFFICES ASSUME NEW x \in X \cup {p} PROVE \E i \in 1..n : g[i] = x OBVIOUS
    <3>1. CASE x = p BY <1>3, <3>1
    <3>2. CASE x \in X
      <4>1. PICK i \in 1..Len(h) : h[i] = x BY <3>2 DEF HeapOf, Lists
      <4> QED BY <1>3, <1>5, <4>1
    <3> QED BY <3>1, <3>2
  <2> QED BY <1>3, <2>1, <2>2, <2>3 DEF Lists
<1>7. OrderedButAt(side, g, n, n)
  <2>1. \A j \in 2..n : j \div 2 # n BY <1>3
  <2>2. ASSUME NEW j \in 2..n, j # n PROVE ~Better(side, g[j], g[j \div 2])
    <3>1. j \in 2..Len(h) /\ j \in 1..Len(h) /\ j \div 2 \in 1..Len(h) BY <1>1, <2>2 DEF n
    <3>2. ~Better(side, h[j], h[j \div 2]) BY <3>1 DEF HeapOf, Ordered
    <3>3. g[j] = h[j] /\ g[j \div 2] = h[j \div 2] BY <1>3, <3>1
    <3> QED BY <3>2, <3>3 DEF Better
  <2> QED BY <2>1, <2>2 DEF OrderedButAt, OrderedOver
<1> DEFINE r == HeapPush(side, h, p)
<1>8. Lists(r, n, X \cup {p}) /\ Ordered(side, r, n) BY <1>2, <1>3, <1>6, <1>7, ClimbEnds
<1> HIDE DEF r
<1>9. r \in Seq(Nat) /\ Len(r) = n
  <2>1. r \in [1..n -> Nat] BY <1>8 DEF Lists
  <2> QED BY <1>3, <2>1, ArrayIsSeq
<1> QED BY <1>8, <1>9 DEF HeapOf, r

\* heap.Pop removes the top.
LEMMA PopKeepsHeap ==
  ASSUME NEW side, NEW X, NEW h, HeapOf(side, h, X), h # <<>>
  PROVE  HeapOf(side, HeapPop(side, h), X \ {h[1]})
<1> DEFINE l == Len(h)
           n == l - 1
           f == Swap(h, 1, l)
           g == SubSeq(f, 1, n)
           Y == X \ {h[1]}
<1>1. h \in Seq(Nat) /\ l \in Nat /\ l >= 1 /\ n \in Nat /\ n + 1 = l /\ h \in [1..l -> Nat]
      /\ 1 \in 1..l /\ l \in 1..l
  <2>1. h \in Seq(Nat) /\ h # <<>> BY DEF HeapOf
  <2>2. l \in Nat /\ l # 0 BY <2>1, EmptySeq
  <2> QED BY <2>1, <2>2 DEF HeapOf, Lists
<1>2. PICK down : HeapPop(side, h) = down[<<g, 1>>] /\ Sinks(side, down, n)
  BY <1>1, PopUnfolds
<1>3. Lists(f, l, X) /\ f \in [1..l -> Nat] /\ f[l] = h[1]
      /\ \A k \in 1..l : k # 1 /\ k # l => f[k] = h[k]
  <2> HIDE DEF l
  <2>1. Lists(h, l, X) BY DEF HeapOf, l
  <2>2. Lists(f, l, X) BY <1>1, <2>1, SwapLists
  <2>3. /\ f \in [1..l -> Nat] /\ f[l] = h[1]
        /\ \A k \in 1..l : k # 1 /\ k # l => f[k] = h[k]
    <3>1. l \in Nat /\ h \in [1..l -> Nat] /\ 1 \in 1..l /\ l \in 1..l BY <1>1
    <3>2. /\ Swap(h, 1, l) \in [1..l -> Nat]
          /\ Swap(h, 1, l)[1] = h[l] /\ Swap(h, 1, l)[l] = h[1]
          /\ \A k \in 1..l : k # 1 /\ k # l => Swap(h, 1, l)[k] = h[k]
      BY <3>1, SwapTyped, SMTT(20)
    <3> QED BY <3>2
  <2> QED BY <2>2, <2>3
<1>4. f \in Seq(Nat) /\ Len(f) = l
  <2> HIDE DEF l, f
  <2> QED BY <1>1, <1>3, ArrayIsSeq
<1>5. g \in [1..n -> Nat] /\ \A k \in 1..n : g[k] = f[k]
  <2> HIDE DEF f, l, n
  <2>1. g \in Seq(Nat) /\ Len(g) = n /\ \A k \in 1..n : g[k] = f[k] BY <1>1, <1>4
  <2> HIDE DEF g
  <2> QED BY <2>1, LenProperties
<1>6. (\A k \in 1..n : k \in 1..l /\ k # l) /\ \A k \in 1..l : k \in 1..n \/ k = l
  <2> HIDE DEF l, n
  <2> QED BY <1>1
<1>7. \A k \in 1..l : k \in 1..n \/ k = l BY <1>6
<1> HIDE DEF f, g, n, l
<1>8. Lists(g, n, Y)
  <2>1. \A i, j \in 1..n : g[i] = g[j] => i = j BY <1>3, <1>5, <1>6 DEF Lists
  <2>2. \A i \in 1..n : g[i] \in Y
    <3> SUFFICES ASSUME NEW i \in 1..n PROVE g[i] \in X /\ g[i] # h[1] OBVIOUS
    <3>1. i \in 1..l /\ i # l /\ g[i] = f[i] BY <1>5, <1>6
    <3>2. f[i] \in X /\ f[i] # f[l] BY <1>1, <1>3, <3>1 DEF Lists
    <3> QED BY <1>3, <3>1, <3>2
  <2>3. \A x \in Y : \E i \in 1..n : g[i] = x
    <3> SUFFICES ASSUME NEW x \in Y PROVE \E i \in 1..n : g[i] = x OBVIOUS
    <3>1. PICK i \in 1..l : f[i] = x BY <1>3 DEF Lists
    <3>2. i # l BY <1>3, <3>1
    <3> QED BY <1>5, <1>7, <3>1, <3>2
  <2> QED BY <1>5, <2>1, <2>2, <2>3 DEF Lists
<1>9. OrderedButUnder(side, g, n, 1)
  <2> SUFFICES ASSUME NEW j \in 2..n, j \div 2 # 1 PROVE ~Better(side, g[j], g[j \div 2])
    BY DEF OrderedButUnder, OrderedOver
  <2>1. j \in 2..l /\ j \in 1..n /\ j \div 2 \in 1..n /\ j \div 2 # 1 /\ j # 1 BY <1>1 DEF n
  <2>2. ~Better(side, h[j], h[j \div 2]) BY <2>1 DEF HeapOf, Ordered, l
  <2>3. g[j] = h[j] /\ g[j \div 2] = h[j \div 2] BY <1>3, <1>5, <1>6, <2>1
  <2> QED BY <2>2, <2>3 DEF Better
<1> DEFINE r == HeapPop(side, h)
<1>10. Lists(r, n, Y) /\ Ordered(side, r, n)
  <2>1. 1 \in 1..(n + 1) BY <1>1
  <2> HIDE DEF Y
  <2> QED BY <1>1, <1>2, <1>8, <1>9, <2>1, SinkEnds
<1> HIDE DEF r, Y
<1>11. r \in Seq(Nat) /\ Len(r) = n
  <2>1. r \in [1..n -> Nat] BY <1>10 DEF Lists
  <2> QED BY <1>1, <2>1, ArrayIsSeq
<1> QED BY <1>10, <1>11 DEF HeapOf, r, Y

\* No price in the heap beats its top.
LEMMA TopIsBest ==
  ASSUME NEW side, NEW X, NEW h, HeapOf(side, h, X), h # <<>>
  PROVE  h[1] \in X /\ \A x \in X : x \in Nat /\ ~Better(side, x, h[1])
<1> DEFINE n == Len(h)
           T == {k \in Nat : \A j \in 1..n : j <= k => ~Better(side, h[j], h[1])}
<1>1. n \in Nat /\ n >= 1 /\ h \in [1..n -> Nat] /\ 1 \in 1..n
  <2>1. h \in Seq(Nat) /\ h # <<>> BY DEF HeapOf
  <2>2. n \in Nat /\ n # 0 BY <2>1, EmptySeq
  <2> QED BY <2>1, <2>2 DEF HeapOf, Lists
<1>2. 0 \in T OBVIOUS
<1>3. ASSUME NEW k \in T PROVE k + 1 \in T
  <2> SUFFICES ASSUME NEW j \in 1..n, j <= k + 1 PROVE ~Better(side, h[j], h[1]) OBVIOUS
  <2>1. k \in Nat /\ \A i \in 1..n : i <= k => ~Better(side, h[i], h[1]) OBVIOUS
  <2>2. CASE j = 1
    <3>1. h[1] \in Nat BY <1>1
    <3> QED BY <2>2, <3>1 DEF Better
  <2>3. CASE j # 1
    <3>1. j \in 2..n /\ j \div 2 \in 1..n /\ j \div 2 <= k BY <2>1, <2>3
    <3>2. ~Better(side, h[j], h[j \div 2]) BY <3>1 DEF HeapOf, Ordered
    <3>3. ~Better(side, h[j \div 2], h[1]) BY <2>1, <3>1
    <3>4. h[j] \in Nat /\ h[j \div 2] \in Nat /\ h[1] \in Nat BY <1>1, <3>1
    <3> QED BY <3>2, <3>3, <3>4 DEF Better
  <2> QED BY <2>2, <2>3
<1>4. T = Nat
  <2> HIDE DEF T
  <2>1. T \in SUBSET Nat BY DEF T
  <2> QED BY <1>2, <1>3, <2>1, SetInduction
<1>5. \A j \in 1..n : ~Better(side, h[j], h[1])
  <2>1. n \in T BY <1>1, <1>4
  <2> QED BY <1>1, <2>1
<1>6. h[1] \in X BY <1>1 DEF HeapOf, Lists
<1>7. ASSUME NEW x \in X PROVE x \in Nat /\ ~Better(side, x, h[1])
  <2>1. PICK j \in 1..n : h[j] = x BY DEF HeapOf, Lists
  <2>2. ~Better(side, h[j], h[1]) BY <1>5
  <2>3. x \in Nat BY <1>1, <2>1
  <2> QED BY <2>1, <2>2, <2>3 DEF Better
<1> QED BY <1>6, <1>7

\* A heap has as many entries as prices.
LEMMA HeapCounts ==
  ASSUME NEW s, NEW X, NEW h, HeapOf(s, h, X)
  PROVE  /\ Len(h) = Cardinality(X) /\ Range(h) = X
         /\ \A Y : X \subseteq Y => h \in Seq(Y)
<1> DEFINE n == Len(h)
<1>1. /\ h \in Seq(Nat) /\ n \in Nat /\ h \in [1..n -> Nat]
      /\ \A i, j \in 1..n : h[i] = h[j] => i = j
      /\ \A i \in 1..n : h[i] \in X
      /\ \A x \in X : \E i \in 1..n : h[i] = x
  BY DEF HeapOf, Lists
<1> HIDE DEF n
<1>2. h \in [1..n -> X] BY <1>1
<1>3. h \in Bijection(1..n, X)
  BY <1>1, <1>2 DEF Bijection, Injection, Surjection, IsInjective
<1>4. IsFiniteSet(1..n) /\ Cardinality(1..n) = n
  <2>1. 1 \in Int /\ n \in Int /\ ~(1 > n /\ n # 0) BY <1>1
  <2>2. IsFiniteSet(1..n) /\ Cardinality(1..n) = IF 1 > n THEN 0 ELSE n - 1 + 1
    BY <2>1, FS_Interval
  <2> QED BY <1>1, <2>2
<1>5. Cardinality(X) = n BY <1>3, <1>4, FS_Bijection DEF ExistsBijection
<1>6. Range(h) = X BY <1>1 DEF Range
<1>7. ASSUME NEW Y, X \subseteq Y PROVE h \in Seq(Y)
  <2>1. h \in [1..n -> Y] BY <1>2, <1>7
  <2> QED BY <1>1, <2>1, SeqDef
<1> QED BY <1>5, <1>6, <1>7 DEF n

-----------------------------------------------------------------------------
(* bestPrices: out keeps the k best of the entries read so far, best first.*)

\* out runs from best to worst.
Falls(side, out) == \A i, j \in 1..Len(out) : i < j => Better(side, out[i], out[j])

\* out holds the k best of the first n prices of h.
Kept(side, out, k, h, n) ==
  /\ out \in Seq(Nat) /\ Len(out) = IF k < n THEN k ELSE n
  /\ Falls(side, out)
  /\ \A i \in 1..Len(out) : \E m \in 1..n : out[i] = h[m]
  /\ \A m \in 1..n : \/ \E i \in 1..Len(out) : out[i] = h[m]
                     \/ Len(out) = k /\ Better(side, out[k], h[m])

\* Better is a strict total order; these are the forms the ranking proofs use.
LEMMA BetterIsTotal ==
  ASSUME NEW side
  PROVE  /\ \A a, b \in Nat : a # b /\ ~Better(side, a, b) => Better(side, b, a)
         /\ \A a, b \in Nat : Better(side, a, b) => ~Better(side, b, a) /\ a # b
         /\ \A a, b, c \in Nat : Better(side, a, b) /\ Better(side, b, c) => Better(side, a, c)
BY DEF Better

\* The first k levels: all of them hold at least k prices.
LEMMA LevelsAre ==
  /\ FullLevels[0] = 0
  /\ \A k \in Nat : /\ FullLevels[k] \in Nat /\ k <= FullLevels[k]
                    /\ FullLevels[k + 1] = 2 * FullLevels[k] + 1
<1> DEFINE F(f) == [k \in Nat |-> IF k = 0 THEN 0 ELSE 2 * f[k - 1] + 1]
           go == Nat \ {0}
           rank == [k \in Nat |-> k]
           succ == [k \in go |-> k - 1]
           base == [k \in Nat |-> 0]
           step == [x \in go \X Nat |-> 2 * x[2] + 1]
<1>1. /\ rank \in [Nat -> Nat] /\ go \in SUBSET Nat /\ succ \in [go -> Nat]
      /\ base \in [Nat -> Nat] /\ step \in [go \X Nat -> Nat]
  OBVIOUS
<1>2. \A k \in go : rank[succ[k]] < rank[k] OBVIOUS
<1>3. PICK f \in [Nat -> Nat] : Solves(f, Nat, go, succ, base, step)
  <2> HIDE DEF F, go, rank, succ, base, step
  <2> QED BY <1>1, <1>2, RecursionExists
<1>4. \A k \in go, r \in Nat : step[<<k, r>>] = 2 * r + 1 OBVIOUS
<1>5. f = F(f)
  <2>1. F(f) = [k \in Nat |-> F(f)[k]] OBVIOUS
  <2>2. ASSUME NEW k \in Nat PROVE f[k] = F(f)[k]
    <3>1. f[k] = IF k \in go THEN step[<<k, f[succ[k]]>>] ELSE base[k] BY <1>3 DEF Solves
    <3>2. CASE k = 0 BY <3>1, <3>2
    <3>3. CASE k # 0
      <4>1. k \in go /\ succ[k] = k - 1 /\ f[k - 1] \in Nat BY <3>3
      <4>2. F(f)[k] = 2 * f[k - 1] + 1 BY <3>3
      <4> HIDE DEF step, F, go, succ
      <4> QED BY <3>1, <4>1, <4>2, <1>4
    <3> QED BY <3>2, <3>3
  <2> HIDE DEF F
  <2> QED BY <2>1, <2>2
<1>6. FullLevels = F(FullLevels)
  <2>1. FullLevels = CHOOSE u : u = F(u) BY DEF FullLevels
  <2> HIDE DEF F
  <2> QED BY <1>5, <2>1
<1>7. FullLevels[0] = 0 /\ \A k \in Nat : FullLevels[k + 1] = 2 * FullLevels[k] + 1
  <2>1. /\ F(FullLevels)[0] = 0
        /\ \A k \in Nat : F(FullLevels)[k + 1] = 2 * FullLevels[k] + 1
    OBVIOUS
  <2> HIDE DEF F
  <2> QED BY <1>6, <2>1
<1> DEFINE T == {k \in Nat : FullLevels[k] \in Nat /\ k <= FullLevels[k]}
<1>8. 0 \in T BY <1>7
<1>9. \A k \in T : k + 1 \in T BY <1>7
<1>10. T = Nat
  <2> HIDE DEF T
  <2>1. T \in SUBSET Nat BY DEF T
  <2> QED BY <1>8, <1>9, <2>1, SetInduction
<1>11. \A k \in Nat : k \in T BY <1>10
<1> QED BY <1>7, <1>11

\* How many of the falling prices q are not beaten by p: the first ones.
LEMMA RankIs ==
  ASSUME NEW side, NEW q \in Seq(Nat), Falls(side, q), NEW p \in Nat
  PROVE  LET r == Cardinality({i \in DOMAIN q : ~Better(side, p, q[i])})
         IN /\ r \in Nat /\ r <= Len(q)
            /\ \A i \in 1..Len(q) : i <= r <=> ~Better(side, p, q[i])
<1> DEFINE n == Len(q)
           R == {i \in DOMAIN q : ~Better(side, p, q[i])}
           N == {i \in Nat : i + 1 \notin R}
<1>1. n \in Nat /\ DOMAIN q = 1..n OBVIOUS
<1>2. N \in SUBSET Nat /\ n \in N /\ N # {}
  <2>1. n + 1 \notin R BY <1>1
  <2> QED BY <1>1, <2>1
<1>3. PICK r \in N : \A i \in N : r <= i BY <1>2, LeastNumber
<1>4. r \in Nat /\ r <= n /\ r + 1 \notin R BY <1>2, <1>3
<1>5. \A i \in 1..n : i <= r => ~Better(side, p, q[i])
  <2> SUFFICES ASSUME NEW i \in 1..n, i <= r PROVE i \in R OBVIOUS
  <2>1. i - 1 \in Nat /\ i - 1 < r /\ i - 1 + 1 = i BY <1>1, <1>4
  <2>2. i - 1 \notin N
    <3> HIDE DEF N
    <3> QED BY <1>3, <1>4, <2>1
  <2> QED BY <2>1, <2>2
<1>6. \A i \in 1..n : i > r => Better(side, p, q[i])
  <2> SUFFICES ASSUME NEW i \in 1..n, i > r PROVE Better(side, p, q[i]) OBVIOUS
  <2>1. r + 1 \in 1..n /\ r + 1 <= i BY <1>1, <1>4
  <2>2. Better(side, p, q[r + 1]) BY <1>1, <1>4, <2>1
  <2>3. CASE i = r + 1 BY <2>2, <2>3
  <2>4. CASE i # r + 1
    <3>1. r + 1 < i BY <1>4, <2>1, <2>4
    <3>2. Better(side, q[r + 1], q[i]) BY <2>1, <3>1 DEF Falls
    <3>3. q[r + 1] \in Nat /\ q[i] \in Nat BY <1>1, <2>1
    <3> QED BY <2>2, <3>2, <3>3, BetterIsTotal
  <2> QED BY <2>3, <2>4
<1>7. \A i \in 1..n : i <= r <=> ~Better(side, p, q[i])
  <2> SUFFICES ASSUME NEW i \in 1..n PROVE i <= r <=> ~Better(side, p, q[i]) OBVIOUS
  <2>1. i <= r \/ i > r BY <1>1, <1>4
  <2>2. i > r => ~(i <= r) BY <1>1, <1>4
  <2> QED BY <1>5, <1>6, <2>1, <2>2
<1>8. R = 1..r
  <2>1. \A i \in 1..r : i \in 1..n /\ i <= r BY <1>1, <1>4
  <2>2. \A i \in 1..n : i <= r => i \in 1..r BY <1>1, <1>4
  <2>3. \A i : i \in R <=> i \in 1..n /\ ~Better(side, p, q[i]) BY <1>1
  <2> HIDE DEF R
  <2> QED BY <1>7, <2>1, <2>2, <2>3
<1>9. Cardinality(1..r) = r
  <2>1. 1 \in Int /\ r \in Int BY <1>4
  <2>2. Cardinality(1..r) = IF 1 > r THEN 0 ELSE r - 1 + 1 BY <2>1, FS_Interval
  <2> QED BY <1>4, <2>2
<1>10. Cardinality(R) = r BY <1>8, <1>9
<1> HIDE DEF R, n
<1>11. /\ Cardinality(R) \in Nat /\ Cardinality(R) <= n
       /\ \A i \in 1..n : i <= Cardinality(R) <=> ~Better(side, p, q[i])
  BY <1>4, <1>7, <1>10
<1> QED BY <1>11 DEF R, n

\* p put behind the first r of q.
Inserted(q, r, p) == SubSeq(q, 1, r) \o <<p>> \o SubSeq(q, r + 1, Len(q))

Widened(e, q, r, p) ==
  /\ e \in Seq(Nat) /\ Len(e) = Len(q) + 1 /\ e[r + 1] = p
  /\ \A i \in 1..Len(q) : i <= r => e[i] = q[i]
  /\ \A i \in 1..Len(q) : i > r => e[i + 1] = q[i]

\* Inserting p behind the first r entries moves the others up by one.
LEMMA InsertedIs ==
  ASSUME NEW q \in Seq(Nat), NEW r \in Nat, r <= Len(q), NEW p \in Nat
  PROVE  Widened(Inserted(q, r, p), q, r, p)
<1> DEFINE a == SubSeq(q, 1, r)
           z == SubSeq(q, r + 1, Len(q))
           b == a \o <<p>>
           e == b \o z
           n == Len(q)
<1>1. n \in Nat OBVIOUS
<1>2. a \in Seq(Nat) /\ Len(a) = r /\ \A i \in 1..r : a[i] = q[i] OBVIOUS
<1>3. z \in Seq(Nat) /\ Len(z) = n - r /\ \A i \in 1..(n - r) : z[i] = q[r + i]
  <2>1. r + 1 \in 1..(n + 1) /\ n \in r..n /\ \A i \in r + 1..n : q[i] \in Nat BY <1>1
  <2>2. z \in Seq(Nat) BY <1>1, <2>1
  <2>3. Len(z) = n - r BY <1>1, <2>1
  <2>4. \A i \in 1..(n - r) : z[i] = q[r + i] BY <1>1, <2>1
  <2> QED BY <2>2, <2>3, <2>4
<1>4. <<p>> \in Seq(Nat) /\ Len(<<p>>) = 1 /\ <<p>>[1] = p OBVIOUS
<1> HIDE DEF a, z, n
<1>5. /\ b \in Seq(Nat) /\ Len(b) = r + 1 /\ b[r + 1] = p
      /\ \A i \in 1..r : b[i] = a[i]
  <2>1. /\ b \in Seq(Nat) /\ Len(b) = Len(a) + Len(<<p>>)
        /\ \A i \in 1..(Len(a) + Len(<<p>>)) :
             b[i] = IF i <= Len(a) THEN a[i] ELSE <<p>>[i - Len(a)]
    BY <1>2, <1>4, ConcatProperties
  <2> HIDE DEF b
  <2>2. b[r + 1] = p
    <3>1. r + 1 \in 1..(r + 1) /\ ~(r + 1 <= r) /\ r + 1 - r = 1 OBVIOUS
    <3> QED BY <1>2, <1>4, <2>1, <3>1
  <2>3. \A i \in 1..r : b[i] = a[i] BY <1>2, <1>4, <2>1
  <2> QED BY <1>2, <1>4, <2>1, <2>2, <2>3
<1> HIDE DEF b
<1>6. /\ e \in Seq(Nat) /\ Len(e) = n + 1
      /\ \A i \in 1..(r + 1) : e[i] = b[i]
      /\ \A i \in 1..(n - r) : e[r + 1 + i] = z[i]
  <2>1. /\ e \in Seq(Nat) /\ Len(e) = Len(b) + Len(z)
        /\ \A i \in 1..(Len(b) + Len(z)) :
             e[i] = IF i <= Len(b) THEN b[i] ELSE z[i - Len(b)]
    BY <1>3, <1>5, ConcatProperties
  <2> HIDE DEF e
  <2>2. n - r \in Nat /\ Len(e) = n + 1 BY <1>1, <1>3, <1>5, <2>1 DEF n
  <2>3. \A i \in 1..(r + 1) : e[i] = b[i] BY <1>3, <1>5, <2>1, <2>2
  <2>4. ASSUME NEW i \in 1..(n - r) PROVE e[r + 1 + i] = z[i]
    <3>1. /\ r + 1 + i \in 1..(Len(b) + Len(z)) /\ ~(r + 1 + i <= Len(b))
          /\ r + 1 + i - Len(b) = i
      BY <1>3, <1>5, <2>2
    <3> QED BY <2>1, <3>1
  <2> QED BY <2>1, <2>2, <2>3, <2>4
<1> HIDE DEF e
<1>7. e[r + 1] = p BY <1>5, <1>6
<1>8. \A i \in 1..n : i <= r => e[i] = q[i] BY <1>1, <1>2, <1>5, <1>6, SMTT(20)
<1>9. \A i \in 1..n : i > r => e[i + 1] = q[i]
  <2> SUFFICES ASSUME NEW i \in 1..n, i > r PROVE e[i + 1] = q[i] OBVIOUS
  <2>1. i - r \in 1..(n - r) /\ r + 1 + (i - r) = i + 1 /\ r + (i - r) = i
    BY <1>1
  <2>2. e[r + 1 + (i - r)] = z[i - r] /\ z[i - r] = q[r + (i - r)] BY <1>3, <1>6, <2>1
  <2> QED BY <2>1, <2>2
<1>10. Widened(e, q, r, p) BY <1>6, <1>7, <1>8, <1>9 DEF Widened, n
<1> QED BY <1>10 DEF Inserted, e, b, a, z, n

\* The list that the price joins: out without its last when it is full.
Room(out, k) == IF Len(out) < k THEN out ELSE SubSeq(out, 1, k - 1)

\* A full list gives up its last entry; what is left is as it was.
LEMMA RoomIs ==
  ASSUME NEW side, NEW k \in Nat \ {0}, NEW out \in Seq(Nat)
  PROVE  LET q == Room(out, k)
         IN /\ q \in Seq(Nat) /\ Len(q) <= Len(out)
            /\ Len(q) = IF Len(out) < k THEN Len(out) ELSE k - 1
            /\ \A i \in 1..Len(q) : q[i] = out[i]
            /\ Falls(side, out) => Falls(side, q)
<1> DEFINE q == Room(out, k)
<1>1. Len(out) \in Nat /\ k \in Nat /\ k >= 1 OBVIOUS
<1>2. /\ q \in Seq(Nat) /\ Len(q) <= Len(out)
      /\ Len(q) = IF Len(out) < k THEN Len(out) ELSE k - 1
      /\ \A i \in 1..Len(q) : q[i] = out[i]
  <2>1. CASE Len(out) < k BY <1>1, <2>1 DEF Room
  <2>2. CASE ~(Len(out) < k)
    <3>1. q = SubSeq(out, 1, k - 1) BY <2>2 DEF Room
    <3>2. k - 1 \in Nat /\ k - 1 <= Len(out) BY <1>1, <2>2
    <3> QED BY <1>1, <2>2, <3>1, <3>2
  <2> QED BY <2>1, <2>2
<1> HIDE DEF q
<1>3. \A i \in 1..Len(q) : i \in 1..Len(out) BY <1>1, <1>2
<1>4. Falls(side, out) => Falls(side, q) BY <1>2, <1>3 DEF Falls
<1> QED BY <1>2, <1>4 DEF q

\* One turn of bestPrices: a price no better than the last of a full list is skipped,
\* any other goes behind those it does not beat.
LEMMA KeepBestIs ==
  ASSUME NEW side, NEW k \in Nat \ {0}, NEW out \in Seq(Nat), NEW p \in Nat
  PROVE  KeepBest(side, out, k, p) =
           IF Len(out) = k /\ ~Better(side, p, out[k]) THEN out
           ELSE Inserted(Room(out, k),
                         Cardinality({i \in DOMAIN Room(out, k) : ~Better(side, p, Room(out, k)[i])}), p)
BY DEF KeepBest, Room, Inserted

\* The list of best prices stays a list of prices.
LEMMA KeepBestTyped ==
  ASSUME NEW side, NEW k \in Nat \ {0}, NEW out \in Seq(Nat), NEW p \in Nat
  PROVE  KeepBest(side, out, k, p) \in Seq(Nat)
<1> DEFINE q == Room(out, k)
           R == {i \in DOMAIN q : ~Better(side, p, q[i])}
           r == Cardinality(R)
<1>1. KeepBest(side, out, k, p) \in {out, Inserted(q, r, p)} BY KeepBestIs
<1>2. q \in Seq(Nat) BY RoomIs
<1>3. r \in Nat /\ r <= Len(q)
  <2> HIDE DEF q
  <2>1. Len(q) \in Nat /\ DOMAIN q = 1..Len(q) /\ R \in SUBSET (1..Len(q)) BY <1>2
  <2>2. 1 \in Int /\ Len(q) \in Int BY <2>1
  <2>3. IsFiniteSet(1..Len(q))
        /\ Cardinality(1..Len(q)) = IF 1 > Len(q) THEN 0 ELSE Len(q) - 1 + 1
    BY <2>2, FS_Interval
  <2> HIDE DEF R
  <2>4. IsFiniteSet(R) /\ Cardinality(R) <= Cardinality(1..Len(q)) BY <2>1, <2>3, FS_Subset
  <2>5. Cardinality(R) \in Nat BY <2>4, FS_CardinalityType
  <2> QED BY <2>1, <2>3, <2>4, <2>5
<1> HIDE DEF q, r
<1>4. Inserted(q, r, p) \in Seq(Nat) BY <1>2, <1>3, InsertedIs DEF Widened
<1> QED BY <1>1, <1>4

\* One turn of bestPrices.
LEMMA KeepBestKeeps ==
  ASSUME NEW side, NEW k \in Nat \ {0}, NEW l \in Nat, NEW h \in [1..l -> Nat],
         \A i, j \in 1..l : h[i] = h[j] => i = j,
         NEW n \in Nat, n < l, NEW out, Kept(side, out, k, h, n)
  PROVE  Kept(side, KeepBest(side, out, k, h[n + 1]), k, h, n + 1)
<1> DEFINE p == h[n + 1]
           q == Room(out, k)
           c == Len(q)
           r == Cardinality({i \in DOMAIN q : ~Better(side, p, q[i])})
           e == Inserted(q, r, p)
<1>1. /\ k \in Nat /\ k >= 1 /\ out \in Seq(Nat) /\ Len(out) \in Nat
      /\ Len(out) = (IF k < n THEN k ELSE n) /\ Falls(side, out)
      /\ \A i \in 1..Len(out) : \E m \in 1..n : out[i] = h[m]
      /\ \A m \in 1..n : \/ \E i \in 1..Len(out) : out[i] = h[m]
                         \/ Len(out) = k /\ Better(side, out[k], h[m])
  BY DEF Kept
<1>2. p \in Nat /\ n + 1 \in 1..l /\ \A m \in 1..n : m \in 1..l /\ h[m] \in Nat /\ h[m] # p
  <2>1. n + 1 \in 1..l OBVIOUS
  <2>2. \A m \in 1..n : m \in 1..l /\ m # n + 1 OBVIOUS
  <2> QED BY <2>1, <2>2
<1>3. \A i \in 1..Len(out) : out[i] \in Nat /\ out[i] # p BY <1>1, <1>2
<1>4. \A m \in 1..(n + 1) : m \in 1..n \/ m = n + 1 OBVIOUS
<1>5. \A m \in 1..n : m \in 1..(n + 1) OBVIOUS
<1>6. CASE Len(out) = k /\ ~Better(side, p, out[k])
  <2>1. KeepBest(side, out, k, p) = out BY <1>1, <1>2, <1>6, KeepBestIs
  <2>2. k \in 1..Len(out) BY <1>1, <1>6
  <2>3. Better(side, out[k], p) BY <1>2, <1>3, <1>6, <2>2, BetterIsTotal
  <2>4. Len(out) = IF k < n + 1 THEN k ELSE n + 1 BY <1>1, <1>6
  <2>5. \A m \in 1..(n + 1) : \/ \E i \in 1..Len(out) : out[i] = h[m]
                              \/ Len(out) = k /\ Better(side, out[k], h[m])
    BY <1>1, <1>4, <1>6, <2>3
  <2>6. \A i \in 1..Len(out) : \E m \in 1..(n + 1) : out[i] = h[m] BY <1>1, <1>5
  <2>7. Kept(side, out, k, h, n + 1) BY <1>1, <2>4, <2>5, <2>6 DEF Kept
  <2> QED BY <2>1, <2>7
<1>7. CASE ~(Len(out) = k /\ ~Better(side, p, out[k]))
  <2>1. KeepBest(side, out, k, p) = e
    <3> HIDE DEF p
    <3>1. KeepBest(side, out, k, p) =
            IF Len(out) = k /\ ~Better(side, p, out[k]) THEN out ELSE e
      BY <1>1, <1>2, KeepBestIs
    <3> HIDE DEF e
    <3> QED BY <1>7, <3>1
  <2>2. /\ q \in Seq(Nat) /\ c <= Len(out) /\ c = (IF Len(out) < k THEN Len(out) ELSE k - 1)
        /\ \A i \in 1..c : q[i] = out[i]
        /\ Falls(side, q)
    BY <1>1, RoomIs
  <2>3. c \in Nat BY <2>2
  <2>4. r \in Nat /\ r <= c /\ \A i \in 1..c : i <= r <=> ~Better(side, p, q[i])
    <3> HIDE DEF q
    <3> QED BY <1>2, <2>2, RankIs
  <2> HIDE DEF q, r, p
  <2>5. /\ e \in Seq(Nat) /\ Len(e) = c + 1 /\ e[r + 1] = p
        /\ \A i \in 1..c : i <= r => e[i] = q[i]
        /\ \A i \in 1..c : i > r => e[i + 1] = q[i]
    <3>1. q \in Seq(Nat) /\ r \in Nat /\ r <= Len(q) /\ p \in Nat BY <1>2, <2>2, <2>4
    <3>2. Widened(e, q, r, p) BY <3>1, InsertedIs
    <3> QED BY <3>2 DEF Widened
  <2> HIDE DEF c, e
  <2>6. \A i \in 1..c : i \in 1..Len(out) /\ q[i] = out[i] /\ q[i] \in Nat /\ q[i] # p
    <3> SUFFICES ASSUME NEW i \in 1..c
                 PROVE  i \in 1..Len(out) /\ q[i] = out[i] /\ q[i] \in Nat /\ q[i] # p
      OBVIOUS
    <3>1. i \in 1..Len(out) BY <1>1, <2>2, <2>3
    <3>2. q[i] = out[i] BY <2>2
    <3> QED BY <1>3, <3>1, <3>2
  \* Every position of e is one before p, that of p, or one behind it.
  <2>7. ASSUME NEW i \in 1..(c + 1)
        PROVE  \/ i <= r /\ i \in 1..c /\ e[i] = q[i] /\ Better(side, q[i], p)
               \/ i = r + 1 /\ e[i] = p
               \/ i > r + 1 /\ i - 1 \in 1..c /\ i - 1 > r /\ e[i] = q[i - 1]
                  /\ Better(side, p, q[i - 1])
    <3>1. CASE i <= r
      <4>1. i \in 1..c BY <2>3, <2>4, <3>1
      <4>2. Better(side, q[i], p) BY <1>2, <2>4, <2>6, <3>1, <4>1, BetterIsTotal DEF p
      <4> QED BY <2>5, <3>1, <4>1, <4>2
    <3>2. CASE i = r + 1 BY <2>5, <3>2
    <3>3. CASE i > r + 1
      <4>1. i - 1 \in 1..c /\ i - 1 > r /\ i - 1 + 1 = i BY <2>3, <2>4, <3>3
      <4>2. ~(i - 1 <= r) BY <2>4, <4>1
      <4>3. Better(side, p, q[i - 1]) BY <2>4, <4>1, <4>2
      <4>4. e[i - 1 + 1] = q[i - 1] BY <2>5, <4>1
      <4> QED BY <3>3, <4>1, <4>3, <4>4
    <3>4. i <= r \/ i = r + 1 \/ i > r + 1 BY <2>3, <2>4
    <3> QED BY <3>1, <3>2, <3>3, <3>4
  <2>8. Falls(side, e)
    <3> SUFFICES ASSUME NEW i \in 1..(c + 1), NEW j \in 1..(c + 1), i < j
                 PROVE  Better(side, e[i], e[j])
      BY <2>5 DEF Falls
    <3>1. CASE i <= r
      <4>1. i \in 1..c /\ e[i] = q[i] /\ Better(side, q[i], p) BY <2>4, <2>7, <3>1
      <4>2. CASE j <= r
        <5>1. j \in 1..c /\ e[j] = q[j] BY <2>4, <2>7, <4>2
        <5> QED BY <2>2, <4>1, <5>1 DEF Falls, c
      <4>3. CASE j = r + 1 BY <2>5, <4>1, <4>3
      <4>4. CASE j > r + 1
        <5>1. j - 1 \in 1..c /\ e[j] = q[j - 1] /\ i < j - 1 BY <2>4, <2>7, <3>1, <4>4
        <5> QED BY <2>2, <4>1, <5>1 DEF Falls, c
      <4> QED BY <2>4, <4>2, <4>3, <4>4
    <3>2. CASE i = r + 1
      <4>1. j > r + 1 BY <3>2
      <4>2. e[j] = q[j - 1] /\ Better(side, p, q[j - 1]) BY <2>4, <2>7, <4>1
      <4> QED BY <2>5, <3>2, <4>2
    <3>3. CASE i > r + 1
      <4>1. j > r + 1 BY <2>4, <3>3
      <4>2. i - 1 \in 1..c /\ e[i] = q[i - 1] BY <2>4, <2>7, <3>3
      <4>3. j - 1 \in 1..c /\ e[j] = q[j - 1] BY <2>4, <2>7, <4>1
      <4>4. i - 1 < j - 1 OBVIOUS
      <4> QED BY <2>2, <4>2, <4>3, <4>4 DEF Falls, c
    <3> QED BY <2>4, <3>1, <3>2, <3>3
  <2>9. \A i \in 1..(c + 1) : \E m \in 1..(n + 1) : e[i] = h[m]
    <3> SUFFICES ASSUME NEW i \in 1..(c + 1) PROVE \E m \in 1..(n + 1) : e[i] = h[m] OBVIOUS
    <3>1. e[i] = p \/ \E j \in 1..c : e[i] = out[j]
      BY <2>6, <2>7
    <3>2. n + 1 \in 1..(n + 1) OBVIOUS
    <3>3. CASE e[i] = p BY <3>2, <3>3 DEF p
    <3>4. CASE \E j \in 1..c : e[i] = out[j]
      <4>1. PICK j \in 1..c : e[i] = out[j] BY <3>4
      <4>2. j \in 1..Len(out) BY <2>6
      <4> QED BY <1>1, <1>5, <4>1, <4>2
    <3> QED BY <3>1, <3>3, <3>4
  <2>10. r + 1 \in 1..(c + 1) /\ \A i \in 1..c : \E j \in 1..(c + 1) : e[j] = out[i]
    <3>1. r + 1 \in 1..(c + 1) BY <2>3, <2>4
    <3> SUFFICES ASSUME NEW i \in 1..c PROVE \E j \in 1..(c + 1) : e[j] = out[i] BY <3>1
    <3>2. CASE i <= r
      <4>1. i \in 1..(c + 1) BY <2>3
      <4> QED BY <2>5, <2>6, <3>2, <4>1
    <3>3. CASE i > r
      <4>1. i + 1 \in 1..(c + 1) BY <2>3
      <4> QED BY <2>5, <2>6, <3>3, <4>1
    <3> QED BY <2>4, <3>2, <3>3
  <2>11. CASE Len(out) < k
    <3>1. c = n /\ Len(out) = n /\ c + 1 = IF k < n + 1 THEN k ELSE n + 1
      BY <1>1, <2>2, <2>11
    <3>2. \A m \in 1..(n + 1) : \E i \in 1..(c + 1) : e[i] = h[m]
      <4> SUFFICES ASSUME NEW m \in 1..(n + 1) PROVE \E i \in 1..(c + 1) : e[i] = h[m] OBVIOUS
      <4>1. CASE m = n + 1 BY <2>5, <2>10, <4>1 DEF p
      <4>2. CASE m \in 1..n
        <5>1. PICK i \in 1..Len(out) : out[i] = h[m] BY <1>1, <2>11, <4>2
        <5>2. i \in 1..c BY <3>1
        <5> QED BY <2>10, <5>1, <5>2
      <4> QED BY <1>4, <4>1, <4>2
    <3>3. Kept(side, e, k, h, n + 1) BY <2>5, <2>8, <2>9, <3>1, <3>2 DEF Kept
    <3> QED BY <2>1, <3>3 DEF p
  <2>12. CASE ~(Len(out) < k)
    <3>1. Len(out) = k /\ c = k - 1 /\ c + 1 = k /\ c + 1 = (IF k < n + 1 THEN k ELSE n + 1)
          /\ k \in 1..Len(out) /\ k \in 1..(c + 1)
      BY <1>1, <2>2, <2>12
    <3>2. Better(side, p, out[k]) BY <1>7, <3>1
    <3>3. Better(side, e[k], out[k])
      <4>1. CASE k = r + 1 BY <2>5, <3>2, <4>1
      <4>2. CASE k > r + 1
        <5>0. k \in 1..(c + 1) /\ k > r + 1 /\ ~(k <= r) /\ k # r + 1 BY <2>4, <3>1, <4>2
        <5>1. k - 1 \in 1..c /\ e[k] = q[k - 1] BY <2>7, <5>0
        <5>2. k - 1 \in 1..Len(out) /\ k - 1 < k /\ q[k - 1] = out[k - 1] BY <1>1, <2>6, <5>1
        <5> QED BY <1>1, <3>1, <5>1, <5>2 DEF Falls
      <4> QED BY <2>4, <3>1, <4>1, <4>2
    <3>4. e[k] \in Nat /\ out[k] \in Nat BY <1>1, <2>5, <3>1
    <3>5. \A m \in 1..(n + 1) : \/ \E i \in 1..(c + 1) : e[i] = h[m]
                                \/ Better(side, e[k], h[m])
      <4> SUFFICES ASSUME NEW m \in 1..(n + 1)
                   PROVE  \/ \E i \in 1..(c + 1) : e[i] = h[m]
                          \/ Better(side, e[k], h[m])
        OBVIOUS
      <4>1. CASE m = n + 1 BY <2>5, <2>10, <4>1 DEF p
      <4>2. CASE m \in 1..n /\ \E i \in 1..Len(out) : out[i] = h[m]
        <5>1. PICK i \in 1..Len(out) : out[i] = h[m] BY <4>2
        <5>2. CASE i = k BY <3>3, <5>1, <5>2
        <5>3. CASE i # k
          <6>1. i \in 1..c BY <1>1, <3>1, <5>3
          <6> QED BY <2>10, <5>1, <6>1
        <5> QED BY <5>2, <5>3
      <4>3. CASE m \in 1..n /\ Better(side, out[k], h[m])
        <5>1. h[m] \in Nat BY <1>2, <4>3
        <5> QED BY <3>3, <3>4, <4>3, <5>1, BetterIsTotal
      <4> QED BY <1>1, <1>4, <4>1, <4>2, <4>3
    <3>6. Kept(side, e, k, h, n + 1) BY <2>5, <2>8, <2>9, <3>1, <3>5 DEF Kept
    <3> QED BY <2>1, <3>6 DEF p
  <2> QED BY <2>11, <2>12
<1> QED BY <1>6, <1>7 DEF p

\* scan[n] is what bestPrices keeps of the first n entries of h.
Scans(scan, side, h, k) ==
  /\ scan[0] = <<>>
  /\ \A n \in Nat : n < Len(h) => scan[n + 1] = KeepBest(side, scan[n], k, h[n + 1])

\* bestPrices goes over the window entry by entry.
LEMMA ScanUnfolds ==
  ASSUME NEW side, NEW k \in Nat \ {0}, NEW h \in Seq(Nat)
  PROVE  \E scan : BestPrices(side, h, k) = scan[Window(h, k)] /\ Scans(scan, side, h, k)
<1> DEFINE S == 0..Len(h)
           R == Seq(Nat)
           go == 1..Len(h)
           F(f) == [n \in S |-> IF n = 0 THEN <<>> ELSE KeepBest(side, f[n - 1], k, h[n])]
           rank == [n \in S |-> n]
           succ == [n \in go |-> n - 1]
           base == [n \in S |-> <<>>]
           step == [x \in go \X R |-> KeepBest(side, x[2], k, h[x[1]])]
<1>1. Len(h) \in Nat /\ \A n \in go : h[n] \in Nat OBVIOUS
<1>2. \A n \in go, r \in R : KeepBest(side, r, k, h[n]) \in R BY <1>1, KeepBestTyped
<1>3. \A n \in go, r \in R : step[<<n, r>>] = KeepBest(side, r, k, h[n])
  <2> HIDE DEF R
  <2> QED OBVIOUS
<1>4. /\ rank \in [S -> Nat] /\ go \in SUBSET S /\ succ \in [go -> S]
      /\ \A n \in go : rank[succ[n]] < rank[n]
  BY <1>1
<1>5. base \in [S -> R] OBVIOUS
<1>6. step \in [go \X R -> R]
  <2> SUFFICES ASSUME NEW x \in go \X R PROVE KeepBest(side, x[2], k, h[x[1]]) \in R OBVIOUS
  <2>1. x[1] \in go /\ x[2] \in R OBVIOUS
  <2> HIDE DEF go, R
  <2> QED BY <1>2, <2>1
<1>7. PICK f \in [S -> R] : Solves(f, S, go, succ, base, step)
  <2> HIDE DEF S, R, go, rank, succ, base, step
  <2> QED BY <1>4, <1>5, <1>6, RecursionExists
<1>8. f = F(f)
  <2>1. F(f) = [n \in S |-> F(f)[n]] OBVIOUS
  <2>2. ASSUME NEW n \in S PROVE f[n] = F(f)[n]
    <3>1. f[n] = IF n \in go THEN step[<<n, f[succ[n]]>>] ELSE base[n] BY <1>7 DEF Solves
    <3>2. CASE n = 0
      <4>1. n \notin go /\ base[n] = <<>> /\ F(f)[n] = <<>> BY <3>2
      <4> HIDE DEF F, go, base, step
      <4> QED BY <3>1, <4>1
    <3>3. CASE n # 0
      <4>1. n \in go /\ succ[n] = n - 1 /\ n - 1 \in S BY <1>1, <3>3
      <4>2. F(f)[n] = KeepBest(side, f[n - 1], k, h[n]) BY <3>3
      <4>3. f[n - 1] \in R
        <5> HIDE DEF R, S
        <5> QED BY <4>1
      <4> HIDE DEF step, F, go, succ, R
      <4> QED BY <3>1, <4>1, <4>2, <4>3, <1>3
    <3> QED BY <3>2, <3>3
  <2> HIDE DEF F, R
  <2> QED BY <2>1, <2>2
<1> DEFINE scan == CHOOSE u : u = F(u)
<1>9. scan = F(scan)
  <2> HIDE DEF F
  <2> QED BY <1>8
<1>10. BestPrices(side, h, k) = scan[Window(h, k)] BY DEF BestPrices
<1>11. F(scan)[0] = <<>> BY <1>1
<1>12. ASSUME NEW n \in Nat, n < Len(h)
       PROVE  F(scan)[n + 1] = KeepBest(side, scan[n], k, h[n + 1])
  <2>1. n + 1 \in S /\ n + 1 # 0 /\ n + 1 - 1 = n BY <1>1, <1>12
  <2> HIDE DEF S, scan
  <2> QED BY <2>1
<1> HIDE DEF scan, F
<1>13. Scans(scan, side, h, k) BY <1>9, <1>11, <1>12 DEF Scans
<1> QED BY <1>10, <1>13

\* bestPrices reads the k top levels of the array, or all of it.
LEMMA WindowIs ==
  ASSUME NEW h \in Seq(Nat), NEW k \in Nat
  PROVE  /\ Window(h, k) \in Nat /\ Window(h, k) <= Len(h)
         /\ Window(h, k) = FullLevels[k] \/ Window(h, k) = Len(h)
<1>1. Len(h) \in Nat OBVIOUS
<1>2. FullLevels[k] \in Nat BY LevelsAre
<1> QED BY <1>1, <1>2 DEF Window

\* What bestPrices returns is the k best of the window.
LEMMA WindowKept ==
  ASSUME NEW side, NEW k \in Nat \ {0}, NEW X, NEW h, HeapOf(side, h, X)
  PROVE  Kept(side, BestPrices(side, h, k), k, h, Window(h, k))
<1> DEFINE l == Len(h)
<1>1. /\ h \in Seq(Nat) /\ l \in Nat /\ h \in [1..l -> Nat]
      /\ \A i, j \in 1..l : h[i] = h[j] => i = j
  BY DEF HeapOf, Lists
<1>2. PICK scan : BestPrices(side, h, k) = scan[Window(h, k)] /\ Scans(scan, side, h, k)
  BY <1>1, ScanUnfolds
<1> DEFINE T == {n \in Nat : n <= l => Kept(side, scan[n], k, h, n)}
<1> HIDE DEF l
<1>3. 0 \in T
  <2>1. <<>> \in Seq(Nat) /\ Len(<<>>) = 0 /\ 1..0 = {} OBVIOUS
  <2>2. Kept(side, <<>>, k, h, 0) BY <2>1 DEF Kept, Falls
  <2> QED BY <1>2, <2>2 DEF Scans
<1>4. ASSUME NEW n \in T PROVE n + 1 \in T
  <2>1. n \in Nat /\ (n <= l => Kept(side, scan[n], k, h, n)) OBVIOUS
  <2>2. CASE n < l
    <3>1. Kept(side, scan[n], k, h, n) BY <1>1, <2>1, <2>2
    <3>2. scan[n + 1] = KeepBest(side, scan[n], k, h[n + 1]) BY <1>2, <2>1, <2>2 DEF l, Scans
    <3>3. Kept(side, KeepBest(side, scan[n], k, h[n + 1]), k, h, n + 1)
      BY <1>1, <2>1, <2>2, <3>1, KeepBestKeeps
    <3> QED BY <2>1, <3>2, <3>3
  <2>3. CASE ~(n < l)
    <3>1. ~(n + 1 <= l) BY <1>1, <2>1, <2>3
    <3> QED BY <2>1, <3>1
  <2> QED BY <2>2, <2>3
<1>5. T = Nat
  <2> HIDE DEF T
  <2>1. T \in SUBSET Nat BY DEF T
  <2> QED BY <1>3, <1>4, <2>1, SetInduction
<1>6. Window(h, k) \in Nat /\ Window(h, k) <= l BY <1>1, WindowIs DEF l
<1>7. Window(h, k) \in T BY <1>5, <1>6
<1>8. Kept(side, scan[Window(h, k)], k, h, Window(h, k)) BY <1>6, <1>7
<1> QED BY <1>2, <1>8

\* A price below the first i levels of a heap is beaten by the i best prices of the
\* first k levels: its parent, below the first i - 1 levels, beats it.
LEMMA DeepIsWorse ==
  ASSUME NEW side, NEW k \in Nat \ {0}, NEW X, NEW h, HeapOf(side, h, X),
         NEW out, Kept(side, out, k, h, FullLevels[k]), FullLevels[k] < Len(h)
  PROVE  \A m \in 1..Len(h) : m > FullLevels[k] => Better(side, out[k], h[m])
<1> DEFINE l == Len(h)
           w == FullLevels[k]
           Deep(m) == \A i \in 1..k : m > FullLevels[i] => Better(side, out[i], h[m])
           T == {n \in Nat : \A m \in 1..l : m <= n => Deep(m)}
<1>1. /\ l \in Nat /\ \A m \in 1..l : h[m] \in Nat
      /\ \A i, j \in 1..l : h[i] = h[j] => i = j
      /\ \A j \in 2..l : ~Better(side, h[j], h[j \div 2])
  BY DEF HeapOf, Lists, Ordered
<1>2. w \in Nat /\ k <= w /\ k \in Nat /\ k >= 1 BY LevelsAre
<1>3. /\ out \in Seq(Nat) /\ Len(out) = k
      /\ \A i, j \in 1..k : i < j => Better(side, out[i], out[j])
      /\ \A m \in 1..w : \/ \E i \in 1..k : out[i] = h[m]
                         \/ Better(side, out[k], h[m])
  <2>1. Len(out) = k
    <3>1. Len(out) = IF k < w THEN k ELSE w BY DEF Kept
    <3> QED BY <1>2, <3>1
  <2> QED BY <2>1 DEF Kept, Falls
<1>4. \A i \in 1..k : out[i] \in Nat BY <1>3
<1>5. \A i \in 1..k : i = k \/ Better(side, out[i], out[k]) BY <1>2, <1>3
<1>6. 0 \in T BY <1>1
<1> HIDE DEF l, w
<1>7. ASSUME NEW n \in T PROVE n + 1 \in T
  <2>1. n \in Nat /\ \A m \in 1..l : m <= n => Deep(m) OBVIOUS
  <2> SUFFICES ASSUME NEW m \in 1..l, m <= n + 1, NEW i \in 1..k, m > FullLevels[i]
               PROVE  Better(side, out[i], h[m])
    BY <2>1
  <2> DEFINE p == m \div 2
  <2>2. /\ FullLevels[i - 1] \in Nat /\ FullLevels[i] = 2 * FullLevels[i - 1] + 1
        /\ i - 1 \in Nat
    <3>1. i - 1 \in Nat /\ i - 1 + 1 = i BY <1>2
    <3>2. FullLevels[i - 1] \in Nat /\ FullLevels[i - 1 + 1] = 2 * FullLevels[i - 1] + 1
      BY <3>1, LevelsAre
    <3> QED BY <3>1, <3>2
  <2>3. p \in 1..l /\ p <= n /\ p > FullLevels[i - 1] /\ m \in 2..l
    BY <1>1, <2>1, <2>2
  <2>4. Better(side, h[p], h[m])
    <3>1. ~Better(side, h[m], h[p]) /\ p # m /\ h[p] \in Nat /\ h[m] \in Nat BY <1>1, <2>3
    <3>2. h[p] # h[m] BY <1>1, <2>3, <3>1
    <3> HIDE DEF p
    <3> QED BY <3>1, <3>2, BetterIsTotal
  <2>5. h[p] \in Nat /\ h[m] \in Nat BY <1>1, <2>3
  <2>6. Deep(p) BY <2>1, <2>3
  <2>7. CASE \E j \in 1..k : out[j] = h[p]
    <3>1. PICK j \in 1..k : out[j] = h[p] BY <2>7
    <3>2. j >= i
      <4> SUFFICES ASSUME j < i PROVE FALSE BY <1>2
      <4>1. i - 1 \in 1..k /\ j <= i - 1 BY <1>2
      <4>2. Better(side, out[i - 1], h[p]) BY <2>3, <2>6, <4>1
      <4>3. j = i - 1 \/ Better(side, out[j], out[i - 1]) BY <1>2, <1>3, <4>1
      <4>4. out[j] \in Nat /\ out[i - 1] \in Nat BY <1>4, <4>1
      <4> HIDE DEF p
      <4> QED BY <3>1, <4>2, <4>3, <4>4, BetterIsTotal
    <3>3. out[i] = out[j] \/ Better(side, out[i], out[j]) BY <1>2, <1>3, <3>2
    <3>4. out[i] \in Nat /\ out[j] \in Nat BY <1>4
    <3> HIDE DEF p
    <3> QED BY <2>4, <2>5, <3>1, <3>3, <3>4, BetterIsTotal
  <2>8. CASE ~\E j \in 1..k : out[j] = h[p]
    <3>1. k \in 1..k BY <1>2
    <3>2. Better(side, out[k], h[p])
      <4>1. CASE p <= w
        <5>1. p \in 1..w BY <1>2, <2>3, <4>1
        <5> QED BY <1>3, <2>8, <5>1
      <4>2. CASE p > w BY <2>6, <3>1, <4>2 DEF w
      <4> QED BY <1>2, <2>3, <4>1, <4>2
    <3>3. out[i] = out[k] \/ Better(side, out[i], out[k]) BY <1>5
    <3>4. out[i] \in Nat /\ out[k] \in Nat BY <1>4, <3>1
    <3> HIDE DEF p
    <3> QED BY <2>4, <2>5, <3>2, <3>3, <3>4, BetterIsTotal
  <2> QED BY <2>7, <2>8
<1>8. T = Nat
  <2> HIDE DEF T
  <2>1. T \in SUBSET Nat BY DEF T
  <2> QED BY <1>6, <1>7, <2>1, SetInduction
<1>9. \A m \in 1..l : Deep(m)
  <2>1. l \in T BY <1>1, <1>8
  <2>2. \A m \in 1..l : m <= l BY <1>1
  <2> QED BY <2>1, <2>2
<1>10. k \in 1..k BY <1>2
<1> QED BY <1>9, <1>10 DEF l

\* bestPrices returns the k best prices of the heap, although it stops at the window.
LEMMA BestPricesKept ==
  ASSUME NEW side, NEW k \in Nat \ {0}, NEW X, NEW h, HeapOf(side, h, X)
  PROVE  Kept(side, BestPrices(side, h, k), k, h, Len(h))
<1> DEFINE out == BestPrices(side, h, k)
           w == Window(h, k)
           l == Len(h)
<1>1. Kept(side, out, k, h, w) BY WindowKept
<1>2. h \in Seq(Nat) /\ l \in Nat /\ k \in Nat /\ k >= 1 BY DEF HeapOf
<1>3. w \in Nat /\ w <= l /\ (w = FullLevels[k] \/ w = l) BY <1>2, WindowIs
<1> HIDE DEF out, w
<1>4. CASE w = l BY <1>1, <1>4 DEF out
<1>5. CASE w # l
  <2>1. w = FullLevels[k] /\ FullLevels[k] < l /\ k <= w
    <3>1. w = FullLevels[k] BY <1>3, <1>5
    <3>2. k <= FullLevels[k] BY <1>2, LevelsAre
    <3> HIDE DEF l
    <3> QED BY <1>2, <1>3, <1>5, <3>1, <3>2
  <2>2. \A m \in 1..l : m > w => Better(side, out[k], h[m]) BY <1>1, <2>1, DeepIsWorse
  <2>3. Len(out) = k
    <3>1. Len(out) = IF k < w THEN k ELSE w BY <1>1 DEF Kept
    <3> QED BY <1>2, <1>3, <2>1, <3>1
  <2>4. Len(out) = IF k < l THEN k ELSE l BY <1>2, <1>3, <2>1, <2>3
  <2>5. \A m \in 1..l : m \in 1..w \/ m > w BY <1>2, <1>3
  <2>6. \A m \in 1..w : m \in 1..l BY <1>2, <1>3
  <2>7. \A i \in 1..Len(out) : \E m \in 1..l : out[i] = h[m] BY <1>1, <2>6 DEF Kept
  <2>8. \A m \in 1..l : \/ \E i \in 1..Len(out) : out[i] = h[m]
                        \/ Len(out) = k /\ Better(side, out[k], h[m])
    BY <1>1, <2>2, <2>3, <2>5 DEF Kept
  <2> HIDE DEF l
  <2>9. out \in Seq(Nat) /\ Falls(side, out) BY <1>1 DEF Kept
  <2>10. Kept(side, out, k, h, l) BY <2>4, <2>7, <2>8, <2>9 DEF Kept
  <2> QED BY <2>10 DEF l, out
<1> QED BY <1>4, <1>5

\* out ranks the prices X: as many of them as there are up to k, the i-th has i - 1 above it.
Ranks(side, out, k, X) ==
  /\ out \in Seq(X) /\ Len(out) = IF k < Cardinality(X) THEN k ELSE Cardinality(X)
  /\ \A i \in 1..Len(out) : Cardinality({q \in X : Better(side, q, out[i])}) = i - 1

\* bestPrices returns the k best prices of a heap, best first.
LEMMA BestPricesRank ==
  ASSUME NEW side, NEW k \in Nat \ {0}, NEW X, NEW h, HeapOf(side, h, X),
         Len(h) = Cardinality(X)
  PROVE  Ranks(side, BestPrices(side, h, k), k, X)
<1> DEFINE out == BestPrices(side, h, k)
           l == Len(h)
           c == Len(out)
<1>1. Kept(side, out, k, h, l) BY BestPricesKept
<1>2. /\ l \in Nat /\ \A m \in 1..l : h[m] \in X /\ h[m] \in Nat
      /\ \A x \in X : x \in Nat /\ \E m \in 1..l : h[m] = x
  <2>1. /\ h \in [1..l -> Nat] /\ l \in Nat /\ \A m \in 1..l : h[m] \in X
        /\ \A x \in X : \E m \in 1..l : h[m] = x
    BY DEF HeapOf, Lists
  <2> HIDE DEF l
  <2> QED BY <2>1
<1> HIDE DEF out
<1>3. /\ out \in Seq(Nat) /\ c \in Nat /\ c = (IF k < l THEN k ELSE l) /\ Falls(side, out)
      /\ \A i \in 1..c : \E m \in 1..l : out[i] = h[m]
      /\ \A m \in 1..l : \/ \E i \in 1..c : out[i] = h[m]
                         \/ c = k /\ Better(side, out[k], h[m])
  BY <1>1 DEF Kept
<1>4. \A i \in 1..c : out[i] \in X /\ out[i] \in Nat BY <1>2, <1>3
<1>5. out \in Seq(X)
  <2>1. out \in [1..c -> Nat] BY <1>3, LenProperties
  <2> HIDE DEF c
  <2>2. out \in [1..c -> X] BY <2>1, <1>4
  <2>3. c \in Nat BY <1>3
  <2> QED BY <2>2, <2>3, SeqDef
<1> HIDE DEF c, l
<1>6. ASSUME NEW i \in 1..c
      PROVE  Cardinality({q \in X : Better(side, q, out[i])}) = i - 1
  <2> DEFINE B == {q \in X : Better(side, q, out[i])}
             f == [j \in 1..(i - 1) |-> out[j]]
  <2>1. \A j \in 1..(i - 1) : j \in 1..c /\ j < i BY <1>3
  <2>2. \A j \in 1..(i - 1) : f[j] = out[j] /\ f[j] \in B
    <3> SUFFICES ASSUME NEW j \in 1..(i - 1) PROVE out[j] \in B OBVIOUS
    <3>1. Better(side, out[j], out[i]) BY <2>1 , <1>3 DEF Falls, c
    <3> QED BY <1>4, <2>1, <3>1
  <2>3. ASSUME NEW a \in 1..(i - 1), NEW b \in 1..(i - 1), a < b PROVE f[a] # f[b]
    <3>1. Better(side, out[a], out[b]) BY <1>3, <2>1, <2>3 DEF Falls, c
    <3>2. out[a] \in Nat /\ out[b] \in Nat BY <1>4, <2>1
    <3>3. out[a] # out[b] BY <3>1, <3>2, BetterIsTotal
    <3> HIDE DEF f
    <3> QED BY <2>2, <3>3
  <2>4. \A a, b \in 1..(i - 1) : f[a] = f[b] => a = b
    <3> SUFFICES ASSUME NEW a \in 1..(i - 1), NEW b \in 1..(i - 1), a # b PROVE f[a] # f[b]
      OBVIOUS
    <3>1. a < b \/ b < a BY <1>3
    <3> HIDE DEF f
    <3> QED BY <2>3, <3>1
  <2>5. ASSUME NEW q \in B PROVE \E j \in 1..(i - 1) : f[j] = q
    <3>1. q \in X /\ q \in Nat /\ Better(side, q, out[i]) /\ out[i] \in Nat BY <1>2, <1>4
    <3>2. PICK m \in 1..l : h[m] = q BY <1>2, <3>1
    <3>3. CASE \E j \in 1..c : out[j] = q
      <4>1. PICK j \in 1..c : out[j] = q BY <3>3
      <4>2. ~(j = i) BY <3>1, <4>1, BetterIsTotal
      <4>3. ~(i < j)
        <5> SUFFICES ASSUME i < j PROVE FALSE OBVIOUS
        <5>1. Better(side, out[i], out[j]) BY <1>3 DEF Falls, c
        <5> QED BY <3>1, <4>1, <5>1, BetterIsTotal
      <4>4. j \in 1..(i - 1) BY <1>3, <4>2, <4>3
      <4> QED BY <4>1, <4>4
    <3>4. CASE c = k /\ Better(side, out[k], q)
      <4>0. k \in 1..c BY <3>4
      <4>1. k \in 1..c /\ out[k] \in Nat BY <1>4, <4>0
      <4>2. k = i \/ Better(side, out[i], out[k]) BY <1>3, <3>4, <4>1 DEF Falls, c
      <4> QED BY <3>1, <3>4, <4>1, <4>2, BetterIsTotal
    <3> QED BY <1>3, <3>2, <3>3, <3>4
  <2>6. f \in Bijection(1..(i - 1), B)
    <3>1. f \in [1..(i - 1) -> B]
      <4>1. f = [j \in 1..(i - 1) |-> f[j]] OBVIOUS
      <4> HIDE DEF f, B
      <4> QED BY <2>2, <4>1
    <3> HIDE DEF f, B
    <3> QED BY <2>4, <2>5, <3>1 DEF Bijection, Injection, Surjection, IsInjective
  <2>7. IsFiniteSet(1..(i - 1)) /\ Cardinality(1..(i - 1)) = i - 1
    <3>1. 1 \in Int /\ i - 1 \in Int BY <1>3
    <3>2. /\ IsFiniteSet(1..(i - 1))
          /\ Cardinality(1..(i - 1)) = IF 1 > i - 1 THEN 0 ELSE i - 1 - 1 + 1
      BY <3>1, FS_Interval
    <3> QED BY <1>3, <3>2
  <2> HIDE DEF B
  <2>8. Cardinality(B) = i - 1 BY <2>6, <2>7, FS_Bijection DEF ExistsBijection
  <2> QED BY <2>8 DEF B
<1>7. Ranks(side, out, k, X) BY <1>3, <1>5, <1>6 DEF Ranks, c, l
<1> QED BY <1>7 DEF out

-----------------------------------------------------------------------------
(* The order book.                                                         *)

TradeType == [price : Nat, qty : Nat]

\* The orders q queue at price p of side s, in order of arrival, none spent.
Queue(q, s, p) ==
  /\ q \in Seq(OrderType)
  /\ \A i \in 1..Len(q) : q[i].side = s /\ q[i].price = p /\ q[i].qty > 0
  /\ \A i, j \in 1..Len(q) : i < j => q[i].id < q[j].id

BookTypes ==
  /\ DOMAIN level = Sides /\ \A s \in Sides : DOMAIN level[s] \subseteq Prices
  /\ heap \in [Sides -> Seq(Nat)]
  /\ best \in [Sides -> Nat]
  /\ taker \in OrderType \cup {NoTaker}
  /\ isRestoring \in BOOLEAN /\ arrived \in 0..MaxOrders
  /\ tradeCh \in Seq(TradeType) /\ executed \in Seq(TradeType)
  /\ Len(tradeCh) <= TradeRoom

\* The heap of a side holds the prices of its map, and the cached best is its top.
HeapsInv ==
  \A s \in Sides : /\ HeapOf(s, heap[s], DOMAIN level[s])
                   /\ best[s] = IF heap[s] = <<>> THEN 0 ELSE heap[s][1]

LevelsInv ==
  \A s \in Sides : \A p \in DOMAIN level[s] :
    /\ Queue(level[s][p].orders, s, p) /\ level[s][p].orders # <<>>
    /\ level[s][p].volume = TotalOf(level[s][p].orders)

\* Every resting order arrived before the taker, the youngest of all.
AgeInv ==
  /\ taker # NoTaker => taker.id = arrived
  /\ \A o \in Resting : o.id <= arrived /\ (taker # NoTaker => o.id < arrived)

\* Even while an order is being matched the resting orders do not cross.
Uncrossed == best["Buy"] > 0 /\ best["Sell"] > 0 => best["Buy"] < best["Sell"]

BookInv == BookTypes /\ HeapsInv /\ LevelsInv /\ AgeInv /\ Uncrossed

-----------------------------------------------------------------------------

\* f adds up the quantities of q.
Sums(f, q) ==
  /\ f[0] = 0
  /\ \A n \in 1..Len(q) : f[n] = f[n - 1] + q[n].qty

\* The recursion of TotalOf has a solution.
LEMMA TotalUnfolds ==
  ASSUME NEW q \in Seq(OrderType)
  PROVE  \E f \in [0..Len(q) -> Nat] : Sums(f, q) /\ TotalOf(q) = f[Len(q)]
<1> DEFINE n == Len(q)
           S == 0..n
           F(f) == [k \in 0..Len(q) |-> IF k = 0 THEN 0 ELSE f[k - 1] + q[k].qty]
           go == 1..n
           rank == [k \in S |-> k]
           succ == [k \in go |-> k - 1]
           base == [k \in S |-> 0]
           step == [x \in go \X Nat |-> x[2] + q[x[1]].qty]
<1>1. n \in Nat /\ \A k \in go : k \in S /\ k - 1 \in S /\ k # 0 OBVIOUS
<1>2. \A k \in go : q[k].qty \in Nat
  <2> SUFFICES ASSUME NEW k \in go PROVE q[k].qty \in Nat OBVIOUS
  <2>1. q[k] \in OrderType OBVIOUS
  <2> QED BY <2>1 DEF OrderType
<1>3. \A k \in go, r \in Nat : step[<<k, r>>] = r + q[k].qty OBVIOUS
<1>4. step \in [go \X Nat -> Nat]
  <2> SUFFICES ASSUME NEW x \in go \X Nat PROVE x[2] + q[x[1]].qty \in Nat OBVIOUS
  <2> HIDE DEF go
  <2> QED BY <1>2
<1>5. PICK f \in [S -> Nat] : Solves(f, S, go, succ, base, step)
  <2>1. rank \in [S -> Nat] /\ succ \in [go -> S] /\ base \in [S -> Nat] /\ go \in SUBSET S
    BY <1>1
  <2>2. \A k \in go : rank[succ[k]] < rank[k] BY <1>1
  <2> HIDE DEF S, go, rank, succ, base, step, F
  <2> QED BY <1>4, <2>1, <2>2, RecursionExists
<1>6. f = F(f)
  <2>1. F(f) = [k \in S |-> F(f)[k]] OBVIOUS
  <2>2. ASSUME NEW k \in S PROVE f[k] = F(f)[k]
    <3>1. f[k] = IF k \in go THEN step[<<k, f[succ[k]]>>] ELSE base[k] BY <1>5 DEF Solves
    <3>2. CASE k = 0 BY <3>1, <3>2
    <3>3. CASE k # 0
      <4>1. k \in go /\ succ[k] = k - 1 /\ f[k - 1] \in Nat BY <3>3, <1>1, SMTT(20)
      <4>2. F(f)[k] = f[k - 1] + q[k].qty BY <3>3
      <4> HIDE DEF step, F, go, succ, S
      <4> QED BY <3>1, <4>1, <4>2, <1>3
    <3> QED BY <3>2, <3>3
  <2> HIDE DEF S, F
  <2> QED BY <2>1, <2>2
<1> DEFINE t == CHOOSE u : u = F(u)
<1>7. t = F(t)
  <2> HIDE DEF F
  <2> QED BY <1>6
<1>8. TotalOf(q) = t[n] BY DEF TotalOf
<1>9. t[0] = 0 /\ \A k \in 1..n : t[k] = t[k - 1] + q[k].qty
  <2>1. F(t)[0] = 0 /\ \A k \in 1..n : F(t)[k] = t[k - 1] + q[k].qty BY <1>1
  <2> HIDE DEF F, t
  <2> QED BY <1>7, <2>1
<1>10. \A k \in 0..n : t[k] \in Nat
  <2> DEFINE T == {k \in Nat : k <= n => t[k] \in Nat}
  <2> HIDE DEF t
  <2>1. 0 \in T BY <1>9
  <2>2. ASSUME NEW k \in T PROVE k + 1 \in T
    <3> SUFFICES ASSUME k + 1 <= n PROVE t[k + 1] \in Nat OBVIOUS
    <3>1. k \in Nat /\ t[k] \in Nat /\ k + 1 \in 1..n /\ k + 1 - 1 = k BY <1>1
    <3>2. t[k + 1] = t[k] + q[k + 1].qty BY <1>9, <3>1
    <3> QED BY <1>2, <3>1, <3>2
  <2>3. T = Nat
    <3>1. T \in SUBSET Nat OBVIOUS
    <3> HIDE DEF T
    <3> QED BY <2>1, <2>2, <3>1, SetInduction
  <2> QED BY <2>3, <1>1
<1>11. t \in [0..n -> Nat]
  <2>1. DOMAIN F(t) = 0..n OBVIOUS
  <2>2. t = [k \in 0..n |-> F(t)[k]] BY <1>7
  <2> HIDE DEF F, t
  <2> QED BY <1>7, <1>10, <2>2
<1> HIDE DEF t
<1> QED BY <1>8, <1>9, <1>11 DEF Sums

\* The quantities of a queue add up to a natural number.
LEMMA TotalType ==
  ASSUME NEW q \in Seq(OrderType)
  PROVE  TotalOf(q) \in Nat
<1>1. PICK f \in [0..Len(q) -> Nat] : Sums(f, q) /\ TotalOf(q) = f[Len(q)] BY TotalUnfolds
<1>2. Len(q) \in 0..Len(q) OBVIOUS
<1> QED BY <1>1, <1>2

\* An empty queue adds up to nothing.
LEMMA TotalEmpty == TotalOf(<<>>) = 0
<1>1. <<>> \in Seq(OrderType) /\ Len(<<>>) = 0 OBVIOUS
<1>2. PICK f \in [0..Len(<<>>) -> Nat] : Sums(f, <<>>) /\ TotalOf(<<>>) = f[Len(<<>>)]
  BY <1>1, TotalUnfolds
<1> QED BY <1>1, <1>2 DEF Sums

\* The total of a queue that an order joined.
LEMMA TotalAppend ==
  ASSUME NEW q \in Seq(OrderType), NEW o \in OrderType
  PROVE  TotalOf(Append(q, o)) = TotalOf(q) + o.qty
<1> DEFINE a == Append(q, o)
           n == Len(q)
<1>1. /\ a \in Seq(OrderType) /\ Len(a) = n + 1 /\ a[n + 1] = o /\ n \in Nat
      /\ \A i \in 1..n : a[i] = q[i]
  OBVIOUS
<1> HIDE DEF a
<1>2. PICK f \in [0..n -> Nat] : Sums(f, q) /\ TotalOf(q) = f[n] BY TotalUnfolds
<1>3. PICK g \in [0..(n + 1) -> Nat] : Sums(g, a) /\ TotalOf(a) = g[n + 1]
  BY <1>1, TotalUnfolds
<1> DEFINE T == {k \in Nat : k <= n => g[k] = f[k]}
<1> HIDE DEF n
<1>4. 0 \in T BY <1>2, <1>3 DEF Sums
<1>5. ASSUME NEW k \in T PROVE k + 1 \in T
  <2> SUFFICES ASSUME k + 1 <= n PROVE g[k + 1] = f[k + 1] OBVIOUS
  <2>1. k \in Nat /\ g[k] = f[k] /\ k + 1 \in 1..n /\ k + 1 \in 1..Len(a) /\ k + 1 - 1 = k
    BY <1>1, SMTT(20)
  <2>2. g[k + 1] = g[k] + a[k + 1].qty BY <1>3, <2>1 DEF Sums
  <2>3. f[k + 1] = f[k] + q[k + 1].qty BY <1>2, <2>1 DEF Sums, n
  <2> QED BY <1>1, <2>1, <2>2, <2>3
<1>6. T = Nat
  <2>1. T \in SUBSET Nat OBVIOUS
  <2> HIDE DEF T
  <2> QED BY <1>4, <1>5, <2>1, SetInduction
<1>7. g[n] = f[n] BY <1>1, <1>6
<1>8. g[n + 1] = g[n] + o.qty
  <2>1. n + 1 \in 1..Len(a) /\ n + 1 - 1 = n BY <1>1
  <2> QED BY <1>1, <1>3, <2>1 DEF Sums
<1> QED BY <1>2, <1>3, <1>7, <1>8 DEF a

\* The total of a queue, its front apart.
LEMMA TotalHead ==
  ASSUME NEW q \in Seq(OrderType), q # <<>>
  PROVE  TotalOf(q) = Head(q).qty + TotalOf(Tail(q))
<1> DEFINE r == Tail(q)
           n == Len(r)
<1>1. /\ r \in Seq(OrderType) /\ Len(q) = n + 1 /\ n \in Nat /\ Head(q) = q[1]
      /\ \A i \in 1..n : r[i] = q[i + 1]
  OBVIOUS
<1>2. q[1].qty \in Nat
  <2>1. q[1] \in OrderType BY <1>1
  <2> QED BY <2>1 DEF OrderType
<1> HIDE DEF r
<1>3. PICK f \in [0..n -> Nat] : Sums(f, r) /\ TotalOf(r) = f[n] BY <1>1, TotalUnfolds
<1>4. PICK g \in [0..(n + 1) -> Nat] : Sums(g, q) /\ TotalOf(q) = g[n + 1]
  BY <1>1, TotalUnfolds
<1> DEFINE T == {k \in Nat : k <= n => g[k + 1] = q[1].qty + f[k]}
<1>5. 0 \in T
  <2>1. 1 \in 1..Len(q) /\ 1 - 1 = 0 BY <1>1
  <2>2. g[1] = g[0] + q[1].qty /\ g[0] = 0 BY <1>4, <2>1 DEF Sums
  <2>3. f[0] = 0 BY <1>3 DEF Sums
  <2> QED BY <1>2, <2>2, <2>3
<1> HIDE DEF n
<1>6. ASSUME NEW k \in T PROVE k + 1 \in T
  <2> SUFFICES ASSUME k + 1 <= n PROVE g[k + 1 + 1] = q[1].qty + f[k + 1] OBVIOUS
  <2>1. /\ k \in Nat /\ g[k + 1] = q[1].qty + f[k] /\ k + 1 \in 1..n /\ k + 1 - 1 = k
        /\ k + 1 + 1 \in 1..Len(q) /\ k + 1 + 1 - 1 = k + 1
    BY <1>1
  <2>2. g[k + 1 + 1] = g[k + 1] + q[k + 1 + 1].qty BY <1>4, <2>1 DEF Sums
  <2>3. f[k + 1] = f[k] + r[k + 1].qty BY <1>3, <2>1 DEF Sums, n
  <2>4. r[k + 1] = q[k + 1 + 1] BY <1>1, <2>1
  <2>5. q[k + 1 + 1].qty \in Nat /\ f[k] \in Nat
    <3>1. q[k + 1 + 1] \in OrderType BY <2>1
    <3>2. k \in 0..n BY <1>1, <2>1
    <3> QED BY <3>1, <3>2 DEF OrderType
  <2> QED BY <1>2, <2>1, <2>2, <2>3, <2>4, <2>5
<1>7. T = Nat
  <2>1. T \in SUBSET Nat OBVIOUS
  <2> HIDE DEF T
  <2> QED BY <1>5, <1>6, <2>1, SetInduction
<1>8. g[n + 1] = q[1].qty + f[n]
  <2>1. n \in Nat BY <1>1
  <2>2. n \in T BY <1>7, <2>1
  <2> QED BY <2>1, <2>2
<1> QED BY <1>1, <1>3, <1>4, <1>8 DEF r

-----------------------------------------------------------------------------

\* The order o after k of it was traded.
Reduced(o, k) == [o EXCEPT !.qty = @ - k]

\* The level lvl of price p has k to trade in its first order.
Fillable(lvl, s, p, k) ==
  /\ Queue(lvl.orders, s, p) /\ lvl.orders # <<>>
  /\ lvl.volume = TotalOf(lvl.orders)
  /\ k \in Nat /\ k > 0 /\ k <= Head(lvl.orders).qty

\* The queue after k of its first order was traded.
LEMMA FilledQueue ==
  ASSUME NEW s, NEW p, NEW lvl, NEW k, Fillable(lvl, s, p, k)
  PROVE  LET q == lvl.orders
             r == Filled(lvl, k).orders
         IN /\ Queue(r, s, p)
            /\ Filled(lvl, k).volume = TotalOf(r)
            /\ Head(q) \in OrderType /\ Head(q).side = s /\ Head(q).price = p
            /\ \A o \in Range(q) : o # Head(q) => o.id > Head(q).id
            /\ Head(q) \in Range(q)
            /\ Range(r) = (Range(q) \ {Head(q)})
                 \cup (IF Head(q).qty > k THEN {Reduced(Head(q), k)} ELSE {})
<1> DEFINE q == lvl.orders
           h == q[1]
           t == Tail(q)
           left == Reduced(h, k)
           r == Filled(lvl, k).orders
<1>1. /\ q \in Seq(OrderType) /\ Len(q) \in Nat /\ Len(q) >= 1 /\ Head(q) = h
      /\ t \in Seq(OrderType) /\ Len(t) = Len(q) - 1 /\ \A i \in 1..Len(t) : t[i] = q[i + 1]
      /\ q # <<>> /\ h \in OrderType /\ k \in Nat /\ k > 0 /\ DOMAIN q = 1..Len(q) /\ DOMAIN t = 1..Len(t)
  BY DEF Queue, Fillable
<1>2. /\ h.side = s /\ h.price = p /\ h.qty > 0 /\ h.qty \in Nat /\ k <= h.qty
  <2>1. 1 \in 1..Len(q) BY <1>1
  <2> QED BY <1>1, <2>1 DEF Queue, OrderType, Fillable
<1>3. /\ left \in OrderType /\ left.side = s /\ left.price = p /\ left.qty = h.qty - k
      /\ left.id = h.id
  <2>1. /\ h \in [id : 1..MaxOrders, side : Sides, price : Prices, qty : Nat]
        /\ h.qty - k \in Nat
    BY <1>1, <1>2 DEF OrderType
  <2> HIDE DEF h
  <2> QED BY <1>2, <2>1 DEF OrderType, Reduced
<1>4. \A i \in 1..Len(q) : q[i].side = s /\ q[i].price = p /\ q[i].qty > 0
  BY DEF Queue, Fillable
<1>5. \A i, j \in 1..Len(q) : i < j => q[i].id < q[j].id BY DEF Queue, Fillable
<1>6. TotalOf(q) = h.qty + TotalOf(t) /\ TotalOf(t) \in Nat
  BY <1>1, TotalHead, TotalType
<1>7. /\ left.qty = 0 => r = t
      /\ left.qty # 0 => r = <<left>> \o t
      /\ Filled(lvl, k).volume = TotalOf(q) - k
      /\ k \in Nat
  BY <1>1 DEF Filled, Reduced, Fillable
<1> HIDE DEF q, h, t, left, r
<1>8. \A o \in Range(q) : o # h => o.id > h.id
  <2> SUFFICES ASSUME NEW i \in 1..Len(q), q[i] # h PROVE q[i].id > h.id
    BY <1>1 DEF Range
  <2>1. 1 \in 1..Len(q) /\ 1 < i BY <1>1 DEF h
  <2>2. q[1].id < q[i].id BY <1>5, <2>1
  <2>3. q[i] \in OrderType /\ q[1] \in OrderType BY <1>1, <2>1
  <2> QED BY <2>2, <2>3 DEF OrderType, h
<1>9. Range(q) \ {h} = Range(t)
  <2>1. ASSUME NEW i \in 1..Len(q), q[i] # h PROVE q[i] \in Range(t)
    <3>1. i # 1 BY <2>1 DEF h
    <3>2. i - 1 \in 1..Len(t) /\ i - 1 + 1 = i BY <1>1, <3>1
    <3>3. t[i - 1] = q[i] BY <1>1, <3>2
    <3> QED BY <1>1, <3>2, <3>3 DEF Range
  <2>2. ASSUME NEW i \in 1..Len(t) PROVE t[i] \in Range(q) /\ t[i] # h
    <3>1. i + 1 \in 1..Len(q) /\ 1 \in 1..Len(q) /\ 1 < i + 1 BY <1>1
    <3>2. t[i] = q[i + 1] BY <1>1
    <3>3. q[1].id < q[i + 1].id BY <1>5, <3>1
    <3>4. q[1].id \in Nat
      <4>1. q[1] \in OrderType BY <1>1, <3>1
      <4> QED BY <4>1 DEF OrderType
    <3>5. t[i] # h BY <3>2, <3>3, <3>4 DEF h
    <3>6. q[i + 1] \in Range(q) BY <1>1, <3>1 DEF Range
    <3> QED BY <3>2, <3>5, <3>6
  <2> QED BY <1>1, <2>1, <2>2 DEF Range
<1>10. h \in Range(q)
  <2>1. 1 \in 1..Len(q) BY <1>1
  <2> QED BY <1>1, <2>1 DEF Range, h
<1>11. \A i \in 1..Len(t) : t[i].side = s /\ t[i].price = p /\ t[i].qty > 0
  <2> SUFFICES ASSUME NEW i \in 1..Len(t) PROVE t[i].side = s /\ t[i].price = p /\ t[i].qty > 0
    OBVIOUS
  <2>1. i + 1 \in 1..Len(q) /\ t[i] = q[i + 1] BY <1>1
  <2> QED BY <1>4, <2>1
<1>12. \A i, j \in 1..Len(t) : i < j => t[i].id < t[j].id
  <2> SUFFICES ASSUME NEW i \in 1..Len(t), NEW j \in 1..Len(t), i < j PROVE t[i].id < t[j].id
    OBVIOUS
  <2>1. i + 1 \in 1..Len(q) /\ j + 1 \in 1..Len(q) /\ i + 1 < j + 1 BY <1>1
  <2>2. t[i] = q[i + 1] /\ t[j] = q[j + 1] BY <1>1
  <2> QED BY <1>5, <2>1, <2>2
<1>13. CASE left.qty = 0
  <2>1. r = t /\ h.qty = k BY <1>2, <1>3, <1>7, <1>13
  <2>2. Queue(r, s, p) BY <1>1, <1>11, <1>12, <2>1 DEF Queue
  <2>3. Filled(lvl, k).volume = TotalOf(r) BY <1>2, <1>6, <1>7, <2>1
  <2>4. ~(h.qty > k) BY <1>2, <2>1
  <2>5. Range(r) = (Range(q) \ {h}) \cup (IF h.qty > k THEN {left} ELSE {})
    BY <1>9, <2>1, <2>4
  <2> QED BY <1>1, <1>2, <1>8, <1>10, <2>2, <2>3, <2>5 DEF q, r, left
<1>14. CASE left.qty # 0
  <2>1. r = <<left>> \o t /\ h.qty > k BY <1>2, <1>3, <1>7, <1>14
  <2>2. <<left>> \in Seq(OrderType) /\ Len(<<left>>) = 1 /\ <<left>>[1] = left BY <1>3
  <2>3. /\ r \in Seq(OrderType) /\ Len(r) = Len(q) /\ r[1] = left
        /\ \A i \in 1..Len(t) : r[i + 1] = t[i]
    BY <1>1, <2>1, <2>2
  <2>4. \A i \in 1..Len(q) : i = 1 \/ (i # 1 /\ i - 1 \in 1..Len(t) /\ i - 1 + 1 = i) BY <1>1
  <2>5. \A i \in 1..Len(q) : i # 1 => r[i] = q[i]
    <3> SUFFICES ASSUME NEW i \in 1..Len(q), i # 1 PROVE r[i] = q[i] OBVIOUS
    <3>1. i - 1 \in 1..Len(t) /\ i - 1 + 1 = i BY <2>4
    <3> QED BY <1>1, <2>3, <3>1
  <2>6. \A i \in 1..Len(q) : r[i].id = q[i].id
    <3>1. r[1].id = q[1].id BY <1>3, <2>3 DEF h
    <3> QED BY <2>5, <3>1
  <2>7. Queue(r, s, p)
    <3>1. left.qty > 0 BY <1>1, <1>2, <1>3, <2>1
    <3>2. \A i \in 1..Len(r) : r[i].side = s /\ r[i].price = p /\ r[i].qty > 0
      BY <1>3, <1>4, <2>3, <2>5, <3>1
    <3>3. \A i, j \in 1..Len(r) : i < j => r[i].id < r[j].id BY <1>5, <2>3, <2>6
    <3> QED BY <2>3, <3>2, <3>3 DEF Queue
  <2>8. Filled(lvl, k).volume = TotalOf(r)
    <3>1. r # <<>> /\ Head(r) = left BY <1>1, <2>3
    <3>2. Tail(r) = t
      <4>1. Tail(r) \in Seq(OrderType) /\ Len(Tail(r)) = Len(t)
            /\ \A i \in 1..Len(t) : Tail(r)[i] = t[i]
        BY <1>1, <2>3, <3>1
      <4> QED BY <1>1, <4>1, SeqEqual
    <3>3. TotalOf(r) = left.qty + TotalOf(t) BY <2>3, <3>1, <3>2, TotalHead
    <3> QED BY <1>2, <1>3, <1>6, <1>7, <3>3
  <2>9. Range(r) = Range(t) \cup {left}
    <3>1. DOMAIN r = 1..Len(q) /\ 1 \in 1..Len(q) BY <1>1, <2>3
    <3>2. \A i \in 1..Len(q) : r[i] \in Range(t) \cup {left}
      <4> SUFFICES ASSUME NEW i \in 1..Len(q), i # 1 PROVE r[i] \in Range(t) BY <2>3
      <4>1. i - 1 \in 1..Len(t) /\ r[i] = t[i - 1] BY <2>3, <2>4
      <4> QED BY <1>1, <4>1 DEF Range
    <3>3. \A i \in 1..Len(t) : i + 1 \in 1..Len(q) BY <1>1
    <3>4. \A i \in 1..Len(t) : t[i] \in Range(r) BY <2>3, <3>1, <3>3 DEF Range
    <3>5. left \in Range(r) BY <2>3, <3>1 DEF Range
    <3>6. Range(r) \subseteq Range(t) \cup {left} BY <3>1, <3>2 DEF Range
    <3>7. Range(t) \subseteq Range(r) BY <1>1, <3>4 DEF Range
    <3> QED BY <3>5, <3>6, <3>7
  <2>10. Range(r) = (Range(q) \ {h}) \cup (IF h.qty > k THEN {left} ELSE {})
    BY <1>9, <2>1, <2>9
  <2> QED BY <1>1, <1>2, <1>8, <1>10, <2>7, <2>8, <2>10 DEF q, r, left
<1> QED BY <1>13, <1>14

\* The queue that a younger order joined.
LEMMA JoinedQueue ==
  ASSUME NEW s, NEW p, NEW q, Queue(q, s, p), NEW o \in OrderType,
         o.side = s, o.price = p, o.qty > 0, \A x \in Range(q) : x.id < o.id
  PROVE  LET r == Append(q, o)
         IN /\ Queue(r, s, p) /\ r # <<>>
            /\ TotalOf(r) = TotalOf(q) + o.qty
            /\ Range(r) = Range(q) \cup {o}
<1> DEFINE r == Append(q, o)
           n == Len(q)
<1>1. q \in Seq(OrderType) BY DEF Queue
<1>2. /\ n \in Nat /\ DOMAIN q = 1..n /\ r \in Seq(OrderType) /\ Len(r) = n + 1
      /\ DOMAIN r = 1..(n + 1) /\ r[n + 1] = o /\ r # <<>>
      /\ \A i \in 1..n : r[i] = q[i]
  BY <1>1
<1>3. \A i \in 1..(n + 1) : i \in 1..n \/ i = n + 1 BY <1>2
<1>4. TotalOf(r) = TotalOf(q) + o.qty BY <1>1, TotalAppend
<1> HIDE DEF r, n
<1>5. \A i \in 1..(n + 1) : r[i].side = s /\ r[i].price = p /\ r[i].qty > 0
  BY <1>2, <1>3 DEF Queue, n
<1>6. \A i, j \in 1..(n + 1) : i < j => r[i].id < r[j].id
  <2> SUFFICES ASSUME NEW i \in 1..(n + 1), NEW j \in 1..(n + 1), i < j
               PROVE  r[i].id < r[j].id
    OBVIOUS
  <2>1. i \in 1..n BY <1>2
  <2>2. CASE j \in 1..n BY <1>2, <2>1, <2>2 DEF Queue, n
  <2>3. CASE j = n + 1 BY <1>2, <2>1, <2>3 DEF Range
  <2> QED BY <1>3, <2>2, <2>3
<1>7. Queue(r, s, p) BY <1>2, <1>5, <1>6 DEF Queue
<1>8. Range(r) = Range(q) \cup {o}
  <2>1. \A i \in 1..n : i \in 1..(n + 1) BY <1>2
  <2>2. n + 1 \in 1..(n + 1) BY <1>2
  <2> QED BY <1>2, <1>3, <2>1, <2>2 DEF Range
<1> QED BY <1>2, <1>4, <1>7, <1>8 DEF r

-----------------------------------------------------------------------------

\* b is the best of the prices X, 0 when there are none.
BestOf(s, b, X) ==
  IF X = {} THEN b = 0 ELSE b \in X /\ \A x \in X : ~Better(s, x, b)

Top(h) == IF h = <<>> THEN 0 ELSE h[1]

\* The array is empty exactly when no price has a level.
LEMMA HeapIsEmpty ==
  ASSUME NEW s, NEW X, NEW h, HeapOf(s, h, X)
  PROVE  h = <<>> <=> X = {}
<1>1. h \in Seq(Nat) BY DEF HeapOf
<1>2. CASE h = <<>>
  <2>1. Len(h) = 0 /\ 1..0 = {} BY <1>2
  <2> QED BY <1>2, <2>1 DEF HeapOf, Lists
<1>3. CASE h # <<>>
  <2>1. Len(h) \in Nat /\ Len(h) # 0 BY <1>1, <1>3, EmptySeq
  <2>2. 1 \in 1..Len(h) BY <2>1
  <2> QED BY <1>3, <2>2 DEF HeapOf, Lists
<1> QED BY <1>2, <1>3

\* The top of a heap is the best of its prices, 0 when there is none.
LEMMA TopIsBestOf ==
  ASSUME NEW s, NEW X, NEW h, HeapOf(s, h, X)
  PROVE  BestOf(s, Top(h), X)
BY HeapIsEmpty, TopIsBest DEF BestOf, Top

\* A set of prices has one best price.
LEMMA BestIsUnique ==
  ASSUME NEW s, NEW X \in SUBSET Nat, NEW a, NEW b, BestOf(s, a, X), BestOf(s, b, X)
  PROVE  a = b
<1>1. CASE X = {} BY <1>1 DEF BestOf
<1>2. CASE X # {}
  <2>1. a \in Nat /\ b \in Nat /\ ~Better(s, a, b) /\ ~Better(s, b, a) BY <1>2 DEF BestOf
  <2> QED BY <2>1 DEF Better
<1> QED BY <1>1, <1>2

\* What the invariant says of one side's best price.
LEMMA SideFacts ==
  ASSUME BookInv, NEW s \in Sides
  PROVE  /\ DOMAIN level[s] \subseteq Prices /\ DOMAIN level[s] \subseteq Nat \ {0}
         /\ HeapOf(s, heap[s], DOMAIN level[s])
         /\ best[s] = Top(heap[s]) /\ best[s] \in Nat
         /\ BestOf(s, best[s], DOMAIN level[s])
         /\ best[s] > 0 <=> DOMAIN level[s] # {}
<1>1. DOMAIN level[s] \subseteq Prices /\ DOMAIN level[s] \subseteq Nat \ {0}
  BY BookAssumption DEF BookInv, BookTypes
<1>2. HeapOf(s, heap[s], DOMAIN level[s]) /\ best[s] = Top(heap[s])
  BY DEF BookInv, HeapsInv, Top
<1>3. BestOf(s, best[s], DOMAIN level[s]) BY <1>2, TopIsBestOf
<1>4. best[s] \in Nat /\ (best[s] > 0 <=> DOMAIN level[s] # {})
  BY <1>1, <1>3 DEF BestOf
<1> QED BY <1>1, <1>2, <1>3, <1>4

\* The set Resting.
LEMMA RestingIs ==
  \A o : o \in Resting <=>
    \E s \in Sides : \E p \in DOMAIN level[s] : o \in Range(level[s][p].orders)
BY DEF Resting

\* A resting order knows its side, price and place in the order of arrival.
LEMMA RestingFacts ==
  ASSUME BookInv, NEW s \in Sides, NEW p \in DOMAIN level[s], NEW o \in Range(level[s][p].orders)
  PROVE  o \in OrderType /\ o.side = s /\ o.price = p /\ o.qty > 0
<1>1. Queue(level[s][p].orders, s, p) BY DEF BookInv, LevelsInv
<1> DEFINE q == level[s][p].orders
<1> HIDE DEF q
<1>2. Queue(q, s, p) /\ o \in Range(q) BY <1>1 DEF q
<1>3. q \in Seq(OrderType) /\ DOMAIN q = 1..Len(q) BY <1>2 DEF Queue
<1>4. PICK i \in 1..Len(q) : o = q[i] BY <1>2, <1>3 DEF Range
<1> QED BY <1>2, <1>3, <1>4 DEF Queue

\* The level that Fill trades with.
Opp   == Opposite(taker.side)
Front == level[Opp][best[Opp]]
Traded == TradeQty(Head(Front.orders))

\* There are two sides.
LEMMA OppositeIs ==
  /\ \A s \in Sides : Opposite(s) \in Sides /\ Opposite(s) # s
  /\ \A s, t \in Sides : t # s => t = Opposite(s)
BY DEF Sides, Opposite

\* What matchBuy and matchSell find at the best level when a trade is due.
LEMMA FillFacts ==
  ASSUME BookInv, CanTrade
  PROVE  /\ taker \in OrderType /\ taker # NoTaker /\ Opp \in Sides /\ Opp # taker.side
         /\ best[Opp] \in DOMAIN level[Opp]
         /\ \A x \in DOMAIN level[Opp] : ~Better(Opp, x, best[Opp])
         /\ Queue(Front.orders, Opp, best[Opp]) /\ Front.orders # <<>>
         /\ Front.volume = TotalOf(Front.orders)
         /\ Head(Front.orders) \in OrderType /\ Head(Front.orders) \in Range(Front.orders)
         /\ Traded \in Nat /\ Traded > 0
         /\ Traded <= Head(Front.orders).qty /\ Traded <= taker.qty
<1>1. taker \in OrderType /\ taker # NoTaker /\ taker.side \in Sides /\ taker.qty \in Nat
      /\ taker.qty > 0
  BY DEF BookInv, BookTypes, CanTrade, OrderType
<1>2. Opp \in Sides /\ Opp # taker.side BY <1>1, OppositeIs DEF Opp
<1>3. best[Opp] > 0 BY DEF CanTrade, Crosses, Opp
<1>4. best[Opp] \in DOMAIN level[Opp] /\ \A x \in DOMAIN level[Opp] : ~Better(Opp, x, best[Opp])
  BY <1>2, <1>3, SideFacts DEF BestOf
<1>5. /\ Queue(Front.orders, Opp, best[Opp]) /\ Front.orders # <<>>
      /\ Front.volume = TotalOf(Front.orders)
  BY <1>2, <1>4 DEF BookInv, LevelsInv, Front
<1> DEFINE q == Front.orders
<1> HIDE DEF q
<1>6. /\ q \in Seq(OrderType) /\ 1 \in 1..Len(q) /\ Head(q) = q[1] /\ q[1] \in OrderType
      /\ DOMAIN q = 1..Len(q)
  <2>1. q \in Seq(OrderType) /\ q # <<>> BY <1>5 DEF q, Queue
  <2> QED BY <2>1
<1>7. Head(q) \in Range(q) /\ Head(q).qty \in Nat /\ Head(q).qty > 0
  BY <1>5, <1>6 DEF Range, Queue, OrderType, q
<1>8. /\ Traded \in Nat /\ Traded > 0 /\ Traded <= Head(q).qty /\ Traded <= taker.qty
  BY <1>1, <1>7 DEF Traded, TradeQty, q
<1> QED BY <1>1, <1>2, <1>4, <1>5, <1>6, <1>7, <1>8 DEF q

\* What Fill does to the book: one level, and the best price if the level went.
LEMMA FillEffect ==
  ASSUME BookInv, Fill
  PROVE  LET s     == Opp
             p     == best[Opp]
             after == Filled(Front, Traded)
         IN /\ DOMAIN level' = Sides /\ heap' \in [Sides -> Seq(Nat)] /\ best' \in [Sides -> Nat]
            /\ \A t \in Sides : t # s => /\ level'[t] = level[t] /\ heap'[t] = heap[t]
                                         /\ best'[t] = best[t]
            /\ DOMAIN level'[s] \subseteq DOMAIN level[s]
            /\ \A x \in DOMAIN level[s] : x # p => x \in DOMAIN level'[s] /\ level'[s][x] = level[s][x]
            /\ p \in DOMAIN level'[s] <=> after.orders # <<>>
            /\ p \in DOMAIN level'[s] => level'[s][p] = after
            /\ HeapOf(s, heap'[s], DOMAIN level'[s])
            /\ best'[s] = Top(heap'[s])
<1> DEFINE s == Opp
           p == best[s]
           lvl == level[s][p]
           after == Filled(lvl, Traded)
<1>1. /\ s \in Sides /\ p \in DOMAIN level[s]
      /\ DOMAIN level = Sides /\ heap \in [Sides -> Seq(Nat)] /\ best \in [Sides -> Nat]
  BY FillFacts DEF Fill, BookInv, BookTypes
<1>2. HeapOf(s, heap[s], DOMAIN level[s]) /\ p = Top(heap[s])
      /\ DOMAIN level[s] \subseteq Nat
  BY <1>1, SideFacts
<1>3. IF after.orders = <<>> THEN DropLevel(s)
      ELSE level' = [level EXCEPT ![s][p] = after] /\ UNCHANGED <<heap, best>>
  BY DEF Fill, Opp, Front, Traded
<1> HIDE DEF s, p, lvl, after
<1>4. CASE after.orders # <<>>
  <2>1. level' = [level EXCEPT ![s][p] = after] /\ UNCHANGED <<heap, best>>
    BY <1>3, <1>4 DEF p
  <2>2. /\ DOMAIN level' = Sides /\ \A t \in Sides : t # s => level'[t] = level[t]
        /\ DOMAIN level'[s] = DOMAIN level[s] /\ level'[s][p] = after
        /\ \A x \in DOMAIN level[s] : x # p => level'[s][x] = level[s][x]
    BY <1>1, <2>1
  <2>3. HeapOf(s, heap'[s], DOMAIN level'[s]) BY <1>2, <2>1, <2>2
  <2>4. best'[s] = Top(heap'[s]) BY <1>2, <2>1 DEF p
  <2> QED BY <1>1, <1>4, <2>1, <2>2, <2>3, <2>4 DEF s, p, lvl, after, Front
<1>5. CASE after.orders = <<>>
  <2>1. DropLevel(s) BY <1>3, <1>5
  <2> DEFINE popped == HeapPop(s, heap[s])
  <2>2. /\ level' = [level EXCEPT ![s] = WithoutPrice(level[s], p)]
        /\ heap' = [heap EXCEPT ![s] = popped]
        /\ best' = [best EXCEPT ![s] = Top(heap'[s])]
    BY <1>1, <2>1 DEF DropLevel, p, Top
  <2>3. heap[s] # <<>> /\ p = heap[s][1] BY <1>1, <1>2, HeapIsEmpty DEF Top
  <2>4. HeapOf(s, popped, DOMAIN level[s] \ {p})
    BY <1>2, <2>3, PopKeepsHeap
  <2> HIDE DEF popped
  <2>5. popped \in Seq(Nat) BY <2>4 DEF HeapOf
  <2>6. /\ heap' \in [Sides -> Seq(Nat)] /\ heap'[s] = popped
        /\ \A t \in Sides : t # s => heap'[t] = heap[t]
    BY <1>1, <2>2, <2>5
  <2>7. /\ DOMAIN level' = Sides /\ \A t \in Sides : t # s => level'[t] = level[t]
        /\ level'[s] = WithoutPrice(level[s], p)
    BY <1>1, <2>2
  <2>8. /\ DOMAIN level'[s] = DOMAIN level[s] \ {p}
        /\ \A x \in DOMAIN level[s] : x # p => level'[s][x] = level[s][x]
    BY <2>7 DEF WithoutPrice
  <2>9. BestOf(s, Top(popped), DOMAIN level[s] \ {p}) BY <2>4, TopIsBestOf
  <2>10. Top(popped) \in Nat BY <1>2, <2>9 DEF BestOf
  <2>11. /\ best' \in [Sides -> Nat] /\ best'[s] = Top(heap'[s])
         /\ \A t \in Sides : t # s => best'[t] = best[t]
    BY <1>1, <2>2, <2>6, <2>10
  <2> QED BY <1>5, <2>4, <2>6, <2>7, <2>8, <2>11 DEF s, p, lvl, after, Front
<1> QED BY <1>4, <1>5

\* The front level after the trade.
LEMMA FrontFilled ==
  ASSUME BookInv, CanTrade
  PROVE  LET q == Front.orders
             r == Filled(Front, Traded).orders
         IN /\ Queue(r, Opp, best[Opp])
            /\ Filled(Front, Traded).volume = TotalOf(r)
            /\ Head(q) \in OrderType /\ Head(q).side = Opp /\ Head(q).price = best[Opp]
            /\ \A o \in Range(q) : o # Head(q) => o.id > Head(q).id
            /\ Head(q) \in Range(q)
            /\ Range(r) = (Range(q) \ {Head(q)})
                 \cup (IF Head(q).qty > Traded THEN {Reduced(Head(q), Traded)} ELSE {})
<1>1. Fillable(Front, Opp, best[Opp], Traded) BY FillFacts DEF Fillable
<1> QED BY <1>1, FilledQueue

\* What Fill does to the resting orders: the front of the level is traded.
LEMMA FillResting ==
  ASSUME BookInv, Fill
  PROVE  LET r == Head(Front.orders)
         IN Resting' = (Resting \ {r})
              \cup (IF r.qty > Traded THEN {Reduced(r, Traded)} ELSE {})
<1> DEFINE s == Opp
           p == best[Opp]
           q == Front.orders
           r == Head(q)
           f == Filled(Front, Traded).orders
           new == IF r.qty > Traded THEN {Reduced(r, Traded)} ELSE {}
           At(t, x) == Range(level[t][x].orders)
           Then(t, x) == Range(level'[t][x].orders)
<1>1. /\ s \in Sides /\ p \in DOMAIN level[s] /\ r \in Range(q) /\ r \in OrderType
      /\ r.side = s /\ r.price = p
      /\ Range(f) = (Range(q) \ {r}) \cup new
      /\ Queue(f, s, p)
  <2>1. /\ s \in Sides /\ p \in DOMAIN level[s] /\ r \in Range(q) /\ r \in OrderType
        /\ Queue(q, s, p) /\ q # <<>> /\ Front.volume = TotalOf(q)
        /\ Traded \in Nat /\ Traded > 0 /\ Traded <= r.qty
    BY FillFacts DEF Fill
  <2>2. /\ Head(q) \in OrderType /\ Head(q).side = s /\ Head(q).price = p
        /\ Queue(f, s, p)
        /\ Range(f) = (Range(q) \ {Head(q)})
             \cup (IF Head(q).qty > Traded THEN {Reduced(Head(q), Traded)} ELSE {})
    BY FrontFilled DEF Fill
  <2> QED BY <2>1, <2>2
<1>2. At(s, p) = Range(q) BY DEF Front
<1>3. \A t \in Sides : \A x \in DOMAIN level[t] : r \in At(t, x) => t = s /\ x = p
  BY <1>1, RestingFacts
<1>4. /\ \A t \in Sides : DOMAIN level'[t] \subseteq DOMAIN level[t]
      /\ \A t \in Sides : \A x \in DOMAIN level[t] : ~(t = s /\ x = p) =>
           x \in DOMAIN level'[t] /\ level'[t][x] = level[t][x]
      /\ p \in DOMAIN level'[s] <=> f # <<>>
      /\ p \in DOMAIN level'[s] => level'[s][p].orders = f
  BY FillEffect
<1>5. f = <<>> => Range(f) = {} BY DEF Range
<1>10. /\ \A t \in Sides : \A x \in DOMAIN level[t] : ~(t = s /\ x = p) => Then(t, x) = At(t, x)
       /\ p \in DOMAIN level'[s] => Then(s, p) = Range(f)
  BY <1>4
<1> HIDE DEF s, p, q, r, f, new
<1>6. \A o : o \in Resting <=> \E t \in Sides : \E x \in DOMAIN level[t] : o \in At(t, x)
  BY RestingIs
<1>7. \A o : o \in Resting' <=> \E t \in Sides : \E x \in DOMAIN level'[t] : o \in Then(t, x)
  BY DEF Resting
<1> HIDE DEF At, Then
<1>8. ASSUME NEW o \in Resting' PROVE o \in (Resting \ {r}) \cup new
  <2>1. PICK t, x : t \in Sides /\ x \in DOMAIN level'[t] /\ o \in Then(t, x) BY <1>7
  <2>2. t \in Sides /\ x \in DOMAIN level[t] BY <1>4, <2>1
  <2>3. CASE t = s /\ x = p
    <3>1. o \in Range(f) BY <1>10, <2>1, <2>3
    <3>2. o \in (At(t, x) \ {r}) \cup new BY <1>1, <1>2, <2>3, <3>1
    <3> QED BY <1>6, <2>2, <3>2
  <2>4. CASE ~(t = s /\ x = p)
    <3>1. o \in At(t, x) BY <1>10, <2>1, <2>2, <2>4
    <3>2. o # r BY <1>3, <2>2, <2>4, <3>1
    <3> QED BY <1>6, <2>2, <3>1, <3>2
  <2> QED BY <2>3, <2>4
<1>9. ASSUME NEW o \in (Resting \ {r}) \cup new PROVE o \in Resting'
  <2>1. CASE o \in new
    <3>1. o \in Range(f) /\ f # <<>> BY <1>1, <1>5, <2>1
    <3> QED BY <1>1, <1>4, <1>7, <1>10, <3>1
  <2>2. CASE o \in Resting /\ o # r
    <3>1. PICK t, x : t \in Sides /\ x \in DOMAIN level[t] /\ o \in At(t, x) BY <1>6, <2>2
    <3>2. CASE t = s /\ x = p
      <4>1. o \in Range(f) /\ f # <<>> BY <1>1, <1>2, <1>5, <2>2, <3>1, <3>2
      <4> QED BY <1>1, <1>4, <1>7, <1>10, <4>1
    <3>3. CASE ~(t = s /\ x = p) BY <1>4, <1>7, <1>10, <3>1, <3>3
    <3> QED BY <3>2, <3>3
  <2> QED BY <2>1, <2>2
<1> QED BY <1>8, <1>9 DEF r, q, new

\* Taking k from an order changes its quantity only.
LEMMA ReducedIs ==
  ASSUME NEW o \in OrderType, NEW k, k \in Nat, k <= o.qty
  PROVE  /\ Reduced(o, k) \in OrderType /\ Reduced(o, k).qty = o.qty - k
         /\ Reduced(o, k).id = o.id /\ Reduced(o, k).side = o.side
         /\ Reduced(o, k).price = o.price
<1>1. o \in [id : 1..MaxOrders, side : Sides, price : Prices, qty : Nat] BY DEF OrderType
<1>2. o.qty \in Nat /\ o.qty - k \in Nat BY <1>1
<1> QED BY <1>1, <1>2 DEF OrderType, Reduced

\* An order is not NoTaker; its fields are numbers.
LEMMA OrderFacts ==
  ASSUME NEW o \in OrderType
  PROVE  /\ o # NoTaker /\ o.id \in Nat /\ o.id \in 1..MaxOrders /\ o.qty \in Nat
         /\ o.side \in Sides /\ o.price \in Nat /\ o.price > 0 /\ o.price \in Prices
<1>1. /\ Prices \subseteq Nat \ {0} /\ MaxOrders \in Nat
      /\ NoTaker \notin [id : Nat, side : {"Buy", "Sell"}, price : Nat, qty : Nat]
  BY BookAssumption
<1>2. o \in [id : 1..MaxOrders, side : Sides, price : Prices, qty : Nat] BY DEF OrderType
<1>3. 1..MaxOrders \subseteq Nat BY <1>1
<1>4. o \in [id : Nat, side : {"Buy", "Sell"}, price : Nat, qty : Nat]
  BY <1>1, <1>2, <1>3 DEF Sides
<1>5. o.price \in Nat \ {0} BY <1>1, <1>2
<1> QED BY <1>1, <1>2, <1>3, <1>4, <1>5

\* A resting order is on some level.
LEMMA RestingOrder ==
  ASSUME BookInv, NEW o \in Resting
  PROVE  /\ o \in OrderType /\ o.qty > 0 /\ o.price \in DOMAIN level[o.side]
         /\ o \in Range(level[o.side][o.price].orders)
<1>1. PICK s, p : s \in Sides /\ p \in DOMAIN level[s] /\ o \in Range(level[s][p].orders)
  BY RestingIs
<1>2. o \in OrderType /\ o.side = s /\ o.price = p /\ o.qty > 0 BY <1>1, RestingFacts
<1> QED BY <1>1, <1>2

\* What Fill does to the taker and to the trades.
LEMMA FillOutcome ==
  ASSUME BookInv, Fill
  PROVE  LET trade == [price |-> best[Opp], qty |-> Traded]
         IN /\ taker' = Reduced(taker, Traded) /\ taker' \in OrderType
            /\ executed' = Append(executed, trade) /\ trade \in TradeType
            /\ tradeCh' = Published(trade)
            /\ isRestoring' = isRestoring /\ arrived' = arrived
<1>1. CanTrade BY DEF Fill
<1>2. /\ taker \in OrderType /\ Traded \in Nat /\ Traded <= taker.qty /\ Opp \in Sides
  BY <1>1, FillFacts
<1>3. best[Opp] \in Nat BY <1>2, SideFacts
<1>4. taker' = Reduced(taker, Traded)
  BY DEF Fill, Reduced, Opp, Front, Traded
<1>5. Reduced(taker, Traded) \in OrderType BY <1>2, ReducedIs
<1>6. /\ executed' = Append(executed, [price |-> best[Opp], qty |-> Traded])
      /\ tradeCh' = Published([price |-> best[Opp], qty |-> Traded])
      /\ isRestoring' = isRestoring /\ arrived' = arrived
  BY DEF Fill, Opp, Front, Traded
<1>7. [price |-> best[Opp], qty |-> Traded] \in TradeType BY <1>2, <1>3 DEF TradeType
<1> QED BY <1>4, <1>5, <1>6, <1>7

\* One turn of the matching loop keeps the book in order, also when it spends the
\* resting order and when it empties the level.
LEMMA FillKeepsInv ==
  ASSUME BookInv, Fill
  PROVE  BookInv'
<1> DEFINE s == Opp
           p == best[Opp]
           after == Filled(Front, Traded)
           trade == [price |-> p, qty |-> Traded]
<1>1. CanTrade BY DEF Fill
<1>2. /\ taker \in OrderType /\ s \in Sides /\ s # taker.side /\ p \in DOMAIN level[s]
      /\ \A x \in DOMAIN level[s] : ~Better(s, x, p)
      /\ Traded \in Nat /\ Traded <= taker.qty /\ Traded <= Head(Front.orders).qty
  BY <1>1, FillFacts
<1>3. /\ taker' = Reduced(taker, Traded) /\ taker' \in OrderType
      /\ executed' = Append(executed, trade) /\ trade \in TradeType
      /\ tradeCh' = Published(trade)
      /\ isRestoring' = isRestoring /\ arrived' = arrived
  BY FillOutcome
<1>4. /\ DOMAIN level' = Sides /\ heap' \in [Sides -> Seq(Nat)] /\ best' \in [Sides -> Nat]
      /\ \A t \in Sides : t # s => /\ level'[t] = level[t] /\ heap'[t] = heap[t]
                                   /\ best'[t] = best[t]
      /\ DOMAIN level'[s] \subseteq DOMAIN level[s]
      /\ \A x \in DOMAIN level[s] : x # p => x \in DOMAIN level'[s] /\ level'[s][x] = level[s][x]
      /\ p \in DOMAIN level'[s] => after.orders # <<>> /\ level'[s][p] = after
      /\ HeapOf(s, heap'[s], DOMAIN level'[s])
      /\ best'[s] = Top(heap'[s])
  BY FillEffect
<1>5. Queue(after.orders, s, p) /\ after.volume = TotalOf(after.orders)
  BY <1>1, FrontFilled
<1>6. /\ \A t \in Sides : DOMAIN level[t] \subseteq Prices
      /\ tradeCh \in Seq(TradeType) /\ executed \in Seq(TradeType) /\ Len(tradeCh) <= TradeRoom
      /\ isRestoring \in BOOLEAN /\ arrived \in 0..MaxOrders /\ TradeRoom \in Nat
  BY BookAssumption DEF BookInv, BookTypes
<1> HIDE DEF s, p, after, trade
<1>7. BookTypes'
  <2>1. \A t \in Sides : DOMAIN level'[t] \subseteq Prices BY <1>4, <1>6
  <2>2. /\ tradeCh' \in Seq(TradeType) /\ Len(tradeCh') <= TradeRoom
        /\ executed' \in Seq(TradeType)
    BY <1>3, <1>6 DEF Published
  <2> QED BY <1>3, <1>4, <1>6, <2>1, <2>2 DEF BookTypes
<1>8. HeapsInv'
  <2> SUFFICES ASSUME NEW t \in Sides
               PROVE  HeapOf(t, heap'[t], DOMAIN level'[t]) /\ best'[t] = Top(heap'[t])
    BY DEF HeapsInv, Top
  <2>1. HeapOf(t, heap[t], DOMAIN level[t]) /\ best[t] = Top(heap[t]) BY SideFacts
  <2>2. CASE t = s BY <1>4, <2>2
  <2>3. CASE t # s
    <3>1. level'[t] = level[t] /\ heap'[t] = heap[t] /\ best'[t] = best[t] BY <1>4, <2>3
    <3> QED BY <2>1, <3>1
  <2> QED BY <2>2, <2>3
<1>9. LevelsInv'
  <2> SUFFICES ASSUME NEW t \in Sides, NEW x \in DOMAIN level'[t]
               PROVE  /\ Queue(level'[t][x].orders, t, x) /\ level'[t][x].orders # <<>>
                      /\ level'[t][x].volume = TotalOf(level'[t][x].orders)
    BY DEF LevelsInv
  <2>1. CASE t = s /\ x = p BY <1>4, <1>5, <2>1
  <2>2. CASE ~(t = s /\ x = p)
    <3>1. x \in DOMAIN level[t] /\ level'[t][x] = level[t][x] BY <1>4, <2>2
    <3> QED BY <3>1 DEF BookInv, LevelsInv
  <2> QED BY <2>1, <2>2
<1>10. AgeInv'
  <2> DEFINE r == Head(Front.orders)
  <2>1. Resting' = (Resting \ {r}) \cup (IF r.qty > Traded THEN {Reduced(r, Traded)} ELSE {})
    BY FillResting
  <2>2. r \in OrderType /\ r \in Range(Front.orders) /\ taker # NoTaker BY <1>1, FillFacts
  <2>3. r \in Resting BY <1>2, <2>2, RestingIs DEF Front, s, p
  <2>4. Reduced(r, Traded).id = r.id /\ taker'.id = taker.id BY <1>2, <1>3, <2>2, ReducedIs
  <2> HIDE DEF r
  <2>5. taker.id = arrived /\ \A o \in Resting : o.id <= arrived /\ o.id < arrived
    BY <2>2 DEF BookInv, AgeInv
  <2>6. \A o \in Resting' : o.id <= arrived /\ o.id < arrived BY <2>1, <2>3, <2>4, <2>5
  <2> QED BY <1>3, <2>4, <2>5, <2>6 DEF AgeInv
<1>11. Uncrossed'
  <2>1. BestOf(s, best'[s], DOMAIN level'[s]) BY <1>4, TopIsBestOf
  <2>2. best'[s] = 0 \/ (best'[s] \in DOMAIN level[s] /\ ~Better(s, best'[s], p))
    BY <1>2, <1>4, <2>1 DEF BestOf
  <2>3. p = best[s] /\ p > 0 /\ p \in Nat BY <1>1, <1>2, SideFacts DEF p, s, CanTrade, Crosses, Opp
  <2>4. best'[s] \in Nat /\ best[taker.side] \in Nat BY <1>2, <1>4, SideFacts, OrderFacts
  <2>5. best'[taker.side] = best[taker.side] BY <1>2, <1>4, OrderFacts
  <2>6. Uncrossed BY DEF BookInv
  <2>7. CASE s = "Sell"
    <3>1. taker.side = "Buy" BY <1>2, <2>7, OrderFacts DEF Sides
    <3> QED BY <2>2, <2>3, <2>4, <2>5, <2>6, <2>7, <3>1 DEF Uncrossed, Better
  <2>8. CASE s = "Buy"
    <3>1. taker.side = "Sell" BY <1>2, <2>8, OrderFacts DEF Sides
    <3> QED BY <2>2, <2>3, <2>4, <2>5, <2>6, <2>8, <3>1 DEF Uncrossed, Better
  <2> QED BY <1>2, <2>7, <2>8 DEF Sides
<1> QED BY <1>7, <1>8, <1>9, <1>10, <1>11 DEF BookInv

-----------------------------------------------------------------------------

\* An order that cannot trade meets no resting order of the other side.
LEMMA NoneMatches ==
  ASSUME BookInv, taker # NoTaker, ~CanTrade, taker.qty > 0
  PROVE  /\ taker \in OrderType /\ ~Crosses
         /\ \A x \in DOMAIN level[Opp] :
              x # taker.price /\ ~Better(taker.side, taker.price, x)
<1>1. taker \in OrderType /\ ~Crosses BY DEF BookInv, BookTypes, CanTrade
<1>2. taker.side \in Sides /\ taker.price \in Nat /\ Opp \in Sides /\ Opp # taker.side
  BY <1>1, OrderFacts, OppositeIs DEF Opp
<1> SUFFICES ASSUME NEW x \in DOMAIN level[Opp]
             PROVE  x # taker.price /\ ~Better(taker.side, taker.price, x)
  BY <1>1
<1>3. x \in Nat /\ best[Opp] \in Nat /\ best[Opp] > 0 /\ ~Better(Opp, x, best[Opp])
  BY <1>2, SideFacts DEF BestOf
<1>4. taker.price # best[Opp] /\ ~Better(taker.side, taker.price, best[Opp])
  BY <1>1, <1>3 DEF Crosses, Opp
<1>5. (Opp = "Sell" /\ taker.side = "Buy") \/ (Opp = "Buy" /\ taker.side = "Sell")
  BY <1>2 DEF Sides
<1> QED BY <1>2, <1>3, <1>4, <1>5 DEF Better

\* What AddOrder does to the book: one level, which may be new.
LEMMA AddEffect ==
  ASSUME BookInv, taker # NoTaker, AddOrder(taker)
  PROVE  LET s == taker.side
             p == taker.price
         IN /\ DOMAIN level' = Sides /\ heap' \in [Sides -> Seq(Nat)] /\ best' \in [Sides -> Nat]
            /\ \A t \in Sides : t # s => /\ level'[t] = level[t] /\ heap'[t] = heap[t]
                                         /\ best'[t] = best[t]
            /\ DOMAIN level'[s] = DOMAIN level[s] \cup {p}
            /\ \A x \in DOMAIN level[s] : x # p => level'[s][x] = level[s][x]
            /\ level'[s][p].orders =
                 Append(IF p \in DOMAIN level[s] THEN level[s][p].orders ELSE <<>>, taker)
            /\ level'[s][p].volume =
                 (IF p \in DOMAIN level[s] THEN level[s][p].volume ELSE 0) + taker.qty
            /\ HeapOf(s, heap'[s], DOMAIN level'[s])
            /\ best'[s] = Top(heap'[s])
            /\ best'[s] = p \/ best'[s] = best[s]
<1> DEFINE s == taker.side
           p == taker.price
           X == DOMAIN level[s]
           known == p \in X
           old == IF known THEN level[s][p] ELSE [orders |-> <<>>, volume |-> 0]
           new == [orders |-> Append(old.orders, taker), volume |-> old.volume + taker.qty]
           h == IF known THEN heap[s] ELSE HeapPush(s, heap[s], p)
           b == IF Better(s, p, best[s]) \/ best[s] = 0 THEN p ELSE best[s]
<1>1. /\ DOMAIN level = Sides /\ heap \in [Sides -> Seq(Nat)] /\ best \in [Sides -> Nat]
      /\ taker \in OrderType
  BY DEF BookInv, BookTypes
<1>2. s \in Sides /\ p \in Nat /\ p > 0 BY <1>1, OrderFacts
<1>3. /\ HeapOf(s, heap[s], X) /\ best[s] = Top(heap[s]) /\ BestOf(s, best[s], X)
      /\ X \subseteq Nat \ {0} /\ best[s] \in Nat
  BY <1>2, SideFacts
<1>4. /\ level' = [level EXCEPT ![s] = WithLevel(level[s], p, new)]
      /\ heap' = [heap EXCEPT ![s] = h]
      /\ best' = [best EXCEPT ![s] = b]
  BY <1>1, <1>2 DEF AddOrder, UpdateBestPrices
<1>5. HeapOf(s, h, X \cup {p})
  <2>1. CASE known
    <3>1. X \cup {p} = X BY <2>1
    <3> QED BY <1>3, <2>1, <3>1
  <2>2. CASE ~known BY <1>2, <1>3, <2>2, PushKeepsHeap
  <2> QED BY <2>1, <2>2
<1>6. BestOf(s, b, X \cup {p})
  <2>1. CASE X = {}
    <3>1. b = p BY <1>3, <2>1 DEF BestOf
    <3> QED BY <1>2, <2>1, <3>1 DEF BestOf, Better
  <2>2. CASE X # {}
    <3>1. best[s] \in X /\ best[s] # 0 /\ \A x \in X : x \in Nat /\ ~Better(s, x, best[s])
      BY <1>3, <2>2 DEF BestOf
    <3>2. b = IF Better(s, p, best[s]) THEN p ELSE best[s] BY <3>1
    <3> HIDE DEF b, s, p, X
    <3>3. b \in X \cup {p} BY <3>1, <3>2
    <3>4. \A x \in X \cup {p} : ~Better(s, x, b)
      BY <1>2, <1>3, <3>1, <3>2 DEF Better
    <3> QED BY <3>3, <3>4 DEF BestOf
  <2> QED BY <2>1, <2>2
<1> HIDE DEF s, p, X, new, h, b
<1>7. b = Top(h)
  <2>1. X \cup {p} \in SUBSET Nat BY <1>2, <1>3
  <2>2. BestOf(s, Top(h), X \cup {p}) BY <1>5, TopIsBestOf
  <2> QED BY <1>6, <2>1, <2>2, BestIsUnique
<1>8. h \in Seq(Nat) /\ b \in Nat /\ (b = p \/ b = best[s])
  <2>1. h \in Seq(Nat) BY <1>5 DEF HeapOf
  <2>2. b = p \/ b = best[s] BY DEF b
  <2> QED BY <1>2, <1>3, <2>1, <2>2
<1>9. /\ DOMAIN level' = Sides /\ heap' \in [Sides -> Seq(Nat)] /\ best' \in [Sides -> Nat]
      /\ \A t \in Sides : t # s => level'[t] = level[t] /\ heap'[t] = heap[t] /\ best'[t] = best[t]
      /\ level'[s] = WithLevel(level[s], p, new) /\ heap'[s] = h /\ best'[s] = b
  BY <1>1, <1>2, <1>4, <1>8
<1>10. /\ DOMAIN level'[s] = X \cup {p} /\ level'[s][p] = new
       /\ \A x \in X : x # p => level'[s][x] = level[s][x]
  BY <1>9 DEF WithLevel, X
<1>11. /\ new.orders = Append(IF p \in X THEN level[s][p].orders ELSE <<>>, taker)
       /\ new.volume = (IF p \in X THEN level[s][p].volume ELSE 0) + taker.qty
  BY DEF new
<1> QED BY <1>5, <1>7, <1>8, <1>9, <1>10, <1>11 DEF s, p, X

\* The queue the taker joined.
LEMMA AddedLevel ==
  ASSUME BookInv, taker # NoTaker, taker.qty > 0, AddOrder(taker)
  PROVE  LET s == taker.side
             p == taker.price
             lvl == level'[s][p]
         IN /\ Queue(lvl.orders, s, p) /\ lvl.orders # <<>>
            /\ lvl.volume = TotalOf(lvl.orders)
            /\ Range(lvl.orders) =
                 (IF p \in DOMAIN level[s] THEN Range(level[s][p].orders) ELSE {}) \cup {taker}
<1> DEFINE s == taker.side
           p == taker.price
           q == IF p \in DOMAIN level[s] THEN level[s][p].orders ELSE <<>>
           v == IF p \in DOMAIN level[s] THEN level[s][p].volume ELSE 0
           R == IF p \in DOMAIN level[s] THEN Range(level[s][p].orders) ELSE {}
           lvl == level'[s][p]
<1>1. lvl.orders = Append(q, taker) /\ lvl.volume = v + taker.qty BY AddEffect
<1>2. taker \in OrderType /\ s \in Sides
  <2>1. taker \in OrderType BY DEF BookInv, BookTypes
  <2> QED BY <2>1, OrderFacts
<1>3. Queue(q, s, p) /\ v = TotalOf(q) /\ R = Range(q) /\ \A x \in R : x.id < taker.id
  <2>1. CASE p \in DOMAIN level[s]
    <3>1. Queue(q, s, p) /\ v = TotalOf(q) /\ R = Range(q)
      BY <1>2, <2>1 DEF BookInv, LevelsInv
    <3>2. \A x \in R : x \in Resting BY <1>2, <2>1, RestingIs
    <3>3. \A x \in Resting : x.id < taker.id BY DEF BookInv, AgeInv
    <3> QED BY <3>1, <3>2, <3>3
  <2>2. CASE p \notin DOMAIN level[s]
    <3>1. q = <<>> /\ v = 0 /\ R = {} BY <2>2
    <3>2. <<>> \in Seq(OrderType) /\ 1..Len(<<>>) = {} OBVIOUS
    <3>3. Queue(<<>>, s, p) BY <3>2 DEF Queue
    <3>4. Range(<<>>) = {} BY DEF Range
    <3> QED BY <3>1, <3>3, <3>4, TotalEmpty
  <2> QED BY <2>1, <2>2
<1> HIDE DEF q, v, R, lvl
<1>4. /\ Queue(Append(q, taker), s, p) /\ Append(q, taker) # <<>>
      /\ TotalOf(Append(q, taker)) = TotalOf(q) + taker.qty
      /\ Range(Append(q, taker)) = Range(q) \cup {taker}
  BY <1>2, <1>3, JoinedQueue
<1>5. /\ Queue(lvl.orders, s, p) /\ lvl.orders # <<>> /\ lvl.volume = TotalOf(lvl.orders)
      /\ Range(lvl.orders) = R \cup {taker}
  BY <1>1, <1>3, <1>4
<1> QED BY <1>5 DEF R, lvl

\* What AddOrder does to the resting orders: the taker is one of them.
LEMMA AddResting ==
  ASSUME BookInv, taker # NoTaker, taker.qty > 0, AddOrder(taker)
  PROVE  Resting' = Resting \cup {taker}
<1> DEFINE s == taker.side
           p == taker.price
           At(t, x) == Range(level[t][x].orders)
           Then(t, x) == Range(level'[t][x].orders)
<1>1. s \in Sides
  <2>1. taker \in OrderType BY DEF BookInv, BookTypes
  <2> QED BY <2>1, OrderFacts
<1>2. Then(s, p) = (IF p \in DOMAIN level[s] THEN At(s, p) ELSE {}) \cup {taker}
  BY AddedLevel
<1>3. /\ \A t \in Sides : t # s => level'[t] = level[t]
      /\ DOMAIN level'[s] = DOMAIN level[s] \cup {p}
      /\ \A x \in DOMAIN level[s] : x # p => level'[s][x] = level[s][x]
  BY AddEffect
<1>4. \A t \in Sides : \A x : ~(t = s /\ x = p) =>
        /\ x \in DOMAIN level'[t] <=> x \in DOMAIN level[t]
        /\ x \in DOMAIN level[t] => Then(t, x) = At(t, x)
  <2> SUFFICES ASSUME NEW t \in Sides, NEW x, ~(t = s /\ x = p)
               PROVE  /\ x \in DOMAIN level'[t] <=> x \in DOMAIN level[t]
                      /\ x \in DOMAIN level[t] => Then(t, x) = At(t, x)
    OBVIOUS
  <2>1. CASE t = s
    <3>1. x # p BY <2>1
    <3> HIDE DEF s, p
    <3> QED BY <1>3, <2>1, <3>1
  <2>2. CASE t # s BY <1>3, <2>2
  <2> QED BY <2>1, <2>2
<1>5. \A o : o \in Resting <=> \E t \in Sides : \E x \in DOMAIN level[t] : o \in At(t, x)
  BY RestingIs
<1>6. \A o : o \in Resting' <=> \E t \in Sides : \E x \in DOMAIN level'[t] : o \in Then(t, x)
  BY DEF Resting
<1>7. p \in DOMAIN level'[s] BY <1>3
<1> HIDE DEF s, p, At, Then
<1>8. ASSUME NEW o \in Resting' PROVE o \in Resting \cup {taker}
  <2>1. PICK t, x : t \in Sides /\ x \in DOMAIN level'[t] /\ o \in Then(t, x) BY <1>6
  <2>2. CASE t = s /\ x = p BY <1>1, <1>2, <1>5, <2>1, <2>2
  <2>3. CASE ~(t = s /\ x = p) BY <1>4, <1>5, <2>1, <2>3
  <2> QED BY <2>2, <2>3
<1>9. ASSUME NEW o \in Resting \cup {taker} PROVE o \in Resting'
  <2>1. CASE o = taker BY <1>1, <1>2, <1>6, <1>7, <2>1
  <2>2. CASE o \in Resting
    <3>1. PICK t, x : t \in Sides /\ x \in DOMAIN level[t] /\ o \in At(t, x) BY <1>5, <2>2
    <3>2. CASE t = s /\ x = p
      <4>1. o \in Then(s, p) BY <1>2, <3>1, <3>2
      <4> QED BY <1>1, <1>6, <1>7, <4>1
    <3>3. CASE ~(t = s /\ x = p) BY <1>4, <1>6, <3>1, <3>3
    <3> QED BY <3>2, <3>3
  <2> QED BY <2>1, <2>2
<1> QED BY <1>8, <1>9

\* addOrder keeps the book in order, on an old level and on a new one.
LEMMA AddKeepsInv ==
  ASSUME BookInv, Leave, taker.qty > 0
  PROVE  BookInv'
<1> DEFINE s == taker.side
           p == taker.price
<1>1. /\ taker # NoTaker /\ ~CanTrade /\ AddOrder(taker) /\ taker' = NoTaker
      /\ isRestoring' = isRestoring /\ tradeCh' = tradeCh /\ arrived' = arrived
      /\ executed' = executed
  BY DEF Leave
<1>2. taker \in OrderType /\ s \in Sides /\ p \in Prices /\ p \in Nat /\ p > 0
  <2>1. taker \in OrderType BY <1>1 DEF BookInv, BookTypes
  <2> QED BY <2>1, OrderFacts
<1>3. /\ DOMAIN level' = Sides /\ heap' \in [Sides -> Seq(Nat)] /\ best' \in [Sides -> Nat]
      /\ \A t \in Sides : t # s => /\ level'[t] = level[t] /\ heap'[t] = heap[t]
                                   /\ best'[t] = best[t]
      /\ DOMAIN level'[s] = DOMAIN level[s] \cup {p}
      /\ \A x \in DOMAIN level[s] : x # p => level'[s][x] = level[s][x]
      /\ HeapOf(s, heap'[s], DOMAIN level'[s])
      /\ best'[s] = Top(heap'[s])
      /\ best'[s] = p \/ best'[s] = best[s]
  BY <1>1, AddEffect
<1>4. /\ Queue(level'[s][p].orders, s, p) /\ level'[s][p].orders # <<>>
      /\ level'[s][p].volume = TotalOf(level'[s][p].orders)
  BY <1>1, AddedLevel
<1>5. /\ DOMAIN level = Sides /\ \A t \in Sides : DOMAIN level[t] \subseteq Prices
  BY DEF BookInv, BookTypes
<1>6. /\ tradeCh \in Seq(TradeType) /\ executed \in Seq(TradeType) /\ Len(tradeCh) <= TradeRoom
      /\ isRestoring \in BOOLEAN /\ arrived \in 0..MaxOrders
  BY DEF BookInv, BookTypes
<1>7. Opp \in Sides /\ Opp # s BY <1>2, OppositeIs DEF Opp
<1>8. best[Opp] > 0 => best[Opp] \in DOMAIN level[Opp] BY <1>7, SideFacts DEF BestOf
<1>9. \A x \in DOMAIN level[Opp] : x # p /\ ~Better(s, p, x) BY <1>1, NoneMatches
<1>10. best[s] \in Nat /\ best[Opp] \in Nat BY <1>2, <1>7, SideFacts
<1> HIDE DEF s, p
<1>11. BookTypes'
  <2>1. \A t \in Sides : DOMAIN level'[t] \subseteq Prices BY <1>2, <1>3, <1>5
  <2> QED BY <1>1, <1>3, <1>6, <2>1 DEF BookTypes
<1>12. HeapsInv'
  <2> SUFFICES ASSUME NEW t \in Sides
               PROVE  HeapOf(t, heap'[t], DOMAIN level'[t]) /\ best'[t] = Top(heap'[t])
    BY DEF HeapsInv, Top
  <2>1. HeapOf(t, heap[t], DOMAIN level[t]) /\ best[t] = Top(heap[t]) BY SideFacts
  <2>2. CASE t = s BY <1>3, <2>2
  <2>3. CASE t # s
    <3>1. level'[t] = level[t] /\ heap'[t] = heap[t] /\ best'[t] = best[t] BY <1>3, <2>3
    <3> QED BY <2>1, <3>1
  <2> QED BY <2>2, <2>3
<1>13. LevelsInv'
  <2> SUFFICES ASSUME NEW t \in Sides, NEW x \in DOMAIN level'[t]
               PROVE  /\ Queue(level'[t][x].orders, t, x) /\ level'[t][x].orders # <<>>
                      /\ level'[t][x].volume = TotalOf(level'[t][x].orders)
    BY DEF LevelsInv
  <2>1. CASE t = s /\ x = p BY <1>4, <2>1
  <2>2. CASE ~(t = s /\ x = p)
    <3>1. x \in DOMAIN level[t] /\ level'[t][x] = level[t][x] BY <1>3, <2>2
    <3> QED BY <3>1 DEF BookInv, LevelsInv
  <2> QED BY <2>1, <2>2
<1>14. AgeInv'
  <2>1. Resting' = Resting \cup {taker} BY <1>1, AddResting
  <2>2. taker.id = arrived /\ \A o \in Resting : o.id <= arrived
    BY <1>1 DEF BookInv, AgeInv
  <2>3. arrived <= arrived
    <3>1. arrived \in Nat BY <1>6, BookAssumption
    <3> QED BY <3>1
  <2>4. \A o \in Resting' : o.id <= arrived BY <2>1, <2>2, <2>3
  <2> QED BY <1>1, <2>4 DEF AgeInv
<1>15. Uncrossed'
  <2>1. best'[Opp] = best[Opp] BY <1>3, <1>7
  <2>2. Uncrossed BY DEF BookInv
  <2>3. best[Opp] > 0 => best[Opp] # p /\ ~Better(s, p, best[Opp]) BY <1>8, <1>9
  <2>4. (Opp = "Sell" /\ s = "Buy") \/ (Opp = "Buy" /\ s = "Sell") BY <1>2, <1>7 DEF Sides
  <2>5. best'[s] = p \/ best'[s] = best[s] BY <1>3
  <2>6. CASE Opp = "Sell" /\ s = "Buy"
    BY <1>2, <1>10, <2>1, <2>2, <2>3, <2>5, <2>6 DEF Uncrossed, Better
  <2>7. CASE Opp = "Buy" /\ s = "Sell"
    BY <1>2, <1>10, <2>1, <2>2, <2>3, <2>5, <2>7 DEF Uncrossed, Better
  <2> QED BY <2>4, <2>6, <2>7
<1> QED BY <1>11, <1>12, <1>13, <1>14, <1>15 DEF BookInv

\* Steps that leave the book alone.
LEMMA BookStays ==
  ASSUME BookInv, UNCHANGED bookState, BookTypes', AgeInv'
  PROVE  BookInv'
BY DEF BookInv, bookState, HeapsInv, LevelsInv, Uncrossed

\* An arriving order has an id above those of all resting orders.
LEMMA ArriveKeepsInv ==
  ASSUME BookInv, Arrive
  PROVE  BookInv'
<1>1. PICK s \in Sides, p \in Prices, q \in Quantities :
        taker' = [id |-> arrived + 1, side |-> s, price |-> p, qty |-> q]
  BY DEF Arrive
<1>2. /\ taker = NoTaker /\ arrived < MaxOrders /\ arrived' = arrived + 1
      /\ UNCHANGED bookState /\ UNCHANGED <<isRestoring, tradeCh, executed>>
  BY DEF Arrive
<1>3. BookTypes /\ AgeInv /\ MaxOrders \in Nat /\ Quantities \subseteq Nat \ {0}
  BY BookAssumption DEF BookInv
<1>4. arrived \in 0..MaxOrders /\ arrived \in Nat /\ arrived + 1 \in 1..MaxOrders
      /\ arrived + 1 \in 0..MaxOrders
  BY <1>2, <1>3 DEF BookTypes
<1>5. taker' \in OrderType /\ taker'.id = arrived' BY <1>1, <1>2, <1>3, <1>4 DEF OrderType
<1>6. BookTypes' BY <1>2, <1>3, <1>4, <1>5 DEF BookTypes, bookState
<1>7. Resting' = Resting BY <1>2 DEF Resting, bookState
<1>8. \A o \in Resting : o.id \in Nat BY RestingOrder, OrderFacts
<1>9. \A o \in Resting : o.id <= arrived + 1 /\ o.id < arrived + 1
  BY <1>3, <1>4, <1>8 DEF AgeInv
<1>10. AgeInv' BY <1>2, <1>5, <1>7, <1>9 DEF AgeInv
<1> QED BY <1>2, <1>6, <1>10, BookStays

\* The empty book is in order.
LEMMA InitHasInv == ASSUME Init PROVE BookInv
<1>1. /\ level = [s \in Sides |-> <<>>] /\ heap = [s \in Sides |-> <<>>]
      /\ best = [s \in Sides |-> 0] /\ taker = NoTaker /\ isRestoring = TRUE
      /\ tradeCh = <<>> /\ arrived = 0 /\ executed = <<>>
  BY DEF Init
<1>2. DOMAIN <<>> = {} /\ Len(<<>>) = 0 OBVIOUS
<1>3. /\ DOMAIN level = Sides
      /\ \A s \in Sides : /\ level[s] = <<>> /\ DOMAIN level[s] = {}
                          /\ heap[s] = <<>> /\ best[s] = 0
  BY <1>1, <1>2
<1>4. MaxOrders \in Nat /\ TradeRoom \in Nat BY BookAssumption
<1>5. BookTypes BY <1>1, <1>2, <1>3, <1>4 DEF BookTypes
<1>6. HeapsInv BY <1>3, EmptyHeap DEF HeapsInv
<1>7. LevelsInv BY <1>3 DEF LevelsInv
<1>8. AgeInv
  <2>1. Resting = {} BY <1>3 DEF Resting
  <2> QED BY <1>1, <2>1 DEF AgeInv
<1>9. Uncrossed BY <1>1 DEF Uncrossed, Sides
<1> QED BY <1>5, <1>6, <1>7, <1>8, <1>9 DEF BookInv

\* Every step of the engine keeps the book in order.
LEMMA NextKeepsInv == ASSUME BookInv, [Next]_vars PROVE BookInv'
<1>1. CASE EndRestore
  <2>1. /\ UNCHANGED bookState /\ UNCHANGED <<taker, tradeCh, arrived, executed>>
        /\ isRestoring' \in BOOLEAN
    BY <1>1 DEF EndRestore
  <2>2. BookTypes' BY <2>1 DEF BookInv, BookTypes, bookState
  <2>3. AgeInv' BY <2>1 DEF BookInv, AgeInv, Resting, bookState
  <2> QED BY <2>1, <2>2, <2>3, BookStays
<1>2. CASE Arrive BY <1>2, ArriveKeepsInv
<1>3. CASE Fill BY <1>3, FillKeepsInv
<1>4. CASE Leave
  <2>1. CASE taker.qty > 0 BY <1>4, <2>1, AddKeepsInv
  <2>2. CASE ~(taker.qty > 0)
    <3>1. /\ UNCHANGED bookState /\ taker' = NoTaker /\ taker # NoTaker
          /\ UNCHANGED <<isRestoring, tradeCh, arrived, executed>>
      BY <1>4, <2>2 DEF Leave
    <3>2. BookTypes' BY <3>1 DEF BookInv, BookTypes, bookState
    <3>3. AgeInv' BY <3>1 DEF BookInv, AgeInv, Resting, bookState
    <3> QED BY <3>1, <3>2, <3>3, BookStays
  <2> QED BY <2>1, <2>2
<1>5. CASE TakeTrade
  <2>1. /\ UNCHANGED bookState /\ UNCHANGED <<taker, isRestoring, arrived, executed>>
        /\ tradeCh # <<>> /\ tradeCh' = Tail(tradeCh)
    BY <1>5 DEF TakeTrade
  <2>2. tradeCh' \in Seq(TradeType) /\ Len(tradeCh') <= TradeRoom
    <3>1. tradeCh \in Seq(TradeType) /\ Len(tradeCh) <= TradeRoom /\ TradeRoom \in Nat
      BY BookAssumption DEF BookInv, BookTypes
    <3>2. tradeCh' \in Seq(TradeType) /\ Len(tradeCh') = Len(tradeCh) - 1
      BY <2>1, <3>1, HeadTailProperties
    <3> QED BY <3>1, <3>2
  <2>3. BookTypes' BY <2>1, <2>2 DEF BookInv, BookTypes, bookState
  <2>4. AgeInv' BY <2>1 DEF BookInv, AgeInv, Resting, bookState
  <2> QED BY <2>1, <2>3, <2>4, BookStays
<1>6. CASE UNCHANGED vars
  <2>1. UNCHANGED bookState /\ UNCHANGED <<taker, isRestoring, tradeCh, arrived, executed>>
    BY <1>6 DEF vars
  <2>2. BookTypes' BY <2>1 DEF BookInv, BookTypes, bookState
  <2>3. AgeInv' BY <2>1 DEF BookInv, AgeInv, Resting, bookState
  <2> QED BY <2>1, <2>2, <2>3, BookStays
<1> QED BY <1>1, <1>2, <1>3, <1>4, <1>5, <1>6 DEF Next

\* The parts of the book agree at every step of a match, not only between orders: the
\* inductive invariant (OrderBook.matchBuy, matchSell, addOrder, updateBestPrices).
THEOREM BookInvariant == Spec => []BookInv
<1>1. Init => BookInv BY InitHasInv
<1>2. BookInv /\ [Next]_vars => BookInv' BY NextKeepsInv
<1> QED BY <1>1, <1>2, PTL DEF Spec

\* The invariant is stronger than what a reader of the book relies on.
LEMMA InvImpliesConsistent == ASSUME BookInv PROVE BookConsistent
<1>1. ASSUME NEW s \in Sides, NEW p \in DOMAIN level[s]
      PROVE  LET lvl == level[s][p]
             IN /\ lvl.orders # <<>>
                /\ Range(lvl.orders) \subseteq OrderType /\ lvl.volume \in Nat
                /\ \A i \in DOMAIN lvl.orders : lvl.orders[i].qty > 0
                /\ \A i, j \in DOMAIN lvl.orders : i < j => lvl.orders[i].id < lvl.orders[j].id
                /\ lvl.volume = TotalOf(lvl.orders)
  <2> DEFINE q == level[s][p].orders
  <2>1. Queue(q, s, p) /\ q # <<>> /\ level[s][p].volume = TotalOf(q)
    BY DEF BookInv, LevelsInv
  <2> HIDE DEF q
  <2>2. q \in Seq(OrderType) /\ DOMAIN q = 1..Len(q) BY <2>1 DEF Queue
  <2>3. Range(q) \subseteq OrderType BY <2>2 DEF Range
  <2>4. TotalOf(q) \in Nat BY <2>2, TotalType
  <2>5. /\ \A i \in DOMAIN q : q[i].qty > 0
        /\ \A i, j \in DOMAIN q : i < j => q[i].id < q[j].id
    BY <2>1, <2>2 DEF Queue
  <2> QED BY <2>1, <2>3, <2>4, <2>5 DEF q
<1>2. ASSUME NEW s \in Sides
      PROVE  /\ Len(heap[s]) = Cardinality(DOMAIN level[s]) /\ Range(heap[s]) = DOMAIN level[s]
             /\ heap[s] \in Seq(Prices) /\ best[s] \in Prices \cup {0}
  <2>1. /\ HeapOf(s, heap[s], DOMAIN level[s]) /\ DOMAIN level[s] \subseteq Prices
        /\ BestOf(s, best[s], DOMAIN level[s])
    BY SideFacts
  <2> QED BY <2>1, HeapCounts DEF BestOf
<1>3. heap \in [Sides -> Seq(Prices)] /\ best \in [Sides -> Prices \cup {0}]
  <2>1. heap \in [Sides -> Seq(Nat)] /\ best \in [Sides -> Nat] BY DEF BookInv, BookTypes
  <2> QED BY <1>2, <2>1
<1>4. TypeOK BY <1>1, <1>3 DEF BookInv, BookTypes, TypeOK
<1>5. \A s \in Sides : best[s] = IF heap[s] = <<>> THEN 0 ELSE heap[s][1]
  BY DEF BookInv, HeapsInv
<1>6. Uncrossed BY DEF BookInv
<1> QED BY <1>1, <1>2, <1>4, <1>5, <1>6 DEF BookConsistent, Uncrossed

\* Map, heap, cached best price and cached volume of a side always agree, every queue
\* is in order of arrival, and between orders the book does not cross.
THEOREM BookIsConsistent == Spec => []BookConsistent
<1>1. BookInv => BookConsistent BY InvImpliesConsistent
<1> QED BY <1>1, BookInvariant, PTL

\* TradeCh grows by a trade only in the step that executes it, never during the replay; a
\* live trade is missing from it only when it is full; and the workers take its oldest: what
\* they receive is live trades in order, none twice (orderbook.go 171-185, sqs.go 67).
THEOREM TradesArePublishedOnce == Spec => TradesPublishedOnce
<1> DEFINE executes == /\ executed' # <<>>
                       /\ executed' = Append(executed, executed'[Len(executed')])
           publishes == tradeCh' = Append(tradeCh, executed'[Len(executed')])
           full == Len(tradeCh) = TradeRoom
           Once == \/ executes /\ ~isRestoring /\ publishes
                   \/ executes /\ (isRestoring \/ full) /\ UNCHANGED tradeCh
                   \/ UNCHANGED <<executed, tradeCh>>
                   \/ UNCHANGED executed /\ tradeCh # <<>> /\ tradeCh' = Tail(tradeCh)
<1>1. ASSUME BookInv, Next PROVE Once
  <2>1. CASE Fill
    <3> DEFINE trade == [price |-> best[Opp], qty |-> Traded]
    <3>1. executed' = Append(executed, trade) /\ trade \in TradeType /\ tradeCh' = Published(trade)
      BY <1>1, <2>1, FillOutcome
    <3>2. /\ tradeCh \in Seq(TradeType) /\ executed \in Seq(TradeType)
          /\ Len(tradeCh) \in Nat /\ Len(tradeCh) <= TradeRoom /\ TradeRoom \in Nat
      BY <1>1, BookAssumption DEF BookInv, BookTypes
    <3> HIDE DEF trade
    <3>3. executed' # <<>> /\ executed'[Len(executed')] = trade
      BY <3>1, <3>2, AppendProperties
    <3>4. executes BY <3>1, <3>3
    <3>5. CASE ~isRestoring /\ Len(tradeCh) < TradeRoom
      <4>1. publishes BY <3>1, <3>3, <3>5 DEF Published
      <4> QED BY <3>4, <3>5, <4>1
    <3>6. CASE ~(~isRestoring /\ Len(tradeCh) < TradeRoom)
      <4>1. tradeCh' = tradeCh BY <3>1, <3>6 DEF Published
      <4>2. isRestoring \/ full BY <3>2, <3>6
      <4> QED BY <3>4, <4>1, <4>2
    <3> QED BY <3>5, <3>6
  <2>2. CASE EndRestore \/ Arrive \/ Leave BY <2>2 DEF EndRestore, Arrive, Leave
  <2>3. CASE TakeTrade BY <2>3 DEF TakeTrade
  <2> QED BY <1>1, <2>1, <2>2, <2>3 DEF Next
<1>2. BookInv /\ [Next]_vars => [Once]_vars BY <1>1
<1> QED BY <1>2, BookInvariant, PTL DEF Spec, TradesPublishedOnce

-----------------------------------------------------------------------------

\* When the loop ends with quantity left, no resting order of the naive book matches.
LEMMA NothingMatches ==
  ASSUME BookInv, taker # NoTaker, ~CanTrade, taker.qty > 0
  PROVE  Naive!Matching = {}
<1> SUFFICES ASSUME NEW r \in Naive!Matching PROVE FALSE OBVIOUS
<1>1. taker \in OrderType BY DEF BookInv, BookTypes
<1>2. /\ r \in Resting /\ r.side # taker.side
      /\ IF taker.side = "Buy" THEN r.price <= taker.price ELSE r.price >= taker.price
  BY DEF Naive!Matching
<1>3. r \in OrderType /\ r.price \in DOMAIN level[r.side] BY <1>2, RestingOrder
<1>4. r.side \in Sides /\ taker.side \in Sides /\ r.price \in Nat /\ taker.price \in Nat
  BY <1>1, <1>3, OrderFacts
<1>5. r.side = Opp BY <1>2, <1>4, OppositeIs DEF Opp
<1>6. r.price # taker.price /\ ~Better(taker.side, taker.price, r.price)
  BY <1>3, <1>5, NoneMatches
<1> QED BY <1>2, <1>4, <1>6 DEF Better, Sides

\* One turn of the engine's loop is one trade of the naive book.
LEMMA FillTrades ==
  ASSUME BookInv, Fill
  PROVE  Naive!Trade
<1> DEFINE s == Opp
           p == best[Opp]
           r == Head(Front.orders)
           M == Naive!Matching
           q == IF r.qty < taker.qty THEN r.qty ELSE taker.qty
<1>1. CanTrade BY DEF Fill
<1>2. /\ taker \in OrderType /\ taker # NoTaker /\ s \in Sides /\ s # taker.side
      /\ p \in DOMAIN level[s] /\ \A x \in DOMAIN level[s] : ~Better(s, x, p)
      /\ r \in OrderType /\ r \in Range(Front.orders)
      /\ Traded \in Nat /\ Traded <= r.qty /\ Traded <= taker.qty
  BY <1>1, FillFacts
<1>3. /\ r.side = s /\ r.price = p
      /\ \A o \in Range(Front.orders) : o # r => o.id > r.id
  BY <1>1, FrontFilled
<1>4. r.qty \in Nat /\ taker.qty \in Nat /\ taker.qty > 0 /\ taker.side \in Sides
      /\ p \in Nat /\ taker.price \in Nat
  BY <1>1, <1>2, <1>3, OrderFacts DEF CanTrade
<1>5. Traded = q BY <1>4 DEF Traded, TradeQty
<1>6. p = taker.price \/ Better(taker.side, taker.price, p)
  <2>1. Crosses BY <1>1 DEF CanTrade
  <2> QED BY <2>1 DEF Crosses, Opp
<1>7. r \in Resting BY <1>2, RestingIs DEF Front
<1>8. /\ executed' = Append(executed, [price |-> p, qty |-> Traded])
      /\ taker' = Reduced(taker, Traded)
  BY FillOutcome
<1>9. Resting' = (Resting \ {r}) \cup (IF r.qty > Traded THEN {Reduced(r, Traded)} ELSE {})
  BY FillResting
<1>10. Front = level[s][p] BY DEF Front
<1> HIDE DEF s, p, r, q, M
<1>11. r \in M
  <2>1. IF taker.side = "Buy" THEN r.price <= taker.price ELSE r.price >= taker.price
    BY <1>3, <1>4, <1>6 DEF Better, Sides
  <2> QED BY <1>2, <1>3, <1>7, <2>1 DEF M, Naive!Matching
<1>12. ASSUME NEW o \in M \ {r} PROVE Naive!Beats(r, o)
  <2>1. o \in Resting /\ o.side # taker.side BY DEF M, Naive!Matching
  <2>2. /\ o \in OrderType /\ o.price \in DOMAIN level[o.side]
        /\ o \in Range(level[o.side][o.price].orders)
    BY <2>1, RestingOrder
  <2>3. o.side \in Sides /\ o.price \in Nat /\ o.id \in Nat /\ r.id \in Nat
    BY <1>2, <2>2, OrderFacts
  <2>4. o.side = s
    <3>1. s = Opposite(taker.side) BY DEF s, Opp
    <3> QED BY <1>4, <2>1, <2>3, <3>1, OppositeIs
  <2>5. ~Better(s, o.price, p) BY <1>2, <2>2, <2>4
  <2>6. CASE o.price = p
    <3>1. o.id > r.id BY <1>3, <1>10, <2>2, <2>4, <2>6
    <3>2. r.id < o.id BY <2>3, <3>1
    <3> QED BY <1>3, <2>6, <3>2 DEF Naive!Beats
  <2>7. CASE o.price # p
    <3>1. CASE s = "Sell"
      <4>1. p < o.price BY <1>4, <2>3, <2>5, <2>7, <3>1 DEF Better
      <4> QED BY <1>3, <3>1, <4>1 DEF Naive!Beats
    <3>2. CASE s = "Buy"
      <4>1. p > o.price BY <1>4, <2>3, <2>5, <2>7, <3>2 DEF Better
      <4> QED BY <1>3, <3>2, <4>1 DEF Naive!Beats
    <3> QED BY <1>2, <3>1, <3>2 DEF Sides
  <2> QED BY <2>6, <2>7
<1>13. /\ executed' = Append(executed, [price |-> r.price, qty |-> q])
       /\ taker' = [taker EXCEPT !.qty = @ - q]
       /\ Resting' = (Resting \ {r})
                       \cup (IF r.qty > q THEN {[r EXCEPT !.qty = @ - q]} ELSE {})
  BY <1>3, <1>5, <1>8, <1>9 DEF Reduced
<1>14. \E x \in M :
         LET k == IF x.qty < taker.qty THEN x.qty ELSE taker.qty IN
         /\ \A o \in M \ {x} : Naive!Beats(x, o)
         /\ executed' = Append(executed, [price |-> x.price, qty |-> k])
         /\ taker' = [taker EXCEPT !.qty = @ - k]
         /\ Resting' = (Resting \ {x})
                         \cup (IF x.qty > k THEN {[x EXCEPT !.qty = @ - k]} ELSE {})
  <2> WITNESS r \in M
  <2> QED BY <1>12, <1>13 DEF q
<1> QED BY <1>2, <1>4, <1>14 DEF Naive!Trade, M

\* The engine implements price-time priority.
LEMMA StepImplements ==
  ASSUME BookInv, [Next]_vars
  PROVE  [Naive!BookNext]_Naive!bookVars
<1>1. UNCHANGED bookState => Resting' = Resting BY DEF bookState, Resting
<1>2. CASE EndRestore \/ UNCHANGED vars
  <2>1. UNCHANGED bookState /\ taker' = taker /\ executed' = executed
    BY <1>2 DEF EndRestore, vars
  <2> QED BY <1>1, <2>1 DEF Naive!bookVars
<1>3. CASE Arrive
  <2>1. UNCHANGED bookState /\ taker = NoTaker /\ executed' = executed BY <1>3 DEF Arrive
  <2>2. taker' \in OrderType
    <3>1. PICK s \in Sides, x \in Prices, k \in Quantities :
            taker' = [id |-> arrived + 1, side |-> s, price |-> x, qty |-> k]
      BY <1>3 DEF Arrive
    <3>2. arrived \in 0..MaxOrders /\ MaxOrders \in Nat /\ Quantities \subseteq Nat \ {0}
          /\ arrived < MaxOrders
      BY <1>3, BookAssumption DEF BookInv, BookTypes, Arrive
    <3>3. arrived + 1 \in 1..MaxOrders /\ k \in Nat BY <3>2
    <3> QED BY <3>1, <3>3 DEF OrderType
  <2>3. taker' # NoTaker BY <2>2, OrderFacts
  <2>4. Naive!Arrive BY <1>1, <2>1, <2>2, <2>3 DEF Naive!Arrive, IsOrder
  <2> QED BY <2>4 DEF Naive!BookNext
<1>4. CASE Fill BY <1>4, FillTrades DEF Naive!BookNext
<1>5. CASE Leave
  <2>1. taker # NoTaker /\ ~CanTrade /\ taker' = NoTaker /\ executed' = executed
        /\ IF taker.qty > 0 THEN AddOrder(taker) ELSE UNCHANGED bookState
    BY <1>5 DEF Leave
  <2>2. taker.qty \in Nat
    <3>1. taker \in OrderType BY <2>1 DEF BookInv, BookTypes
    <3> QED BY <3>1, OrderFacts
  <2>3. CASE taker.qty > 0
    <3>1. Naive!Matching = {} BY <2>1, <2>3, NothingMatches
    <3>2. Resting' = Resting \cup {taker} BY <2>1, <2>3, AddResting
    <3>3. Naive!Rest BY <2>1, <2>2, <2>3, <3>1, <3>2 DEF Naive!Rest
    <3> QED BY <3>3 DEF Naive!BookNext
  <2>4. CASE ~(taker.qty > 0)
    <3>1. taker.qty = 0 BY <2>2, <2>4
    <3>2. Resting' = Resting BY <1>1, <2>1, <2>4
    <3>3. Naive!Rest BY <2>1, <3>1, <3>2 DEF Naive!Rest
    <3> QED BY <3>3 DEF Naive!BookNext
  <2> QED BY <2>3, <2>4
<1>6. CASE TakeTrade
  <2>1. UNCHANGED bookState /\ taker' = taker /\ executed' = executed BY <1>6 DEF TakeTrade
  <2> QED BY <1>1, <2>1 DEF Naive!bookVars
<1> QED BY <1>2, <1>3, <1>4, <1>5, <1>6 DEF Next

\* The engine trades exactly as the naive book of reference_test.go does, trade by trade:
\* best price first, oldest first within a price, at the price of the resting order.
THEOREM BookIsPriceTime == Spec => ImplementsPriceTime
<1>1. Init => Naive!BookInit
  <2> SUFFICES ASSUME Init PROVE Naive!BookInit OBVIOUS
  <2>1. level = [s \in Sides |-> <<>>] /\ taker = NoTaker /\ executed = <<>> BY DEF Init
  <2>2. \A s \in Sides : DOMAIN level[s] = {} BY <2>1
  <2>3. Resting = {} BY <2>2 DEF Resting
  <2> QED BY <2>1, <2>3 DEF Naive!BookInit
<1>2. BookInv /\ [Next]_vars => [Naive!BookNext]_Naive!bookVars BY StepImplements
<1> QED BY <1>1, <1>2, BookInvariant, PTL DEF Spec, ImplementsPriceTime, Naive!BookSpec

-----------------------------------------------------------------------------
(* What GetSnapshot and bestPrices return.                                   *)

\* Over any pushes of new prices and pops, the array holds each live price once, the
\* best on top, and bestPrices returns exactly the k best of them, best first, although
\* it stops after 2^k - 1 entries (heaps.go, orderbook.go bestPrices).
THEOREM BestPricesAreExact == HeapSpec => []BestPricesExact
<1> DEFINE HeapInv == HeapOf(kind, array, held)
<1>1. HeapInit => HeapInv BY EmptyHeap DEF HeapInit
<1>2. HeapInv /\ [HeapNext]_heapVars => HeapInv'
  <2> SUFFICES ASSUME HeapInv, [HeapNext]_heapVars PROVE HeapInv' OBVIOUS
  <2>1. ASSUME NEW p \in 1..MaxPrice, PushPrice(p) PROVE HeapInv'
    <3>1. HeapOf(kind, HeapPush(kind, array, p), held \cup {p})
      BY <2>1, PushKeepsHeap DEF PushPrice
    <3> QED BY <2>1, <3>1 DEF PushPrice
  <2>2. CASE PopPrice
    <3>1. HeapOf(kind, HeapPop(kind, array), held \ {array[1]})
      BY <2>2, PopKeepsHeap DEF PopPrice
    <3> QED BY <2>2, <3>1 DEF PopPrice
  <2>3. CASE UNCHANGED heapVars BY <2>3 DEF heapVars
  <2> QED BY <2>1, <2>2, <2>3 DEF HeapNext
<1>3. HeapInv => BestPricesExact
  <2> SUFFICES ASSUME HeapInv PROVE BestPricesExact OBVIOUS
  <2>1. /\ Len(array) = Cardinality(held) /\ Range(array) = held BY HeapCounts
  <2>2. {array[i] : i \in DOMAIN array} = held BY <2>1 DEF Range
  <2>3. held # {} => BetterThan(array[1]) = {}
    <3> SUFFICES ASSUME held # {} PROVE BetterThan(array[1]) = {} OBVIOUS
    <3>1. array # <<>> BY <2>2
    <3>2. \A x \in held : ~Better(kind, x, array[1]) BY <3>1, TopIsBest
    <3> QED BY <3>2 DEF BetterThan
  <2>4. ASSUME NEW k \in Depths
        PROVE  LET out == BestPrices(kind, array, k)
               IN /\ Len(out) = IF k < Cardinality(held) THEN k ELSE Cardinality(held)
                  /\ \A i \in DOMAIN out :
                       out[i] \in held /\ Cardinality(BetterThan(out[i])) = i - 1
    <3> DEFINE out == BestPrices(kind, array, k)
    <3>1. k \in Nat \ {0} BY DepthAssumption
    <3>2. Ranks(kind, out, k, held) BY <2>1, <3>1, BestPricesRank
    <3> HIDE DEF out
    <3>3. out \in Seq(held) /\ DOMAIN out = 1..Len(out) BY <3>2 DEF Ranks
    <3> QED BY <3>2, <3>3 DEF Ranks, BetterThan, out
  <2> QED BY <2>1, <2>2, <2>3, <2>4 DEF BestPricesExact
<1> QED BY <1>1, <1>2, <1>3, PTL DEF HeapSpec

\* Between orders GetSnapshot shows the best prices there are, best first, each with
\* what its orders add up to, and all of them when there are no more than its depth.
THEOREM SnapshotIsTrue == Spec => []SnapshotTrue
<1>1. BookInv => SnapshotTrue
  <2> SUFFICES ASSUME BookInv, NEW s \in Sides
               PROVE  LET shown == Snapshot(s)
                          live  == DOMAIN level[s]
                      IN /\ Len(shown) = IF Cardinality(live) < SnapshotDepth
                                            THEN Cardinality(live) ELSE SnapshotDepth
                         /\ \A i \in DOMAIN shown :
                              /\ shown[i].price \in live
                              /\ Cardinality({p \in live : Better(s, p, shown[i].price)}) = i - 1
                              /\ shown[i].qty = TotalOf(level[s][shown[i].price].orders)
    BY DEF SnapshotTrue
  <2> DEFINE live == DOMAIN level[s]
             k    == SnapshotDepth
             out  == BestPrices(s, heap[s], k)
             shown == Snapshot(s)
  <2>1. HeapOf(s, heap[s], live) BY DEF BookInv, HeapsInv
  <2>2. k \in Nat \ {0} BY BookAssumption
  <2>3. Len(heap[s]) = Cardinality(live) /\ Cardinality(live) \in Nat
    <3>1. Len(heap[s]) = Cardinality(live) BY <2>1, HeapCounts
    <3>2. heap[s] \in Seq(Nat) BY <2>1 DEF HeapOf
    <3> QED BY <3>1, <3>2
  <2>4. Ranks(s, out, k, live) BY <2>1, <2>2, <2>3, BestPricesRank
  <2> HIDE DEF out
  <2>5. /\ out \in Seq(live) /\ DOMAIN out = 1..Len(out) /\ Len(out) \in Nat
        /\ Len(out) = IF k < Cardinality(live) THEN k ELSE Cardinality(live)
        /\ \A i \in 1..Len(out) : out[i] \in live
    BY <2>4 DEF Ranks
  <2>6. shown = [i \in 1..Len(out) |-> [price |-> out[i], qty |-> level[s][out[i]].volume]]
    BY <2>5 DEF Snapshot, out
  <2>7. Len(shown) = Len(out) /\ DOMAIN shown = 1..Len(out)
    <3>1. DOMAIN shown = 1..Len(out) BY <2>6
    <3>2. shown \in Seq({shown[i] : i \in 1..Len(out)})
      <4> DEFINE T == {shown[i] : i \in 1..Len(out)}
      <4>1. shown \in [1..Len(out) -> T] BY <2>6
      <4> HIDE DEF T, shown
      <4> QED BY <2>5, <4>1, SeqDef DEF T
    <3> HIDE DEF shown
    <3>3. Len(shown) \in Nat /\ DOMAIN shown = 1..Len(shown) BY <3>2, LenProperties
    <3> QED BY <2>5, <3>1, <3>3
  <2>8. \A i \in 1..Len(out) : /\ shown[i].price = out[i]
                               /\ shown[i].qty = level[s][out[i]].volume
    BY <2>6
  <2>9. \A p \in live : level[s][p].volume = TotalOf(level[s][p].orders)
    BY DEF BookInv, LevelsInv
  <2>10. \A i \in 1..Len(out) : Cardinality({p \in live : Better(s, p, out[i])}) = i - 1
    BY <2>4 DEF Ranks
  <2> HIDE DEF shown
  <2>11. Len(shown) = IF Cardinality(live) < k THEN Cardinality(live) ELSE k
    BY <2>2, <2>3, <2>5, <2>7
  <2>12. ASSUME NEW i \in DOMAIN shown
         PROVE  /\ shown[i].price \in live
                /\ Cardinality({p \in live : Better(s, p, shown[i].price)}) = i - 1
                /\ shown[i].qty = TotalOf(level[s][shown[i].price].orders)
    <3>1. i \in 1..Len(out) BY <2>7
    <3>2. shown[i].price = out[i] /\ out[i] \in live /\ shown[i].qty = level[s][out[i]].volume
      BY <2>5, <2>8, <3>1
    <3>3. Cardinality({p \in live : Better(s, p, out[i])}) = i - 1 BY <2>10, <3>1
    <3> HIDE DEF live
    <3> QED BY <2>9, <3>2, <3>3
  <2> QED BY <2>11, <2>12 DEF shown
<1> QED BY <1>1, BookInvariant, PTL
=============================================================================
