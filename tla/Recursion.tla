----------------------------- MODULE Recursion ------------------------------
(***************************************************************************)
(* Induction and recursion in a form the provers can use: over sets of     *)
(* numbers and functions, where the library's theorems take operators.     *)
(***************************************************************************)
EXTENDS Integers, WellFoundedInduction, TLAPS

\* A set of naturals that is not empty has a least element.
LEMMA LeastNumber ==
  ASSUME NEW T \in SUBSET Nat, T # {}
  PROVE  \E x \in T : \A y \in T : x <= y
<1> DEFINE R == OpToRel(<, Nat)
<1>1. IsWellFoundedOn(R, Nat) BY NatLessThanWellFounded
<1>2. \E x \in T : \A y \in T : ~(<<y, x>> \in R)
  <2> HIDE DEF R
  <2> QED BY <1>1, WFMin
<1>3. \A x, y \in Nat : y < x => <<y, x>> \in R BY DEF OpToRel
<1>4. \A x, y \in Nat : ~(y < x) => x <= y OBVIOUS
<1> HIDE DEF R
<1> QED BY <1>2, <1>3, <1>4

\* Induction: a set with 0 in it that is closed under + 1 is all of Nat.
LEMMA SetInduction ==
  ASSUME NEW T \in SUBSET Nat, 0 \in T, \A n \in T : n + 1 \in T
  PROVE  T = Nat
<1>1. CASE Nat \ T = {} BY <1>1
<1>2. CASE Nat \ T # {}
  <2>1. PICK x \in Nat \ T : \A y \in Nat \ T : x <= y BY <1>2, LeastNumber
  <2>2. x # 0 /\ x - 1 \in Nat /\ x - 1 < x /\ x - 1 + 1 = x BY <2>1
  <2>3. x - 1 \in T BY <2>1, <2>2
  <2> QED BY <2>1, <2>2, <2>3
<1> QED BY <1>1, <1>2

\* f is known on S outside go and computed from its value at next[s] for s in go.
Solves(f, S, go, next, base, step) ==
  \A s \in S : f[s] = IF s \in go THEN step[<<s, f[next[s]]>>] ELSE base[s]

\* Recursion: a function of s that is either known at s or computed from its value at
\* next[s], of smaller rank, exists.
LEMMA RecursionExists ==
  ASSUME NEW S, NEW R, NEW rank \in [S -> Nat], NEW go \in SUBSET S,
         NEW next \in [go -> S], \A s \in go : rank[next[s]] < rank[s],
         NEW base \in [S -> R], NEW step \in [go \X R -> R]
  PROVE  \E f \in [S -> R] : Solves(f, S, go, next, base, step)
<1> DEFINE Body(f, s) == IF s \in go THEN step[<<s, f[next[s]]>>] ELSE base[s]
           UpTo(f, n) == \A s \in S : rank[s] <= n => f[s] = Body(f, s)
           T == {n \in Nat : \E f \in [S -> R] : UpTo(f, n)}
<1>1. 0 \in T
  <2>1. UpTo(base, 0) OBVIOUS
  <2> QED BY <2>1
<1>2. ASSUME NEW n \in T PROVE n + 1 \in T
  <2>1. PICK f \in [S -> R] : UpTo(f, n) OBVIOUS
  <2> DEFINE g == [s \in S |-> Body(f, s)]
  <2>2. g \in [S -> R] OBVIOUS
  <2>3. ASSUME NEW s \in S, rank[s] <= n + 1 PROVE g[s] = Body(g, s)
    <3>1. CASE s \notin go BY <3>1
    <3>2. CASE s \in go
      <4>1. rank[next[s]] <= n /\ next[s] \in S BY <2>3, <3>2
      <4>2. g[next[s]] = f[next[s]] BY <2>1, <4>1
      <4> QED BY <3>2, <4>2
    <3> QED BY <3>1, <3>2
  <2> HIDE DEF g, Body
  <2> QED BY <2>2, <2>3
<1>3. T = Nat
  <2> HIDE DEF T
  <2>1. T \in SUBSET Nat BY DEF T
  <2> QED BY <1>1, <1>2, <2>1, SetInduction
<1>4. \A n \in Nat : \E f \in [S -> R] : UpTo(f, n) BY <1>3
<1>5. ASSUME NEW f \in [S -> R], NEW g \in [S -> R], NEW n \in Nat, NEW k \in Nat,
             UpTo(f, n), UpTo(g, k), NEW s \in S, rank[s] <= n, rank[s] <= k
      PROVE  f[s] = g[s]
  <2> DEFINE Bad == {x \in Nat : \E t \in S : rank[t] = x /\ x <= n /\ x <= k /\ f[t] # g[t]}
  <2>1. CASE Bad = {} BY <2>1, <1>5
  <2>2. CASE Bad # {}
    <3>1. PICK x \in Bad : \A y \in Bad : x <= y BY <2>2, LeastNumber
    <3>2. PICK t \in S : rank[t] = x /\ x <= n /\ x <= k /\ f[t] # g[t] BY <3>1
    <3>3. f[t] = Body(f, t) /\ g[t] = Body(g, t) BY <1>5, <3>2
    <3>4. t \in go BY <3>2, <3>3
    <3>5. rank[next[t]] < x /\ next[t] \in S BY <3>2, <3>4
    <3>6. rank[next[t]] \notin Bad BY <3>1, <3>5
    <3>7. f[next[t]] = g[next[t]] BY <3>2, <3>5, <3>6
    <3> QED BY <3>2, <3>3, <3>4, <3>7
  <2> QED BY <2>1, <2>2
<1> DEFINE fam == [n \in Nat |-> CHOOSE f \in [S -> R] : UpTo(f, n)]
           h == [s \in S |-> fam[rank[s]][s]]
<1>6. \A n \in Nat : fam[n] \in [S -> R] /\ UpTo(fam[n], n)
  <2> HIDE DEF UpTo
  <2> QED BY <1>4
<1>7. h \in [S -> R] 
  <2> SUFFICES ASSUME NEW s \in S PROVE fam[rank[s]][s] \in R OBVIOUS
  <2>1. rank[s] \in Nat OBVIOUS
  <2> HIDE DEF fam
  <2> QED BY <2>1, <1>6
<1>8. ASSUME NEW s \in S PROVE h[s] = Body(h, s)
  <2>1. rank[s] \in Nat /\ h[s] = fam[rank[s]][s] OBVIOUS
  <2> HIDE DEF fam
  <2>2. fam[rank[s]][s] = Body(fam[rank[s]], s) BY <2>1, <1>6
  <2>3. CASE s \in go
    <3>1. next[s] \in S /\ rank[next[s]] \in Nat /\ rank[next[s]] <= rank[s] BY <2>3
    <3>2. fam[rank[next[s]]][next[s]] = fam[rank[s]][next[s]]
      <4>1. rank[next[s]] <= rank[next[s]] BY <3>1
      <4>2. /\ fam[rank[s]] \in [S -> R] /\ UpTo(fam[rank[s]], rank[s])
            /\ fam[rank[next[s]]] \in [S -> R] /\ UpTo(fam[rank[next[s]]], rank[next[s]])
        BY <2>1, <3>1, <1>6
      <4> HIDE DEF UpTo
      <4> QED BY <2>1, <3>1, <4>1, <4>2, <1>5
    <3>3. h[next[s]] = fam[rank[s]][next[s]] BY <3>1, <3>2
    <3> QED BY <2>1, <2>2, <2>3, <3>3
  <2>4. CASE s \notin go BY <2>1, <2>2, <2>4
  <2> QED BY <2>3, <2>4
<1> QED
  <2> HIDE DEF h
  <2> QED BY <1>7, <1>8 DEF Solves

\* A tail recursion: next[s] goes on in the place of s.
Loops(f, S, go, next, base) ==
  \A s \in S : f[s] = IF s \in go THEN f[next[s]] ELSE base[s]

\* A loop whose rank falls at every turn has a result.
LEMMA LoopExists ==
  ASSUME NEW S, NEW R, NEW rank \in [S -> Nat], NEW go \in SUBSET S,
         NEW next \in [go -> S], \A s \in go : rank[next[s]] < rank[s],
         NEW base \in [S -> R]
  PROVE  \E f \in [S -> R] : Loops(f, S, go, next, base)
<1> DEFINE step == [x \in go \X R |-> x[2]]
<1>1. step \in [go \X R -> R] OBVIOUS
<1>2. \A s \in go, r \in R : step[<<s, r>>] = r OBVIOUS
<1> HIDE DEF step
<1>3. PICK f \in [S -> R] : Solves(f, S, go, next, base, step) BY <1>1, RecursionExists
<1>4. \A s \in go : f[next[s]] \in R OBVIOUS
<1>5. ASSUME NEW s \in S PROVE f[s] = IF s \in go THEN f[next[s]] ELSE base[s]
  <2>1. f[s] = IF s \in go THEN step[<<s, f[next[s]]>>] ELSE base[s] BY <1>3 DEF Solves
  <2> QED BY <1>2, <1>4, <2>1
<1>6. Loops(f, S, go, next, base) BY <1>5 DEF Loops
<1> QED BY <1>6
=============================================================================
