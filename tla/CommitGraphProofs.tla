------------------------------ MODULE CommitGraphProofs ------------------------
(***************************************************************************)
(* What a walk over parents meets, for every graph whose objects were      *)
(* stored after their parents.  The recursion goes down along the ids, so  *)
(* induction is an appeal to the least counterexample.                     *)
(***************************************************************************)
EXTENDS CommitGraph, FiniteSetTheorems, TLAPS

\* n objects, each stored after its parents.
Graph(G, n) ==
    /\ n \in Nat /\ DOMAIN G = 1 .. n
    /\ \A i \in 1 .. n : G[i] \subseteq 1 .. i - 1

\* A set of natural numbers that is not empty has a least element: the
\* intervals up to its members are finite, and inclusion is well founded.
LEMMA LeastNatural ==
    ASSUME NEW T \in SUBSET Nat, T # {}
    PROVE  \E n \in T : \A m \in T : n <= m
<1> DEFINE Upto(n) == 0 .. n
           TT == {Upto(n) : n \in T}
           R == StrictSubsetOrdering(Nat)
<1>1. TT \subseteq FiniteSubsetsOf(Nat) /\ TT # {}
  <2>1. ASSUME NEW n \in T PROVE Upto(n) \in SUBSET Nat /\ IsFiniteSet(Upto(n))
    BY FS_Interval
  <2> QED BY <2>1 DEF FiniteSubsetsOf
<1>2. PICK X \in TT : \A Y \in TT : ~ (<<Y, X>> \in R)
  <2>1. IsWellFoundedOn(R, FiniteSubsetsOf(Nat)) BY FS_StrictSubsetOrderingWellFounded
  <2> HIDE DEF TT, R
  <2> QED BY <1>1, <2>1, WFMin
<1>3. PICK n \in T : X = Upto(n) OBVIOUS
<1>4. ASSUME NEW m \in T, m < n PROVE FALSE
  <2>1. Upto(m) \subseteq Upto(n) /\ n \in Upto(n) /\ n \notin Upto(m) BY <1>4
  <2>2. <<Upto(m), Upto(n)>> \in R BY <2>1 DEF StrictSubsetOrdering
  <2> QED BY <1>2, <1>3, <2>2
<1> QED BY <1>4

\* The walk is defined on the first n objects of a graph.
PartialWalk(G, n, f) == f = [i \in 1 .. n |-> {i} \cup UNION {f[p] : p \in G[i]}]

\* A walk of the first n objects gives one of n + 1.
LEMMA WalkExtends ==
    ASSUME NEW G, NEW N, Graph(G, N), NEW n \in 1 .. N, NEW f, PartialWalk(G, n - 1, f)
    PROVE  \E g : PartialWalk(G, n, g)
<1> DEFINE g == [i \in 1 .. n |-> IF i = n THEN {n} \cup UNION {f[p] : p \in G[n]} ELSE f[i]]
<1>1. ASSUME NEW i \in 1 .. n, NEW p \in G[i] PROVE g[p] = f[p]
  <2>1. p \in 1 .. i - 1 BY DEF Graph
  <2> QED BY <2>1 DEF Graph
<1>2. ASSUME NEW i \in 1 .. n PROVE g[i] = {i} \cup UNION {g[p] : p \in G[i]}
  <2>1. UNION {g[p] : p \in G[i]} = UNION {f[p] : p \in G[i]} BY <1>1
  <2>2. CASE i = n BY <2>1, <2>2
  <2>3. CASE i # n
    <3>1. i \in 1 .. n - 1 BY <2>3 DEF Graph
    <3>2. f[i] = {i} \cup UNION {f[p] : p \in G[i]} BY <3>1 DEF PartialWalk
    <3> QED BY <2>1, <2>3, <3>2
  <2> QED BY <2>2, <2>3
<1>3. g = [i \in 1 .. n |-> {i} \cup UNION {g[p] : p \in G[i]}] BY <1>2
<1> QED BY <1>3 DEF PartialWalk

\* So there is one of all of them.
LEMMA WalkExists ==
    ASSUME NEW G, NEW n, Graph(G, n)
    PROVE  \E f : PartialWalk(G, n, f)
<1> DEFINE T == {m \in 0 .. n : ~ \E f : PartialWalk(G, m, f)}
<1>0. n \in 0 .. n BY DEF Graph
<1>1. SUFFICES ASSUME T # {} PROVE FALSE
  <2>1. n \in T \/ \E f : PartialWalk(G, n, f) BY <1>0
  <2> QED BY <2>1
<1>2. T \in SUBSET Nat BY DEF Graph
<1>3. PICK m \in T : \A k \in T : m <= k
  <2> HIDE DEF T
  <2> QED BY <1>1, <1>2, LeastNatural
<1>4. CASE m = 0
  <2> DEFINE none == [i \in 1 .. 0 |-> {}]
  <2>1. \A i \in 1 .. 0 : none[i] = {i} \cup UNION {none[p] : p \in G[i]} OBVIOUS
  <2>2. PartialWalk(G, 0, none) BY <2>1 DEF PartialWalk
  <2> QED BY <1>4, <2>2
<1>5. CASE m # 0
  <2>1. m \in 1 .. n /\ m - 1 \in 0 .. n /\ m - 1 < m BY <1>5 DEF Graph
  <2>2. PICK f : PartialWalk(G, m - 1, f) BY <1>3, <2>1
  <2> QED BY <2>1, <2>2, WalkExtends
<1> QED BY <1>4, <1>5

\* The recursive definition means what it says: a walk meets the object itself
\* and what walks from its parents meet.
LEMMA AncestorsUnfold ==
    ASSUME NEW G, NEW n, Graph(G, n), NEW i \in 1 .. n
    PROVE  AncestorsIn(G, i) = {i} \cup UNION {AncestorsIn(G, p) : p \in G[i]}
<1> DEFINE W(f) == f = [j \in DOMAIN G |-> {j} \cup UNION {f[p] : p \in G[j]}]
           anc == CHOOSE f : W(f)
<1>1. \E f : W(f)
  <2>1. PICK f : PartialWalk(G, n, f) BY WalkExists
  <2>2. f = [j \in 1 .. n |-> {j} \cup UNION {f[p] : p \in G[j]}] BY <2>1 DEF PartialWalk
  <2>3. DOMAIN G = 1 .. n BY DEF Graph
  <2>4. W(f) BY <2>2, <2>3
  <2> QED BY <2>4
<1>2. W(anc)
  <2> HIDE DEF W
  <2> QED BY <1>1
<1>3. anc[i] = {i} \cup UNION {anc[p] : p \in G[i]} BY <1>2 DEF Graph
<1>4. \A j : AncestorsIn(G, j) = anc[j] BY DEF AncestorsIn
<1> HIDE DEF anc
<1>5. {AncestorsIn(G, p) : p \in G[i]} = {anc[p] : p \in G[i]} BY <1>4
<1> QED BY <1>3, <1>4, <1>5
\* A walk from a stored object meets the object, and stored objects only, none
\* younger than where it started.
LEMMA AncestorsBelow ==
    ASSUME NEW G, NEW n, Graph(G, n), NEW i \in 1 .. n
    PROVE  AncestorsIn(G, i) \subseteq 1 .. i /\ i \in AncestorsIn(G, i)
<1> DEFINE T == {m \in 1 .. n : ~ (AncestorsIn(G, m) \subseteq 1 .. m)}
<1>1. T = {}
  <2> SUFFICES ASSUME T # {} PROVE FALSE OBVIOUS
  <2>1. T \in SUBSET Nat BY DEF Graph
  <2>2. PICK m \in T : \A k \in T : m <= k
    <3> HIDE DEF T
    <3> QED BY <2>1, LeastNatural
  <2>3. ASSUME NEW p \in G[m] PROVE AncestorsIn(G, p) \subseteq 1 .. m
    <3>1. p \in 1 .. n /\ p < m BY DEF Graph
    <3>2. p \notin T BY <2>2, <3>1
    <3> QED BY <3>1, <3>2
  <2>4. AncestorsIn(G, m) = {m} \cup UNION {AncestorsIn(G, p) : p \in G[m]}
    BY AncestorsUnfold
  <2>5. AncestorsIn(G, m) \subseteq 1 .. m BY <2>3, <2>4
  <2> QED BY <2>5
<1>2. AncestorsIn(G, i) \subseteq 1 .. i BY <1>1
<1>3. i \in AncestorsIn(G, i) BY AncestorsUnfold
<1> QED BY <1>2, <1>3

\* What a walk meets, all that walks from there meet it meets too.
LEMMA AncestorsTransitive ==
    ASSUME NEW G, NEW n, Graph(G, n), NEW i \in 1 .. n, NEW j \in AncestorsIn(G, i)
    PROVE  AncestorsIn(G, j) \subseteq AncestorsIn(G, i)
<1> DEFINE Whole(m) == \A k \in AncestorsIn(G, m) : AncestorsIn(G, k) \subseteq AncestorsIn(G, m)
           T == {m \in 1 .. n : ~Whole(m)}
<1>1. T = {}
  <2> SUFFICES ASSUME T # {} PROVE FALSE OBVIOUS
  <2>1. T \in SUBSET Nat BY DEF Graph
  <2>2. PICK m \in T : \A k \in T : m <= k
    <3> HIDE DEF T
    <3> QED BY <2>1, LeastNatural
  <2>3. AncestorsIn(G, m) = {m} \cup UNION {AncestorsIn(G, p) : p \in G[m]}
    BY AncestorsUnfold
  <2>4. ASSUME NEW p \in G[m], NEW k \in AncestorsIn(G, p)
        PROVE  AncestorsIn(G, k) \subseteq AncestorsIn(G, m)
    <3>1. p \in 1 .. n /\ p < m BY DEF Graph
    <3>2. Whole(p)
      <4> HIDE DEF Whole
      <4>1. p \notin T BY <2>2, <3>1
      <4> QED BY <3>1, <4>1
    <3>3. AncestorsIn(G, p) \subseteq AncestorsIn(G, m) BY <2>3
    <3> QED BY <3>2, <3>3
  <2>5. Whole(m) BY <2>3, <2>4
  <2> QED BY <2>5
<1>2. Whole(i) BY <1>1
<1> QED BY <1>2

\* An object stored later changes no walk from the objects there were.
LEMMA AncestorsAgree ==
    ASSUME NEW G, NEW n, Graph(G, n), NEW H, NEW m, Graph(H, m), n <= m,
           \A i \in 1 .. n : H[i] = G[i], NEW i \in 1 .. n
    PROVE  AncestorsIn(H, i) = AncestorsIn(G, i)
<1> DEFINE T == {j \in 1 .. n : AncestorsIn(H, j) # AncestorsIn(G, j)}
<1>1. T = {}
  <2> SUFFICES ASSUME T # {} PROVE FALSE OBVIOUS
  <2>1. T \in SUBSET Nat BY DEF Graph
  <2>2. PICK j \in T : \A k \in T : j <= k
    <3> HIDE DEF T
    <3> QED BY <2>1, LeastNatural
  <2>3. ASSUME NEW p \in G[j] PROVE AncestorsIn(H, p) = AncestorsIn(G, p)
    <3>1. p \in 1 .. n /\ p < j BY DEF Graph
    <3> QED BY <2>2, <3>1
  <2>4. AncestorsIn(G, j) = {j} \cup UNION {AncestorsIn(G, p) : p \in G[j]}
    BY AncestorsUnfold
  <2>5. j \in 1 .. m /\ H[j] = G[j] BY DEF Graph
  <2>6. AncestorsIn(H, j) = {j} \cup UNION {AncestorsIn(H, p) : p \in G[j]}
    BY <2>5, AncestorsUnfold
  <2>7. {AncestorsIn(H, p) : p \in G[j]} = {AncestorsIn(G, p) : p \in G[j]} BY <2>3
  <2> QED BY <2>4, <2>6, <2>7
<1> QED BY <1>1

\* collectAncestors (adaptor.go:296) collects from a queue what it has not seen,
\* so it ends with the least set that has the start and the parents of all its
\* members.  That set is what the recursive definition gives, in every graph.
THEOREM AncestorsAreClosure ==
    ASSUME NEW G, NEW n, Graph(G, n), NEW i \in 1 .. n
    PROVE  /\ i \in AncestorsIn(G, i)
           /\ \A j \in AncestorsIn(G, i) : G[j] \subseteq AncestorsIn(G, i)
           /\ \A S : i \in S /\ (\A j \in S \cap 1 .. n : G[j] \subseteq S)
                        => AncestorsIn(G, i) \subseteq S
<1>1. i \in AncestorsIn(G, i) BY AncestorsBelow
<1>2. ASSUME NEW j \in AncestorsIn(G, i), NEW p \in G[j] PROVE p \in AncestorsIn(G, i)
  <2>1. j \in 1 .. n
    <3>1. j \in 1 .. i BY AncestorsBelow
    <3> QED BY <3>1 DEF Graph
  <2>2. p \in 1 .. n BY <2>1 DEF Graph
  <2>3. p \in AncestorsIn(G, p) BY <2>2, AncestorsBelow
  <2>4. AncestorsIn(G, j) = {j} \cup UNION {AncestorsIn(G, q) : q \in G[j]}
    BY <2>1, AncestorsUnfold
  <2>5. p \in AncestorsIn(G, j) BY <1>2, <2>3, <2>4
  <2> QED BY <2>5, AncestorsTransitive
<1>3. ASSUME NEW S, i \in S, \A j \in S \cap 1 .. n : G[j] \subseteq S
      PROVE  AncestorsIn(G, i) \subseteq S
  <2> DEFINE T == {m \in 1 .. n : m \in S /\ ~ (AncestorsIn(G, m) \subseteq S)}
  <2>1. T = {}
    <3> SUFFICES ASSUME T # {} PROVE FALSE OBVIOUS
    <3>1. T \in SUBSET Nat BY DEF Graph
    <3>2. PICK m \in T : \A k \in T : m <= k
      <4> HIDE DEF T
      <4> QED BY <3>1, LeastNatural
    <3>3. ASSUME NEW p \in G[m] PROVE AncestorsIn(G, p) \subseteq S
      <4>1. p \in 1 .. n /\ p < m /\ p \in S BY <1>3 DEF Graph
      <4> QED BY <3>2, <4>1
    <3>4. AncestorsIn(G, m) = {m} \cup UNION {AncestorsIn(G, p) : p \in G[m]}
      BY AncestorsUnfold
    <3>5. AncestorsIn(G, m) \subseteq S BY <3>3, <3>4
    <3> QED BY <3>5
  <2> QED BY <1>3, <2>1
<1> QED BY <1>1, <1>2, <1>3
===============================================================================
