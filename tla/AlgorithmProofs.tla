----------------------------- MODULE AlgorithmProofs ---------------------------
(***************************************************************************)
(* The algorithms that compute a result from their inputs: what the        *)
(* planner promises, for any paths, contents and modes; that the reader of *)
(* the index gives back what was written, for indexes of any size; and     *)
(* where the merge of texts conflicts, and that its sides are alike, for   *)
(* texts of any length.  Every loop of these is a function of the rounds   *)
(* made, so induction is an appeal to the least counterexample.            *)
(***************************************************************************)
EXTENDS MergePlanner, TextMerge, IndexCodec, CommitGraphProofs, SequenceTheorems, TLAPS

\* The inputs are trees, and the plan, once there is one, is theirs.
PlannerInv ==
    /\ base \in Tree /\ ours \in Tree /\ theirs \in Tree
    /\ Planned => plan = MergeTrees(base, ours, theirs)

\* Only a missing entry has no hash.
LEMMA HashOfType ==
    ASSUME NEW t \in Tree, NEW p \in Path
    PROVE  /\ HashOf(t[p]) \in Hash \cup {None}
           /\ HashOf(t[p]) = None <=> t[p] = None
<1>1. t[p] \in Entry \cup {None}
  BY DEF Tree
<1>2. CASE t[p] = None
  BY <1>2 DEF HashOf
<1>3. CASE t[p] # None
  <2>1. HashOf(t[p]) \in Hash
    BY <1>1, <1>3 DEF HashOf, Entry
  <2> QED BY <1>3, <2>1, MergeAssumption
<1> QED BY <1>2, <1>3

\* The four sides, one of which every path takes, and what each one means.
LEMMA SideCases ==
    ASSUME NEW b, NEW o, NEW t
    PROVE  \/ Side(b, o, t) = "base"     /\ o = b /\ t = b
           \/ Side(b, o, t) = "ours"     /\ ~(o = b /\ t = b) /\ (o = t \/ t = b)
           \/ Side(b, o, t) = "theirs"   /\ o = b /\ t # b
           \/ Side(b, o, t) = "conflict" /\ o # b /\ t # b /\ o # t
BY DEF Side

\* The plan path by path: what each part of it holds, and its merged tree.
LEMMA PlanAt ==
    ASSUME NEW b \in Tree, NEW o \in Tree, NEW t \in Tree, NEW p \in Path
    PROVE  LET s == Side(HashOf(b[p]), HashOf(o[p]), HashOf(t[p]))
               e == Chosen(s, b[p], o[p], t[p])
               m == MergeTrees(b, o, t)
           IN /\ p \in DOMAIN m.CleanUpdates <=> e # None
              /\ p \in m.Deletions <=> s \in {"ours", "theirs"} /\ e = None
              /\ p \in DOMAIN m.Conflicts <=> s = "conflict"
              /\ Merged(m)[p] = e
BY DEF MergeTrees, Merged

\* A plan mentions paths only.
LEMMA PlanPaths ==
    ASSUME NEW b, NEW o, NEW t
    PROVE  /\ DOMAIN MergeTrees(b, o, t).CleanUpdates \subseteq Path
           /\ MergeTrees(b, o, t).Deletions \subseteq Path
           /\ DOMAIN MergeTrees(b, o, t).Conflicts \subseteq Path
BY DEF MergeTrees

\* The merged content of one path.
LEMMA MergedHash ==
    ASSUME NEW b \in Tree, NEW o \in Tree, NEW t \in Tree, NEW p \in Path
    PROVE  LET s == Side(HashOf(b[p]), HashOf(o[p]), HashOf(t[p]))
           IN HashOf(Merged(MergeTrees(b, o, t))[p]) =
                Chosen(s, HashOf(b[p]), HashOf(o[p]), HashOf(t[p]))
<1> DEFINE s == Side(HashOf(b[p]), HashOf(o[p]), HashOf(t[p]))
<1>1. Merged(MergeTrees(b, o, t))[p] = Chosen(s, b[p], o[p], t[p])
  BY PlanAt
<1>2. s \in {"base", "ours", "theirs", "conflict"}
  BY SideCases
<1>3. HashOf(None) = None
  BY DEF HashOf
<1> HIDE DEF s
<1>4. HashOf(Chosen(s, b[p], o[p], t[p])) = Chosen(s, HashOf(b[p]), HashOf(o[p]), HashOf(t[p]))
  BY <1>2, <1>3 DEF Chosen
<1> QED BY <1>1, <1>4 DEF s

\* Nothing but the planner's own step changes the plan.
LEMMA PlannerInvariant == Spec => []PlannerInv
<1>1. Init => PlannerInv
  BY DEF Init, PlannerInv, Planned
<1>2. PlannerInv /\ [Plan]_vars => PlannerInv'
  BY DEF PlannerInv, Plan, vars, Planned
<1> QED BY <1>1, <1>2, PTL DEF Spec
-------------------------------------------------------------------------------
\* MergeTrees gives every path of the three trees exactly one verdict, so the
\* three phases of ApplyMergePlan (apply.go:28-91) never touch the same path.
THEOREM PlanIsPartition == Spec => []OneVerdict
<1>1. PlannerInv => OneVerdict
  <2> SUFFICES ASSUME PlannerInv, Planned
               PROVE  LET C == DOMAIN plan.CleanUpdates
                          D == plan.Deletions
                          X == DOMAIN plan.Conflicts
                      IN /\ C \cup D \cup X = AllPaths
                         /\ C \cap D = {} /\ C \cap X = {} /\ D \cap X = {}
    BY DEF OneVerdict
  <2> DEFINE C == DOMAIN plan.CleanUpdates
             D == plan.Deletions
             X == DOMAIN plan.Conflicts
  <2>1. /\ base \in Tree /\ ours \in Tree /\ theirs \in Tree
        /\ plan = MergeTrees(base, ours, theirs)
    BY DEF PlannerInv
  <2>2. C \subseteq Path /\ D \subseteq Path /\ X \subseteq Path
    BY <2>1, PlanPaths
  <2>3. ASSUME NEW p \in Path
        PROVE  /\ p \in C \cup D \cup X <=> p \in AllPaths
               /\ ~(p \in C /\ p \in D) /\ ~(p \in C /\ p \in X) /\ ~(p \in D /\ p \in X)
    <3> DEFINE s == Side(HashOf(base[p]), HashOf(ours[p]), HashOf(theirs[p]))
               e == Chosen(s, base[p], ours[p], theirs[p])
    <3>1. /\ p \in C <=> e # None
          /\ p \in D <=> s \in {"ours", "theirs"} /\ e = None
          /\ p \in X <=> s = "conflict"
      BY <2>1, PlanAt
    <3>2. /\ HashOf(base[p]) = None <=> base[p] = None
          /\ HashOf(ours[p]) = None <=> ours[p] = None
          /\ HashOf(theirs[p]) = None <=> theirs[p] = None
      BY <2>1, HashOfType
    <3>3. p \in AllPaths <=> ~(base[p] = None /\ ours[p] = None /\ theirs[p] = None)
      BY DEF AllPaths
    <3>4. \/ s = "base"   /\ e = base[p] /\ HashOf(ours[p]) = HashOf(base[p])
               /\ HashOf(theirs[p]) = HashOf(base[p])
          \/ s = "ours"   /\ e = ours[p]
               /\ ~(HashOf(ours[p]) = HashOf(base[p]) /\ HashOf(theirs[p]) = HashOf(base[p]))
          \/ s = "theirs" /\ e = theirs[p] /\ HashOf(theirs[p]) # HashOf(base[p])
          \/ s = "conflict" /\ e = None /\ HashOf(theirs[p]) # HashOf(base[p])
      BY SideCases DEF Chosen
    <3> HIDE DEF s, e, C, D, X
    <3> QED BY <3>1, <3>2, <3>3, <3>4
  <2> HIDE DEF C, D, X
  <2>4. AllPaths \subseteq Path
    BY DEF AllPaths
  <2>5. /\ C \cup D \cup X = AllPaths
        /\ C \cap D = {} /\ C \cap X = {} /\ D \cap X = {}
    BY <2>2, <2>3, <2>4
  <2> QED BY <2>5 DEF C, D, X
<1> QED BY <1>1, PlannerInvariant, PTL

\* MergeTrees computes the three-way merge: one new content wins, two conflict.
THEOREM PlanIsThreeWay == Spec => []ThreeWay
<1>1. PlannerInv => ThreeWay
  <2> SUFFICES ASSUME PlannerInv, Planned, NEW p \in Path
               PROVE  LET b       == HashOf(base[p])
                          changes == {HashOf(ours[p]), HashOf(theirs[p])} \ {b}
                          result  == HashOf(Merged(plan)[p])
                      IN IF p \in DOMAIN plan.Conflicts
                         THEN \E x, y \in changes : x # y
                         ELSE (changes = {} /\ result = b) \/ changes = {result}
    BY DEF ThreeWay
  <2> DEFINE b == HashOf(base[p])
             o == HashOf(ours[p])
             t == HashOf(theirs[p])
             result == HashOf(Merged(plan)[p])
  <2>1. /\ base \in Tree /\ ours \in Tree /\ theirs \in Tree
        /\ plan = MergeTrees(base, ours, theirs)
    BY DEF PlannerInv
  <2>2. result = Chosen(Side(b, o, t), b, o, t)
    BY <2>1, MergedHash
  <2>3. p \in DOMAIN plan.Conflicts <=> Side(b, o, t) = "conflict"
    BY <2>1, PlanAt
  <2> HIDE DEF b, o, t, result
  <2>4. IF p \in DOMAIN plan.Conflicts
        THEN \E x, y \in {o, t} \ {b} : x # y
        ELSE ({o, t} \ {b} = {} /\ result = b) \/ {o, t} \ {b} = {result}
    BY <2>2, <2>3, SideCases DEF Chosen
  <2> QED BY <2>4 DEF b, o, t, result
<1> QED BY <1>1, PlannerInvariant, PTL

\* A merge and its mirror image agree, conflicts included.
THEOREM PlanIsSymmetric == Spec => []Symmetric
<1>1. PlannerInv => Symmetric
  <2> SUFFICES ASSUME PlannerInv, Planned
               PROVE  LET flip == MergeTrees(base, theirs, ours)
                      IN /\ DOMAIN plan.Conflicts = DOMAIN flip.Conflicts
                         /\ \A p \in Path :
                              HashOf(Merged(plan)[p]) = HashOf(Merged(flip)[p])
    BY DEF Symmetric
  <2> DEFINE flip == MergeTrees(base, theirs, ours)
  <2>1. /\ base \in Tree /\ ours \in Tree /\ theirs \in Tree
        /\ plan = MergeTrees(base, ours, theirs)
    BY DEF PlannerInv
  <2>2. ASSUME NEW p \in Path
        PROVE  /\ p \in DOMAIN plan.Conflicts <=> p \in DOMAIN flip.Conflicts
               /\ HashOf(Merged(plan)[p]) = HashOf(Merged(flip)[p])
    <3> DEFINE b == HashOf(base[p])
               o == HashOf(ours[p])
               t == HashOf(theirs[p])
    <3>1. /\ HashOf(Merged(plan)[p]) = Chosen(Side(b, o, t), b, o, t)
          /\ HashOf(Merged(flip)[p]) = Chosen(Side(b, t, o), b, t, o)
      BY <2>1, MergedHash
    <3>2. /\ p \in DOMAIN plan.Conflicts <=> Side(b, o, t) = "conflict"
          /\ p \in DOMAIN flip.Conflicts <=> Side(b, t, o) = "conflict"
      BY <2>1, PlanAt
    <3> HIDE DEF b, o, t, flip
    <3>3. /\ Side(b, o, t) = "conflict" <=> Side(b, t, o) = "conflict"
          /\ Chosen(Side(b, o, t), b, o, t) = Chosen(Side(b, t, o), b, t, o)
      BY DEF Side, Chosen
    <3> QED BY <3>1, <3>2, <3>3
  <2>3. DOMAIN plan.Conflicts \subseteq Path /\ DOMAIN flip.Conflicts \subseteq Path
    BY <2>1, PlanPaths
  <2> HIDE DEF flip
  <2>4. /\ DOMAIN plan.Conflicts = DOMAIN flip.Conflicts
        /\ \A p \in Path : HashOf(Merged(plan)[p]) = HashOf(Merged(flip)[p])
    BY <2>2, <2>3
  <2> QED BY <2>4 DEF flip
<1> QED BY <1>1, PlannerInvariant, PTL

\* What the planner makes of three trees is a tree again.
LEMMA MergedType ==
    ASSUME NEW b \in Tree, NEW o \in Tree, NEW t \in Tree
    PROVE  Merged(MergeTrees(b, o, t)) \in Tree
<1> DEFINE m == Merged(MergeTrees(b, o, t))
<1>1. m = [p \in Path |-> m[p]]
  BY DEF Merged
<1>2. ASSUME NEW p \in Path
      PROVE  m[p] \in Entry \cup {None}
  <2> DEFINE s == Side(HashOf(b[p]), HashOf(o[p]), HashOf(t[p]))
  <2>1. m[p] = Chosen(s, b[p], o[p], t[p])
    BY PlanAt
  <2>2. s \in {"base", "ours", "theirs", "conflict"}
    BY SideCases
  <2>3. /\ b[p] \in Entry \cup {None}
        /\ o[p] \in Entry \cup {None}
        /\ t[p] \in Entry \cup {None}
    BY DEF Tree
  <2> HIDE DEF m, s
  <2> QED BY <2>1, <2>2, <2>3 DEF Chosen
<1> HIDE DEF m
<1>3. m \in Tree
  BY <1>1, <1>2 DEF Tree
<1> QED BY <1>3 DEF m

\* A merge without conflicts is final: merging theirs into its result changes
\* no content and raises no conflict, so a repeated merge is a no-op.
THEOREM PlanAbsorbs == Spec => []Absorbs
<1>1. PlannerInv => Absorbs
  <2> SUFFICES ASSUME PlannerInv, Planned, DOMAIN plan.Conflicts = {}
               PROVE  LET again == MergeTrees(base, Merged(plan), theirs)
                      IN /\ DOMAIN again.Conflicts = {}
                         /\ \A p \in Path :
                              HashOf(Merged(again)[p]) = HashOf(Merged(plan)[p])
    BY DEF Absorbs
  <2> DEFINE result == Merged(plan)
             again  == MergeTrees(base, result, theirs)
  <2>1. /\ base \in Tree /\ ours \in Tree /\ theirs \in Tree
        /\ plan = MergeTrees(base, ours, theirs) /\ result \in Tree
    BY MergedType DEF PlannerInv
  <2>2. ASSUME NEW p \in Path
        PROVE  /\ p \notin DOMAIN again.Conflicts
               /\ HashOf(Merged(again)[p]) = HashOf(result[p])
    <3> DEFINE b == HashOf(base[p])
               o == HashOf(ours[p])
               t == HashOf(theirs[p])
               m == HashOf(result[p])
    <3>1. m = Chosen(Side(b, o, t), b, o, t) /\ Side(b, o, t) # "conflict"
      BY <2>1, MergedHash, PlanAt
    <3>2. HashOf(Merged(again)[p]) = Chosen(Side(b, m, t), b, m, t)
      <4> HIDE DEF result
      <4> QED BY <2>1, MergedHash
    <3>3. p \in DOMAIN again.Conflicts <=> Side(b, m, t) = "conflict"
      <4> HIDE DEF result
      <4> QED BY <2>1, PlanAt
    <3> HIDE DEF b, o, t, m, again, result
    <3>4. Side(b, m, t) # "conflict" /\ Chosen(Side(b, m, t), b, m, t) = m
      BY <3>1 DEF Side, Chosen
    <3> QED BY <3>2, <3>3, <3>4 DEF m
  <2>3. DOMAIN again.Conflicts \subseteq Path
    BY PlanPaths
  <2> HIDE DEF again, result
  <2>4. DOMAIN again.Conflicts = {}
    BY <2>2, <2>3
  <2> QED BY <2>2, <2>4 DEF again, result
<1> QED BY <1>1, PlannerInvariant, PTL
-------------------------------------------------------------------------------
\* What fits in a byte.
Byte == {n \in Nat : n < 256}

\* What is written and read.
ByteString == Seq(Byte)

\* Induction along 0 .. n, as a statement about the set it holds on.
LEMMA UpTo0 ==
    ASSUME NEW n \in Nat, NEW T, 0 \in T, \A i \in 1 .. n : i - 1 \in T => i \in T
    PROVE  0 .. n \subseteq T
<1> DEFINE U == {i \in 0 .. n : i \notin T}
<1> SUFFICES ASSUME U # {} PROVE FALSE OBVIOUS
<1>1. U \in SUBSET Nat OBVIOUS
<1>2. PICK m \in U : \A k \in U : m <= k
  <2> HIDE DEF U
  <2> QED BY <1>1, LeastNatural
<1>3. m \in 1 .. n OBVIOUS
<1>4. m - 1 \in T
  <2>1. m - 1 \in 0 .. n /\ ~(m <= m - 1) BY <1>3
  <2>2. m - 1 \notin U BY <1>2, <2>1
  <2> QED BY <2>1, <2>2
<1> QED BY <1>3, <1>4

\* A field of two bytes is read as it was written.
LEMMA Uint16Field ==
    ASSUME NEW n \in Nat, n < 65536
    PROVE  /\ (n \div 256) % 256 \in Byte /\ n % 256 \in Byte
           /\ 256 * ((n \div 256) % 256) + (n % 256) = n
BY SMT DEF Byte

\* What is read as an int has no more than seven bits in its first byte.
LEMMA HighByte ==
    /\ MaxInt32 \in Nat
    /\ \A n \in Nat : n <= MaxInt32 => n \div 16777216 < 128
BY SMT DEF MaxInt32

\* And so is one of four.
LEMMA Uint32Field ==
    ASSUME NEW n \in 0 .. MaxInt32
    PROVE  /\ Len(Uint32(n)) = 4 /\ Uint32(n) \in Seq(Byte)
           /\ 16777216 * Uint32(n)[1] + 65536 * Uint32(n)[2] + 256 * Uint32(n)[3] + Uint32(n)[4] = n
<1> DEFINE a == n \div 256
           b == a \div 256
           c == b \div 256
<1>0. n \in Nat /\ n <= MaxInt32 BY HighByte
<1>1. n = 256 * a + (n % 256) /\ a \in Nat /\ n % 256 \in Byte BY <1>0, SMT DEF Byte
<1>2. a = 256 * b + (a % 256) /\ b \in Nat /\ a % 256 \in Byte BY <1>1, SMT DEF Byte
<1>3. b = 256 * c + (b % 256) /\ c \in Nat /\ b % 256 \in Byte BY <1>2, SMT DEF Byte
<1>4. b = n \div 65536 /\ c = n \div 16777216 BY <1>0, SMT
<1>5. c % 256 = c /\ c \in Byte BY <1>0, <1>4, HighByte, SMT DEF Byte
<1> HIDE DEF a, b, c
<1>6. Uint32(n) = <<c % 256, b % 256, a % 256, n % 256>> BY <1>4, SMT DEF Uint32, a, b, c
<1> QED BY <1>1, <1>2, <1>3, <1>5, <1>6, SMT

\* The length of what is written, which the provers are to leave as it is.
Size(s) == Len(s)

\* A piece lies in the data at an offset.
At(data, offset, piece) ==
    /\ offset + Size(piece) <= Size(data)
    /\ \A i \in 1 .. Size(piece) : data[offset + i] = piece[i]

\* A byte of a piece that lies in the data.
LEMMA ByteAt ==
    ASSUME NEW data, NEW offset, NEW piece, At(data, offset, piece),
           NEW i \in 1 .. Size(piece)
    PROVE  data[offset + i] = piece[i]
BY DEF At

\* Pieces written one after the other have the size of both.
LEMMA ConcatSize ==
    ASSUME NEW s \in ByteString, NEW t \in ByteString
    PROVE  /\ s \o t \in ByteString /\ Size(s \o t) = Size(s) + Size(t)
           /\ Size(s) \in Nat /\ Size(t) \in Nat
BY ConcatProperties DEF Size, ByteString

\* Two pieces written one after the other lie one after the other.
LEMMA ConcatAt ==
    ASSUME NEW s \in ByteString, NEW t \in ByteString, NEW data, Size(data) \in Nat,
           NEW offset \in Nat, At(data, offset, s \o t)
    PROVE  At(data, offset, s) /\ At(data, offset + Size(s), t)
<1>1. /\ Size(s \o t) = Size(s) + Size(t) /\ Size(s) \in Nat /\ Size(t) \in Nat
      /\ \A i \in 1 .. Size(s) + Size(t) :
            (s \o t)[i] = IF i <= Size(s) THEN s[i] ELSE t[i - Size(s)]
  BY ConcatProperties DEF Size, ByteString
<1>3. offset + Size(s) + Size(t) <= Size(data) BY <1>1 DEF At
<1>4. ASSUME NEW i \in 1 .. Size(s) PROVE data[offset + i] = s[i]
  <2>1. i \in 1 .. Size(s) + Size(t) /\ i <= Size(s) BY <1>1
  <2> QED BY <1>1, <2>1 DEF At
<1>5. ASSUME NEW i \in 1 .. Size(t) PROVE data[offset + Size(s) + i] = t[i]
  <2> DEFINE j == Size(s) + i
  <2>1. /\ j \in 1 .. Size(s) + Size(t) /\ ~(j <= Size(s)) /\ j - Size(s) = i
        /\ offset + j = offset + Size(s) + i
    BY <1>1
  <2> HIDE DEF j
  <2>2. data[offset + j] = (s \o t)[j] BY <1>1, <2>1 DEF At
  <2>3. (s \o t)[j] = t[j - Size(s)] BY <1>1, <2>1
  <2> QED BY <2>1, <2>2, <2>3
<1> QED BY <1>1, <1>3, <1>4, <1>5 DEF At

\* What lies in a part of the data lies in the data.
LEMMA AtTransitive ==
    ASSUME NEW piece, Size(piece) \in Nat, NEW whole, Size(whole) \in Nat,
           NEW data, Size(data) \in Nat, NEW offset \in Nat,
           At(whole, offset, piece), At(data, 0, whole)
    PROVE  At(data, offset, piece)
<1>1. ASSUME NEW i \in 1 .. Size(piece) PROVE data[offset + i] = piece[i]
  <2>1. offset + i \in 1 .. Size(whole) /\ 0 + (offset + i) = offset + i BY DEF At
  <2> QED BY <2>1 DEF At
<1>2. offset + Size(piece) <= Size(data) BY DEF At
<1> QED BY <1>1, <1>2 DEF At

\* Four pieces written one after the other.
LEMMA FourAt ==
    ASSUME NEW s \in ByteString, NEW t \in ByteString, NEW u \in ByteString,
           NEW v \in ByteString,
           NEW data, Size(data) \in Nat, NEW offset \in Nat,
           At(data, offset, s \o t \o u \o v)
    PROVE  /\ At(data, offset, s) /\ At(data, offset + Size(s), t)
           /\ At(data, offset + Size(s) + Size(t), u)
           /\ At(data, offset + Size(s) + Size(t) + Size(u), v)
<1> DEFINE a == s \o t
           b == a \o u
<1>1. a \in ByteString /\ Size(a) = Size(s) + Size(t) BY ConcatSize
<1>2. At(data, offset, a) => At(data, offset, s) /\ At(data, offset + Size(s), t)
  BY ConcatAt
<1> HIDE DEF a
<1>3. b \in ByteString /\ Size(b) = Size(a) + Size(u) BY <1>1, ConcatSize
<1>4. At(data, offset, b) => At(data, offset, a) /\ At(data, offset + Size(a), u)
  BY <1>1, ConcatAt
<1> HIDE DEF b
<1>6. At(data, offset, b \o v) BY DEF a, b
<1>7. At(data, offset, b) /\ At(data, offset + Size(b), v) BY <1>3, <1>6, ConcatAt
<1>8. /\ At(data, offset, a) /\ At(data, offset + Size(a), u)
      /\ At(data, offset, s) /\ At(data, offset + Size(s), t)
  BY <1>2, <1>4, <1>7
<1>9. Size(s) \in Nat /\ Size(t) \in Nat /\ Size(u) \in Nat BY ConcatSize
<1>10. /\ offset + Size(a) = offset + Size(s) + Size(t)
       /\ offset + Size(b) = offset + Size(s) + Size(t) + Size(u)
  BY <1>1, <1>3, <1>9
<1> QED BY <1>7, <1>8, <1>10

\* What the buffers of a loop of writes are, each from the one before.
Written(written, buffer, pieces) ==
    /\ written[0] = buffer
    /\ \A i \in 1 .. Len(pieces) : written[i] = written[i - 1] \o pieces[i]

\* The buffer is defined for every number of rounds.
LEMMA WritesUnfold ==
    ASSUME NEW buffer, NEW pieces, Len(pieces) \in Nat
    PROVE  Written(Writes(buffer, pieces), buffer, pieces)
<1> DEFINE W(n, f) == f = [i \in 0 .. n |-> IF i = 0 THEN buffer ELSE f[i - 1] \o pieces[i]]
           T == {n \in 0 .. Len(pieces) : \E f : W(n, f)}
           last == Len(pieces)
<1>1. 0 \in T
  <2> DEFINE f == [i \in 0 .. 0 |-> buffer]
  <2>1. f = [i \in 0 .. 0 |-> IF i = 0 THEN buffer ELSE f[i - 1] \o pieces[i]] OBVIOUS
  <2>2. \E h : W(0, h) BY <2>1
  <2> QED BY <2>2
<1>2. ASSUME NEW n \in 1 .. last, n - 1 \in T PROVE n \in T
  <2>1. PICK f : W(n - 1, f) BY <1>2
  <2> DEFINE g == [i \in 0 .. n |-> IF i = n THEN f[n - 1] \o pieces[n] ELSE f[i]]
  <2>2. ASSUME NEW i \in 0 .. n
        PROVE  g[i] = IF i = 0 THEN buffer ELSE g[i - 1] \o pieces[i]
    <3>1. CASE i = n BY <3>1
    <3>2. CASE i # n
      <4>1. i \in 0 .. n - 1 BY <3>2
      <4>2. f[i] = IF i = 0 THEN buffer ELSE f[i - 1] \o pieces[i] BY <2>1, <4>1
      <4>3. g[i] = f[i] /\ (i # 0 => g[i - 1] = f[i - 1]) BY <3>2, <4>1
      <4> QED BY <4>2, <4>3
    <3> QED BY <3>1, <3>2
  <2>3. g = [i \in 0 .. n |-> IF i = 0 THEN buffer ELSE g[i - 1] \o pieces[i]] BY <2>2
  <2>4. \E h : W(n, h) BY <2>3
  <2> QED BY <2>4
<1>3. last \in T
  <2> HIDE DEF T
  <2>1. 0 .. last \subseteq T BY <1>1, <1>2, UpTo0
  <2> QED BY <2>1
<1>4. \E f : W(last, f) BY <1>3
<1> DEFINE w == CHOOSE f : W(last, f)
<1>5. W(last, w)
  <2> HIDE DEF W
  <2> QED BY <1>4
<1>6. Writes(buffer, pieces) = w BY DEF Writes
<1>7. w[0] = buffer /\ \A i \in 1 .. last : w[i] = w[i - 1] \o pieces[i]
  <2> HIDE DEF w
  <2> QED BY <1>5
<1> QED BY <1>6, <1>7 DEF Written

\* Equal bytes in a row.
LEMMA BytesType ==
    ASSUME NEW n \in Nat, NEW byte \in Byte
    PROVE  Bytes(n, byte) \in ByteString /\ Size(Bytes(n, byte)) = n
BY DEF Bytes, Size, ByteString

\* Each of them is the byte.
LEMMA BytesAre ==
    ASSUME NEW n \in Nat, NEW byte, NEW i \in 1 .. n
    PROVE  Bytes(n, byte)[i] = byte
BY DEF Bytes

\* The fields of an entry have the sizes that the format gives them.
LEMMA EntryFields ==
    ASSUME NEW e \in IndexEntry
    PROVE  /\ e.length \in Nat /\ e.length > 0 /\ e.fill \in Byte
           /\ e.stage \in {0, 2, 3} /\ e.extended \in BOOLEAN
           /\ Flags(e) \in Nat /\ Flags(e) < 16384 /\ Flags(e) \div 4096 = e.stage
<1>1. /\ e.length \in Nat /\ e.length > 0 /\ e.fill \in Byte
      /\ e.stage \in {0, 2, 3} /\ e.extended \in BOOLEAN
  <2>1. /\ e.length \in Lengths /\ e.fill \in Fills
        /\ e.stage \in {0, 2, 3} /\ e.extended \in BOOLEAN
    BY DEF IndexEntry
  <2>2. Lengths \subseteq Nat \ {0} BY CodecAssumption
  <2>3. Fills \subseteq Byte BY CodecAssumption DEF Byte
  <2>3a. e.length \in Nat \ {0} BY <2>1, <2>2, Zenon
  <2>4. e.length \in Nat /\ e.length > 0 BY <2>3a
  <2>5. e.fill \in Byte BY <2>1, <2>3
  <2> QED BY <2>1, <2>4, <2>5
<1> DEFINE m == Min({e.length, 4095})
<1>2. m \in Nat /\ m <= 4095
  <2>1. \E x \in {e.length, 4095} : \A y \in {e.length, 4095} : x <= y
    <3>1. CASE e.length <= 4095 BY <1>1, <3>1
    <3>2. CASE ~(e.length <= 4095) BY <1>1, <3>2
    <3> QED BY <3>1, <3>2
  <2>2. m \in {e.length, 4095} /\ \A y \in {e.length, 4095} : m <= y BY <2>1 DEF Min
  <2> HIDE DEF m
  <2> QED BY <1>1, <2>2
<1>3. Flags(e) = e.stage * 4096 + m BY DEF Flags
<1> HIDE DEF m
<1>4. \A x \in Nat : x <= 4095 =>
         /\ (0 * 4096 + x) \div 4096 = 0
         /\ (2 * 4096 + x) \div 4096 = 2
         /\ (3 * 4096 + x) \div 4096 = 3
  BY SMT
<1>5. Flags(e) \in Nat /\ Flags(e) < 16384 BY <1>1, <1>2, <1>3, SMT
<1>6. Flags(e) \div 4096 = e.stage BY <1>1, <1>2, <1>3, <1>4, SMT
<1> QED BY <1>1, <1>5, <1>6

\* The padding is less than a block of eight.
LEMMA PadSize ==
    ASSUME NEW n \in Nat
    PROVE  Pad(n) \in Nat /\ Pad(n) < 8
BY DEF Pad

\* A field of two bytes.
LEMMA Uint16Type ==
    ASSUME NEW n \in Nat, n < 65536
    PROVE  /\ Uint16(n) \in ByteString /\ Size(Uint16(n)) = 2
           /\ 256 * Uint16(n)[1] + Uint16(n)[2] = n
<1> DEFINE a == (n \div 256) % 256
           b == n % 256
<1>1. a \in Byte /\ b \in Byte /\ 256 * a + b = n BY Uint16Field
<1> HIDE DEF a, b
<1>2. Uint16(n) = <<a, b>> BY DEF Uint16, a, b
<1> QED BY <1>1, <1>2 DEF Size, ByteString

\* The NUL that ends a path.
NUL == <<0>>

\* It is one byte, zero.
LEMMA NulType ==
    NUL \in ByteString /\ Size(NUL) = 1 /\ NUL[1] = 0
BY DEF NUL, Byte, Size, ByteString

\* The end of an entry: the path, which has no NUL, the NUL, and the padding.
LEMMA PathAt ==
    ASSUME NEW fixed \in ByteString, NEW length \in Nat,
           NEW path \in ByteString, Size(path) = length, \A i \in 1 .. length : path[i] = 97,
           NEW zeros \in ByteString, NEW data, Size(data) \in Nat, NEW offset \in Nat,
           At(data, offset, fixed \o path \o NUL \o zeros)
    PROVE  /\ At(data, offset, fixed)
           /\ \A i \in 1 .. length : data[offset + Size(fixed) + i] = 97
           /\ data[offset + Size(fixed) + length + 1] = 0
<1>1. NUL \in ByteString BY NulType
<1>2. /\ At(data, offset, fixed) /\ At(data, offset + Size(fixed), path)
      /\ At(data, offset + Size(fixed) + Size(path), NUL)
  BY <1>1, FourAt
<1>3. ASSUME NEW i \in 1 .. length PROVE data[offset + Size(fixed) + i] = 97
  <2>1. data[offset + Size(fixed) + i] = path[i] BY <1>2, ByteAt
  <2> QED BY <2>1
<1>4. data[offset + Size(fixed) + length + 1] = 0
  <2>1. 1 \in 1 .. Size(NUL) BY NulType
  <2>2. data[offset + Size(fixed) + Size(path) + 1] = NUL[1] BY <1>2, <2>1, ByteAt
  <2> QED BY <2>2, NulType
<1> QED BY <1>2, <1>3, <1>4

\* The fixed part: sixty bytes, the flags after them, whatever follows.
LEMMA FixedAt ==
    ASSUME NEW s \in ByteString, Size(s) = 60, NEW t \in ByteString, Size(t) = 2,
           NEW data, Size(data) \in Nat, NEW offset \in Nat, At(data, offset, s \o t)
    PROVE  data[offset + 1] = s[1] /\ Uint16At(data, offset + 60) = 256 * t[1] + t[2]
<1>1. At(data, offset, s) /\ At(data, offset + Size(s), t) BY ConcatAt
<1>2. 1 \in 1 .. Size(s) /\ 1 \in 1 .. Size(t) /\ 2 \in 1 .. Size(t) OBVIOUS
<1>3. data[offset + 1] = s[1] BY <1>1, <1>2, ByteAt
<1>4. data[offset + Size(s) + 1] = t[1] /\ data[offset + Size(s) + 2] = t[2]
  BY <1>1, <1>2, ByteAt
<1> QED BY <1>3, <1>4 DEF Uint16At

\* The size of an entry without its padding.
Unpadded(e) == (IF e.extended THEN 64 ELSE 62) + e.length + 1

\* What an entry holds where the reader looks.
EntryAt(data, offset, e) ==
    LET start == offset + (IF e.extended THEN 64 ELSE 62)
    IN /\ data[offset + 1] = e.fill
       /\ Uint16At(data, offset + 60) = Flags(e) + (IF e.extended THEN 16384 ELSE 0)
       /\ \A i \in 1 .. e.length : data[start + i] = 97
       /\ data[start + e.length + 1] = 0

\* So reads the one that kitcat writes.
LEMMA WriteEntryAt ==
    ASSUME NEW e \in IndexEntry, ~e.extended
    PROVE  /\ WriteEntry(e) \in ByteString
           /\ Size(WriteEntry(e)) = Unpadded(e) + Pad(Unpadded(e))
           /\ \A data : \A offset \in Nat :
                Size(data) \in Nat /\ At(data, offset, WriteEntry(e)) => EntryAt(data, offset, e)
<1> DEFINE fill == e.fill
           length == e.length
           flags == Flags(e)
           pad == Pad(62 + e.length + 1)
           s == Bytes(60, fill)
           t == Uint16(flags)
           fixed == s \o t
           path == Bytes(length, 97)
           zeros == Bytes(pad, 0)
<1>1. length \in Nat /\ fill \in Byte /\ flags \in Nat /\ flags < 65536 BY EntryFields
<1>2. 97 \in Byte /\ 0 \in Byte /\ 60 \in Nat BY DEF Byte
<1>3. Unpadded(e) = 62 + length + 1 BY DEF Unpadded
<1>4. pad \in Nat
  <2>1. 62 + length + 1 \in Nat BY <1>1
  <2> QED BY <2>1, PadSize
<1>5. WriteEntry(e) = fixed \o path \o NUL \o zeros BY DEF WriteEntry, NUL
<1>6. pad = Pad(Unpadded(e)) BY <1>3
<1> HIDE DEF fill, length, flags, pad
<1>7. s \in ByteString /\ Size(s) = 60 BY <1>1, <1>2, BytesType
<1>8. s[1] = fill BY DEF Bytes
<1>9. t \in ByteString /\ Size(t) = 2 /\ 256 * t[1] + t[2] = flags BY <1>1, Uint16Type
<1>10. path \in ByteString /\ Size(path) = length BY <1>1, <1>2, BytesType
<1>11. \A i \in 1 .. length : path[i] = 97 BY <1>1, BytesAre
<1>12. zeros \in ByteString /\ Size(zeros) = pad BY <1>2, <1>4, BytesType
<1> HIDE DEF s, t, path, zeros
<1>13. fixed \in ByteString BY <1>7, <1>9, ConcatSize
<1>16. Size(fixed) = 62 BY <1>7, <1>9, ConcatSize
<1>14. ASSUME NEW data, Size(data) \in Nat, NEW offset \in Nat, At(data, offset, WriteEntry(e))
       PROVE  EntryAt(data, offset, e)
  <2>0. Size(data) \in Nat /\ offset \in Nat BY <1>14
  <2>1. At(data, offset, fixed \o path \o NUL \o zeros) BY <1>5, <1>14
  <2>2. /\ At(data, offset, fixed)
        /\ \A i \in 1 .. length : data[offset + Size(fixed) + i] = 97
        /\ data[offset + Size(fixed) + length + 1] = 0
    <3> HIDE DEF fixed
    <3> QED BY <1>1, <1>10, <1>11, <1>12, <1>13, <2>0, <2>1, PathAt
  <2>3. data[offset + 1] = s[1] /\ Uint16At(data, offset + 60) = 256 * t[1] + t[2]
    <3>1. t \in ByteString /\ Size(t) = 2 BY <1>9
    <3>2. At(data, offset, s \o t) BY <2>2
    <3> HIDE DEF fixed
    <3> QED BY <1>7, <1>14, <3>1, <3>2, FixedAt
  <2> HIDE DEF fixed
  <2>4. Uint16At(data, offset + 60) = flags + 0 BY <1>1, <1>9, <2>3
  <2>5. /\ \A i \in 1 .. length : data[offset + 62 + i] = 97
        /\ data[offset + 62 + length + 1] = 0
    BY <1>16, <2>2
  <2> QED BY <1>8, <2>3, <2>4, <2>5 DEF EntryAt, fill, length, flags
<1>15. WriteEntry(e) \in ByteString /\ Size(WriteEntry(e)) = Unpadded(e) + Pad(Unpadded(e))
  <2> HIDE DEF fixed
  <2> DEFINE a == fixed \o path
             b == a \o NUL
  <2>1. a \in ByteString /\ Size(a) = 62 + length BY <1>10, <1>13, <1>16, ConcatSize
  <2> HIDE DEF a
  <2>2. b \in ByteString /\ Size(b) = 62 + length + 1 BY <2>1, NulType, ConcatSize
  <2>3. WriteEntry(e) = b \o zeros BY <1>5 DEF a
  <2> HIDE DEF b
  <2>4. b \o zeros \in ByteString /\ Size(b \o zeros) = Size(b) + Size(zeros)
    BY <1>12, <2>2, ConcatSize
  <2> QED BY <1>3, <1>6, <1>12, <2>2, <2>3, <2>4
<1> QED BY <1>14, <1>15

\* The second field of flags that git writes.
MORE == <<64, 0>>

\* It is two bytes.
LEMMA MoreType ==
    MORE \in ByteString /\ Size(MORE) = 2
BY DEF MORE, Byte, Size, ByteString

\* So reads the one that git writes.
LEMMA ExtendedEntryAt ==
    ASSUME NEW e \in IndexEntry, e.extended
    PROVE  /\ ExtendedEntry(e) \in ByteString
           /\ Size(ExtendedEntry(e)) = Unpadded(e) + Pad(Unpadded(e))
           /\ \A data : \A offset \in Nat :
                Size(data) \in Nat /\ At(data, offset, ExtendedEntry(e)) => EntryAt(data, offset, e)
<1> DEFINE fill == e.fill
           length == e.length
           flags == Flags(e) + 16384
           pad == Pad(64 + e.length + 1)
           s == Bytes(60, fill)
           t == Uint16(flags)
           head == s \o t
           fixed == head \o MORE
           path == Bytes(length, 97)
           zeros == Bytes(pad, 0)
<1>1. length \in Nat /\ fill \in Byte /\ flags \in Nat /\ flags < 65536
  <2>1. Flags(e) \in Nat /\ Flags(e) < 16384 BY EntryFields
  <2>2. flags \in Nat /\ flags < 65536 BY <2>1, SMT
  <2> QED BY <2>2, EntryFields
<1>2. 97 \in Byte /\ 0 \in Byte /\ 60 \in Nat BY DEF Byte
<1>3. Unpadded(e) = 64 + length + 1 BY DEF Unpadded
<1>4. pad \in Nat
  <2>1. 64 + length + 1 \in Nat BY <1>1
  <2> QED BY <2>1, PadSize
<1>5. ExtendedEntry(e) = fixed \o path \o NUL \o zeros BY DEF ExtendedEntry, NUL, MORE
<1>6. pad = Pad(Unpadded(e)) BY <1>3
<1>6a. flags = Flags(e) + (IF e.extended THEN 16384 ELSE 0) OBVIOUS
<1> HIDE DEF fill, length, flags, pad
<1>7. s \in ByteString /\ Size(s) = 60 BY <1>1, <1>2, BytesType
<1>8. s[1] = fill BY DEF Bytes
<1>9. t \in ByteString /\ Size(t) = 2 /\ 256 * t[1] + t[2] = flags BY <1>1, Uint16Type
<1>10. path \in ByteString /\ Size(path) = length BY <1>1, <1>2, BytesType
<1>11. \A i \in 1 .. length : path[i] = 97 BY <1>1, BytesAre
<1>12. zeros \in ByteString /\ Size(zeros) = pad BY <1>2, <1>4, BytesType
<1> HIDE DEF s, t, path, zeros
<1>13. head \in ByteString /\ Size(head) = 62 BY <1>7, <1>9, ConcatSize
<1>14. ASSUME NEW data, Size(data) \in Nat, NEW offset \in Nat, At(data, offset, head)
       PROVE  data[offset + 1] = fill /\ Uint16At(data, offset + 60) = flags
  <2>1. t \in ByteString /\ Size(t) = 2 BY <1>9
  <2>2. At(data, offset, s \o t) BY <1>14
  <2> HIDE DEF head
  <2>3. data[offset + 1] = s[1] /\ Uint16At(data, offset + 60) = 256 * t[1] + t[2]
    BY <1>7, <1>14, <2>1, <2>2, FixedAt
  <2> QED BY <1>8, <1>9, <2>3
<1> HIDE DEF head
<1>15. fixed \in ByteString /\ Size(fixed) = 64 BY <1>13, MoreType, ConcatSize
<1>15a. fixed \in ByteString BY <1>15
<1>16. ASSUME NEW data, Size(data) \in Nat, NEW offset \in Nat, At(data, offset, fixed)
       PROVE  data[offset + 1] = fill /\ Uint16At(data, offset + 60) = flags
  <2>1. At(data, offset, head) BY <1>13, <1>16, MoreType, ConcatAt
  <2> QED BY <1>14, <1>16, <2>1
<1> HIDE DEF fixed
<1>17. ASSUME NEW data, Size(data) \in Nat, NEW offset \in Nat, At(data, offset, ExtendedEntry(e))
       PROVE  EntryAt(data, offset, e)
  <2>1. At(data, offset, fixed \o path \o NUL \o zeros) BY <1>5, <1>17
  <2>2. /\ At(data, offset, fixed)
        /\ \A i \in 1 .. length : data[offset + Size(fixed) + i] = 97
        /\ data[offset + Size(fixed) + length + 1] = 0
    BY <1>1, <1>10, <1>11, <1>12, <1>15a, <1>17, <2>1, PathAt
  <2>3. data[offset + 1] = fill /\ Uint16At(data, offset + 60) = flags
    BY <1>16, <1>17, <2>2
  <2>4. /\ \A i \in 1 .. length : data[offset + 64 + i] = 97
        /\ data[offset + 64 + length + 1] = 0
    BY <1>15, <2>2
  <2> QED BY <1>6a, <2>3, <2>4 DEF EntryAt, fill, length
<1>18. ExtendedEntry(e) \in ByteString /\ Size(ExtendedEntry(e)) = Unpadded(e) + Pad(Unpadded(e))
  <2> DEFINE a == fixed \o path
             b == a \o NUL
  <2>1. a \in ByteString /\ Size(a) = 64 + length BY <1>10, <1>15, ConcatSize
  <2> HIDE DEF a
  <2>2. b \in ByteString /\ Size(b) = 64 + length + 1 BY <2>1, NulType, ConcatSize
  <2>3. ExtendedEntry(e) = b \o zeros BY <1>5 DEF a
  <2> HIDE DEF b
  <2>4. b \o zeros \in ByteString /\ Size(b \o zeros) = Size(b) + Size(zeros)
    BY <1>12, <2>2, ConcatSize
  <2> QED BY <1>3, <1>6, <1>12, <2>2, <2>3, <2>4
<1> QED BY <1>17, <1>18

\* Either entry: as many bytes as its size says, and each where it is read.
LEMMA EntryBytesAt ==
    ASSUME NEW e \in IndexEntry
    PROVE  /\ EntryBytes(e) \in ByteString
           /\ Size(EntryBytes(e)) = Unpadded(e) + Pad(Unpadded(e))
           /\ \A data : \A offset \in Nat :
                Size(data) \in Nat /\ At(data, offset, EntryBytes(e)) => EntryAt(data, offset, e)
<1>1. CASE e.extended
  <2>1. EntryBytes(e) = ExtendedEntry(e) BY <1>1 DEF EntryBytes
  <2> QED BY <1>1, <2>1, ExtendedEntryAt
<1>2. CASE ~e.extended
  <2>1. EntryBytes(e) = WriteEntry(e) BY <1>2 DEF EntryBytes
  <2> QED BY <1>2, <2>1, WriteEntryAt
<1> QED BY <1>1, <1>2

\* The flags of an entry give the stage back, and the bit above it.
LEMMA FlagBits ==
    ASSUME NEW e \in IndexEntry, NEW flags,
           flags = Flags(e) + (IF e.extended THEN 16384 ELSE 0)
    PROVE  /\ (flags \div 4096) % 4 = e.stage
           /\ e.extended => (flags \div 16384) % 2 = 1
           /\ ~e.extended => (flags \div 16384) % 2 = 0
<1> DEFINE f == Flags(e)
<1>1. f \in Nat /\ f < 16384 /\ f \div 4096 = e.stage /\ e.stage \in {0, 2, 3}
  BY EntryFields
<1>1a. flags = f + (IF e.extended THEN 16384 ELSE 0) OBVIOUS
<1> HIDE DEF f
<1>2. (f \div 16384) % 2 = 0 /\ ((f + 16384) \div 16384) % 2 = 1 BY <1>1, SMT
<1>3. (f + 16384) \div 4096 = (f \div 4096) + 4 BY <1>1, SMT
<1>4. (f \div 4096) % 4 = e.stage BY <1>1, SMT
<1>5. ((f + 16384) \div 4096) % 4 = e.stage BY <1>1, <1>3, SMT
<1>6. CASE e.extended
  <2>1. flags = f + 16384 BY <1>1a, <1>6
  <2>2. (flags \div 4096) % 4 = e.stage /\ (flags \div 16384) % 2 = 1 BY <1>2, <1>5, <2>1
  <2> QED BY <1>6, <2>2
<1>7. CASE ~e.extended
  <2>1. flags = f BY <1>1, <1>1a, <1>7
  <2>2. (flags \div 4096) % 4 = e.stage /\ (flags \div 16384) % 2 = 0 BY <1>2, <1>4, <2>1
  <2> QED BY <1>7, <2>2
<1> QED BY <1>6, <1>7

\* The least of the numbers from which a property holds of is found.
LEMMA MinIs ==
    ASSUME NEW S \in SUBSET Nat, NEW n \in S, \A m \in S : n <= m
    PROVE  Min(S) = n
<1>1. \E x \in S : \A y \in S : x <= y OBVIOUS
<1>2. Min(S) \in S /\ \A y \in S : Min(S) <= y BY <1>1 DEF Min
<1> DEFINE m == Min(S)
<1> HIDE DEF m
<1>3. m \in S /\ m <= n /\ n <= m BY <1>2 DEF m
<1>4. m = n BY <1>3
<1> QED BY <1>4 DEF m

\* What the rounds of the reader leave when none of them stopped.
Progress(offset, es) == [offset |-> offset, entries |-> es, ok |-> TRUE]

\* A round reads an entry: it adds the entry, and goes on where its bytes end.
Reads(data, offset, e) ==
    \A es : ReadEntry(data, Progress(offset, es))
              = Progress(offset + Size(EntryBytes(e)), Append(es, e))

\* It does so where the bytes of an entry lie.
LEMMA ReadEntryBytes ==
    ASSUME NEW e \in IndexEntry, NEW data, Size(data) \in Nat, NEW offset \in Nat,
           At(data, offset, EntryBytes(e))
    PROVE  Reads(data, offset, e)
<1> SUFFICES ASSUME NEW es, NEW r, r = Progress(offset, es)
             PROVE  ReadEntry(data, r) = Progress(offset + Size(EntryBytes(e)), Append(es, e))
  BY DEF Reads
<1> DEFINE flags == Uint16At(data, r.offset + 60)
           extended == (flags \div 16384) % 2 = 1
           start == r.offset + (IF extended THEN 64 ELSE 62)
           nuls == {i \in start + 1 .. Len(data) : data[i] = 0}
           nul == Min(nuls)
           end == nul + Pad(nul - r.offset)
           entry == [length |-> nul - 1 - start, stage |-> (flags \div 4096) % 4,
                     fill |-> data[r.offset + 1], extended |-> extended]
           room == IF e.extended THEN 64 ELSE 62
           pad == Pad(Unpadded(e))
<1>1. ReadEntry(data, r) =
        IF ~r.ok \/ r.offset + 62 > Len(data) \/ start > Len(data) \/ nuls = {} \/ end > Len(data)
        THEN Stopped
        ELSE [offset |-> end, entries |-> Append(r.entries, entry), ok |-> TRUE]
  BY DEF ReadEntry
<1>2. r.offset = offset /\ r.entries = es /\ r.ok = TRUE BY DEF Progress
<1>3. /\ EntryAt(data, offset, e)
      /\ Size(EntryBytes(e)) = Unpadded(e) + pad
      /\ offset + Size(EntryBytes(e)) <= Size(data)
  BY EntryBytesAt DEF At
<1>4. /\ e.length \in Nat /\ e.length > 0 /\ e.extended \in BOOLEAN
      /\ room \in Nat /\ 62 <= room
  BY EntryFields
<1>5. flags = Flags(e) + (IF e.extended THEN 16384 ELSE 0) /\ data[r.offset + 1] = e.fill
  BY <1>2, <1>3 DEF EntryAt
<1>6. /\ (flags \div 4096) % 4 = e.stage
      /\ e.extended => (flags \div 16384) % 2 = 1
      /\ ~e.extended => (flags \div 16384) % 2 = 0
  <2> HIDE DEF flags
  <2> QED BY <1>5, FlagBits
<1>7. extended = e.extended
  <2> HIDE DEF flags
  <2>1. e.extended => extended BY <1>6
  <2>2. ~e.extended => ~extended BY <1>6
  <2>3. extended \in BOOLEAN OBVIOUS
  <2> HIDE DEF extended
  <2> QED BY <1>4, <2>1, <2>2, <2>3, Zenon
<1>8. start = offset + room
  <2> HIDE DEF extended
  <2> QED BY <1>2, <1>7
<1>9. Unpadded(e) = room + e.length + 1 /\ Unpadded(e) \in Nat BY <1>4 DEF Unpadded
<1>10. pad \in Nat BY <1>9, PadSize
<1>11. /\ \A i \in 1 .. e.length : data[offset + room + i] = 97
       /\ data[offset + room + e.length + 1] = 0
  BY <1>3 DEF EntryAt
<1>12. offset + Unpadded(e) + pad <= Len(data) /\ Len(data) \in Nat
  <2> HIDE DEF pad
  <2> QED BY <1>3, <1>9, <1>10 DEF Size
<1> DEFINE end0 == offset + Unpadded(e)
<1> HIDE DEF room, pad, extended, start, flags
<1>13. end0 \in nuls
  <2> DEFINE n == Len(data)
             length == e.length
             size == Unpadded(e)
  <2>1. /\ length \in Nat /\ length > 0 /\ room \in Nat /\ size = room + length + 1
        /\ pad \in Nat /\ n \in Nat /\ offset + size + pad <= n /\ start = offset + room
    BY <1>4, <1>8, <1>9, <1>10, <1>12
  <2>2. data[offset + room + length + 1] = 0 BY <1>11
  <2> HIDE DEF n, length, size
  <2>3. offset + size \in start + 1 .. n /\ offset + size = offset + room + length + 1
    BY <2>1
  <2>4. data[offset + size] = 0 BY <2>2, <2>3
  <2> QED BY <2>3, <2>4 DEF n, size
<1>13a. nul = end0
  <2>2. ASSUME NEW i \in nuls PROVE end0 <= i
    <3>1. i \in start + 1 .. Len(data) /\ data[i] = 0 OBVIOUS
    <3>2. SUFFICES ASSUME ~(end0 <= i) PROVE FALSE OBVIOUS
    <3> DEFINE k == i - (offset + room)
    <3>3. k \in 1 .. e.length /\ offset + room + k = i
      BY <1>4, <1>8, <1>9, <1>12, <3>1, <3>2
    <3> HIDE DEF k
    <3>4. data[i] = 97 BY <1>11, <3>3
    <3> QED BY <3>1, <3>4
  <2>3. nuls \in SUBSET Nat BY <1>4, <1>8, <1>12
  <2> HIDE DEF nuls, end0
  <2> QED BY <1>13, <2>2, <2>3, MinIs
<1>14. nuls # {} /\ nul \in Nat /\ nul - r.offset = Unpadded(e) /\ nul - 1 - start = e.length
  <2> HIDE DEF nuls, nul
  <2> QED BY <1>2, <1>4, <1>8, <1>9, <1>13, <1>13a
<1> HIDE DEF nuls, nul
<1>15. end = offset + Unpadded(e) + pad BY <1>13a, <1>14 DEF pad
<1> HIDE DEF end
<1>16. entry = e
  <2>1. e = [length |-> e.length, stage |-> e.stage, fill |-> e.fill, extended |-> e.extended]
    BY DEF IndexEntry
  <2> QED BY <1>5, <1>6, <1>7, <1>14, <2>1
<1> HIDE DEF entry
<1>17. ~(r.offset + 62 > Len(data)) /\ ~(start > Len(data)) /\ ~(end > Len(data))
  <2> DEFINE n == Len(data)
             length == e.length
             size == Unpadded(e)
  <2>1. /\ length \in Nat /\ room \in Nat /\ 62 <= room /\ size = room + length + 1
        /\ pad \in Nat /\ n \in Nat /\ offset + size + pad <= n
    BY <1>4, <1>9, <1>10, <1>12
  <2>2. r.offset = offset /\ start = offset + room /\ end = offset + size + pad
    BY <1>2, <1>8, <1>15
  <2> HIDE DEF n, length, size
  <2>3. ~(offset + 62 > n) /\ ~(offset + room > n) /\ ~(offset + size + pad > n) BY <2>1
  <2> QED BY <2>2, <2>3 DEF n
<1>18. end = offset + Size(EntryBytes(e)) BY <1>3, <1>9, <1>10, <1>15
<1>19. ReadEntry(data, r) = [offset |-> end, entries |-> Append(es, e), ok |-> TRUE]
  BY <1>1, <1>2, <1>14, <1>16, <1>17, Zenon
<1> QED BY <1>18, <1>19 DEF Progress

\* A version fits.
LEMMA VersionFits ==
    3 <= MaxInt32
BY SMT DEF MaxInt32

\* A field of four bytes is read where it lies.
LEMMA Uint32FieldAt ==
    ASSUME NEW n \in 0 .. MaxInt32
    PROVE  /\ Uint32(n) \in ByteString /\ Size(Uint32(n)) = 4
           /\ \A data : \A offset \in Nat : At(data, offset, Uint32(n)) => Uint32At(data, offset) = n
<1> DEFINE u == Uint32(n)
<1>1. /\ Size(u) = 4 /\ u \in ByteString
      /\ 16777216 * u[1] + 65536 * u[2] + 256 * u[3] + u[4] = n
  BY Uint32Field DEF Size, ByteString
<1> HIDE DEF u
<1>2. ASSUME NEW data, NEW offset \in Nat, At(data, offset, u) PROVE Uint32At(data, offset) = n
  <2>1. 1 \in 1 .. Size(u) /\ 2 \in 1 .. Size(u) /\ 3 \in 1 .. Size(u) /\ 4 \in 1 .. Size(u)
    BY <1>1
  <2>2. /\ data[offset + 1] = u[1] /\ data[offset + 2] = u[2]
        /\ data[offset + 3] = u[3] /\ data[offset + 4] = u[4]
    BY <1>2, <2>1, ByteAt
  <2> QED BY <1>1, <2>2 DEF Uint32At
<1> QED BY <1>1, <1>2 DEF u

\* The signature is four bytes.
LEMMA SignatureType ==
    DIRC \in ByteString /\ Size(DIRC) = 4
BY DEF DIRC, Byte, Size, ByteString

\* The header is read as it was written.
LEMMA HeaderAt ==
    ASSUME NEW es, Len(es) \in 0 .. MaxInt32
    PROVE  /\ Header(es) \in ByteString /\ Size(Header(es)) = 12
           /\ \A data : Size(data) \in Nat /\ At(data, 0, Header(es)) =>
                 /\ At(data, 0, DIRC)
                 /\ Uint32At(data, 4) \in 2 .. 3 /\ Uint32At(data, 8) = Len(es)
<1> DEFINE version == IF \E i \in DOMAIN es : es[i].extended THEN 3 ELSE 2
           v == Uint32(version)
           c == Uint32(Len(es))
           head == DIRC \o v
<1>1. version \in 2 .. 3 OBVIOUS
<1>2. Header(es) = head \o c BY DEF Header
<1> HIDE DEF version
<1>3. version \in 0 .. MaxInt32
  <2>1. 3 <= MaxInt32 /\ MaxInt32 \in Nat BY VersionFits, HighByte
  <2> QED BY <1>1, <2>1
<1>4. /\ v \in ByteString /\ Size(v) = 4
      /\ \A data : \A offset \in Nat : At(data, offset, v) => Uint32At(data, offset) = version
  BY <1>3, Uint32FieldAt
<1>5. /\ c \in ByteString /\ Size(c) = 4
      /\ \A data : \A offset \in Nat : At(data, offset, c) => Uint32At(data, offset) = Len(es)
  BY Uint32FieldAt
<1> HIDE DEF v, c
<1>6. head \in ByteString /\ Size(head) = 8 BY <1>4, SignatureType, ConcatSize
<1>7. ASSUME NEW data, Size(data) \in Nat, At(data, 0, head)
      PROVE  At(data, 0, DIRC) /\ At(data, 4, v)
  <2>1. At(data, 0, DIRC) /\ At(data, 0 + Size(DIRC), v)
    <3>1. v \in ByteString BY <1>4
    <3>2. DIRC \in ByteString BY SignatureType
    <3> QED BY <1>7, <3>1, <3>2, ConcatAt
  <2>2. 0 + Size(DIRC) = 4 BY SignatureType
  <2> QED BY <2>1, <2>2
<1> HIDE DEF head
<1>8. Header(es) \in ByteString /\ Size(Header(es)) = 12 BY <1>2, <1>5, <1>6, ConcatSize
<1>9. ASSUME NEW data, Size(data) \in Nat, At(data, 0, Header(es))
      PROVE  /\ At(data, 0, DIRC)
             /\ Uint32At(data, 4) \in 2 .. 3 /\ Uint32At(data, 8) = Len(es)
  <2>1. At(data, 0, head) /\ At(data, 0 + Size(head), c)
    <3>1. c \in ByteString /\ head \in ByteString BY <1>5, <1>6
    <3>2. At(data, 0, head \o c) BY <1>2, <1>9
    <3> QED BY <1>9, <3>1, <3>2, ConcatAt
  <2>2. 0 + Size(head) = 8 BY <1>6
  <2>3. At(data, 8, c) BY <2>1, <2>2
  <2>4. At(data, 0, DIRC) /\ At(data, 4, v) BY <1>7, <1>9, <2>1
  <2> QED BY <1>1, <1>4, <1>5, <2>3, <2>4
<1> QED BY <1>8, <1>9

\* The signature of an extension block.
TREE == <<84, 82, 69, 69>>

\* It is four bytes.
LEMMA TreeType ==
    TREE \in ByteString /\ Size(TREE) = 4
BY DEF TREE, Byte, Size, ByteString

\* A block is eight bytes and its payload, whose length is read where it lies.
LEMMA BlockAt ==
    ASSUME NEW length \in Extensions
    PROVE  /\ length \in Nat /\ Block(length) \in ByteString /\ Size(Block(length)) = 8 + length
           /\ \A data : \A offset \in Nat :
                Size(data) \in Nat /\ At(data, offset, Block(length)) =>
                   Uint32At(data, offset + 4) = length
<1> DEFINE u == Uint32(length)
           payload == Bytes(length, 255)
           head == TREE \o u
<1>1. length \in Nat /\ length \in 0 .. MaxInt32 BY CodecAssumption
<1>2. /\ u \in ByteString /\ Size(u) = 4
      /\ \A data : \A offset \in Nat : At(data, offset, u) => Uint32At(data, offset) = length
  BY <1>1, Uint32FieldAt
<1>3. payload \in ByteString /\ Size(payload) = length
  <2>1. 255 \in Byte BY DEF Byte
  <2> QED BY <1>1, <2>1, BytesType
<1>4. Block(length) = head \o payload BY DEF Block, TREE
<1> HIDE DEF u, payload
<1>5. head \in ByteString /\ Size(head) = 8 BY <1>2, TreeType, ConcatSize
<1>6. ASSUME NEW data, NEW offset \in Nat, Size(data) \in Nat, At(data, offset, head)
      PROVE  Uint32At(data, offset + 4) = length
  <2>1. u \in ByteString /\ TREE \in ByteString BY <1>2, TreeType
  <2>2. At(data, offset + Size(TREE), u) BY <1>6, <2>1, ConcatAt
  <2>3. Size(TREE) = 4 /\ offset + 4 \in Nat BY TreeType
  <2> QED BY <1>2, <2>2, <2>3
<1> HIDE DEF head
<1>7. Block(length) \in ByteString /\ Size(Block(length)) = 8 + length
  BY <1>3, <1>4, <1>5, ConcatSize
<1>8. ASSUME NEW data, NEW offset \in Nat, Size(data) \in Nat, At(data, offset, Block(length))
      PROVE  Uint32At(data, offset + 4) = length
  <2>1. payload \in ByteString /\ head \in ByteString BY <1>3, <1>5
  <2>2. At(data, offset, head) BY <1>4, <1>8, <2>1, ConcatAt
  <2> QED BY <1>6, <1>8, <2>2
<1> QED BY <1>1, <1>7, <1>8

\* What a loop of writes leaves: bytes, as many as there were and those written.
LEMMA WritesSize ==
    ASSUME NEW buffer \in ByteString, NEW pieces, Len(pieces) \in Nat,
           \A i \in 1 .. Len(pieces) : pieces[i] \in ByteString
    PROVE  LET written == Writes(buffer, pieces)
           IN /\ \A i \in 0 .. Len(pieces) : written[i] \in ByteString /\ Size(written[i]) \in Nat
              /\ written[0] = buffer
              /\ \A i \in 1 .. Len(pieces) :
                    Size(written[i]) = Size(written[i - 1]) + Size(pieces[i])
<1> DEFINE written == Writes(buffer, pieces)
           T == {i \in 0 .. Len(pieces) : written[i] \in ByteString}
           n == Len(pieces)
<1>1. /\ written[0] = buffer
      /\ \A i \in 1 .. n : written[i] = written[i - 1] \o pieces[i]
  <2>1. Written(written, buffer, pieces) BY WritesUnfold
  <2> HIDE DEF written
  <2> QED BY <2>1 DEF Written
<1> HIDE DEF written
<1>2. 0 \in T BY <1>1
<1>3. ASSUME NEW i \in 1 .. n, i - 1 \in T PROVE i \in T
  <2>1. written[i - 1] \in ByteString /\ pieces[i] \in ByteString BY <1>3
  <2>2. written[i - 1] \o pieces[i] \in ByteString BY <2>1, ConcatSize
  <2>3. written[i] \in ByteString BY <1>1, <2>2, Zenon
  <2>4. i \in 0 .. n OBVIOUS
  <2> QED BY <2>3, <2>4, Zenon
<1>4. 0 .. n \subseteq T
  <2> HIDE DEF T
  <2> QED BY <1>2, <1>3, UpTo0
<1>5. \A i \in 0 .. n : written[i] \in ByteString BY <1>4
<1>6. \A i \in 0 .. n : Size(written[i]) \in Nat BY <1>5, ConcatSize
<1>7. ASSUME NEW i \in 1 .. n PROVE Size(written[i]) = Size(written[i - 1]) + Size(pieces[i])
  <2>1. i - 1 \in 0 .. n OBVIOUS
  <2>2. written[i - 1] \in ByteString /\ pieces[i] \in ByteString BY <1>5, <2>1
  <2> QED BY <1>1, <2>2, ConcatSize
<1> QED BY <1>1, <1>5, <1>6, <1>7 DEF written

\* Where the last buffer lies at the beginning, so does each of the buffers before,
\* and each piece lies behind the buffer it was written to.
LEMMA WritesAt ==
    ASSUME NEW buffer \in ByteString, NEW pieces, Len(pieces) \in Nat,
           \A i \in 1 .. Len(pieces) : pieces[i] \in ByteString,
           NEW data, Size(data) \in Nat, At(data, 0, Writes(buffer, pieces)[Len(pieces)])
    PROVE  LET written == Writes(buffer, pieces)
           IN /\ \A i \in 0 .. Len(pieces) : At(data, 0, written[i])
              /\ \A i \in 1 .. Len(pieces) : At(data, Size(written[i - 1]), pieces[i])
<1> DEFINE written == Writes(buffer, pieces)
           n == Len(pieces)
           T == {k \in 0 .. n : At(data, 0, written[n - k])}
<1>1. \A i \in 1 .. n : written[i] = written[i - 1] \o pieces[i]
  <2>1. Written(written, buffer, pieces) BY WritesUnfold
  <2> HIDE DEF written
  <2> QED BY <2>1 DEF Written
<1>2. \A i \in 0 .. n : written[i] \in ByteString /\ Size(written[i]) \in Nat
  BY WritesSize
<1>3. At(data, 0, written[n]) OBVIOUS
<1> HIDE DEF written
<1>4. ASSUME NEW i \in 1 .. n, At(data, 0, written[i])
      PROVE  At(data, 0, written[i - 1]) /\ At(data, Size(written[i - 1]), pieces[i])
  <2>1. i - 1 \in 0 .. n OBVIOUS
  <2>2. written[i - 1] \in ByteString /\ pieces[i] \in ByteString /\ Size(written[i - 1]) \in Nat
    BY <1>2, <2>1
  <2>3. At(data, 0, written[i - 1] \o pieces[i]) BY <1>1, <1>4
  <2>4. At(data, 0, written[i - 1]) /\ At(data, 0 + Size(written[i - 1]), pieces[i])
    BY <2>2, <2>3, ConcatAt
  <2> QED BY <2>2, <2>4
<1>5. 0 \in T BY <1>3
<1>6. ASSUME NEW k \in 1 .. n, k - 1 \in T PROVE k \in T
  <2> DEFINE i == n - (k - 1)
  <2>1. At(data, 0, written[i]) /\ i \in 1 .. n /\ i - 1 = n - k BY <1>6
  <2> HIDE DEF i
  <2>2. At(data, 0, written[i - 1]) BY <1>4, <2>1
  <2> QED BY <2>1, <2>2
<1>7. 0 .. n \subseteq T
  <2> HIDE DEF T
  <2> QED BY <1>5, <1>6, UpTo0
<1>8. ASSUME NEW i \in 0 .. n PROVE At(data, 0, written[i])
  <2> DEFINE k == n - i
  <2>1. k \in 0 .. n /\ n - k = i OBVIOUS
  <2>2. k \in T BY <1>7, <2>1
  <2> QED BY <2>1, <2>2
<1>9. ASSUME NEW i \in 1 .. n PROVE At(data, Size(written[i - 1]), pieces[i])
  <2>1. At(data, 0, written[i]) BY <1>8
  <2> QED BY <1>4, <2>1
<1> QED BY <1>8, <1>9 DEF written

\* The pieces that the two loops write.
EntryPieces(es) == [i \in DOMAIN es |-> EntryBytes(es[i])]

\* Those of the blocks.
BlockPieces(bs) == [i \in DOMAIN bs |-> Block(bs[i])]

\* A function on 1 .. n has n values to write.
LEMMA PiecesOf ==
    ASSUME NEW S, NEW s \in Seq(S), NEW pieces, DOMAIN pieces = 1 .. Len(s),
           \A i \in 1 .. Len(s) : pieces[i] \in ByteString,
           pieces = [i \in 1 .. Len(s) |-> pieces[i]]
    PROVE  Len(pieces) = Len(s) /\ Len(s) \in Nat
<1>1. Len(s) \in Nat OBVIOUS
<1> DEFINE n == Len(s)
<1> HIDE DEF n
<1>2. pieces \in [1 .. n -> ByteString] BY DEF n
<1>3. n \in Nat BY <1>1 DEF n
<1>4. pieces \in Seq(ByteString) BY <1>2, <1>3
<1>5. n = Len(pieces) BY <1>2, <1>3, <1>4
<1> QED BY <1>1, <1>5 DEF n

\* One for each entry.
LEMMA EntryPiecesOf ==
    ASSUME NEW es \in Seq(IndexEntry)
    PROVE  /\ Len(EntryPieces(es)) = Len(es) /\ Len(es) \in Nat
           /\ \A i \in 1 .. Len(es) :
                /\ es[i] \in IndexEntry
                /\ EntryPieces(es)[i] = EntryBytes(es[i])
                /\ EntryPieces(es)[i] \in ByteString
<1> DEFINE pieces == EntryPieces(es)
<1>1. \A i \in 1 .. Len(es) : es[i] \in IndexEntry OBVIOUS
<1>2. DOMAIN es = 1 .. Len(es) OBVIOUS
<1>3. pieces = [i \in 1 .. Len(es) |-> EntryBytes(es[i])] BY <1>2 DEF EntryPieces
<1>4. \A i \in 1 .. Len(es) : pieces[i] = EntryBytes(es[i]) BY <1>3
<1>5. \A i \in 1 .. Len(es) : pieces[i] \in ByteString BY <1>1, <1>4, EntryBytesAt
<1>6. DOMAIN pieces = 1 .. Len(es) /\ pieces = [i \in 1 .. Len(es) |-> pieces[i]]
  BY <1>3
<1> HIDE DEF pieces
<1>7. Len(pieces) = Len(es) /\ Len(es) \in Nat BY <1>5, <1>6, PiecesOf
<1> QED BY <1>1, <1>4, <1>5, <1>7 DEF pieces

\* One for each block.
LEMMA BlockPiecesOf ==
    ASSUME NEW bs \in Seq(Extensions)
    PROVE  /\ Len(BlockPieces(bs)) = Len(bs) /\ Len(bs) \in Nat
           /\ \A i \in 1 .. Len(bs) :
                /\ bs[i] \in Extensions
                /\ BlockPieces(bs)[i] = Block(bs[i])
                /\ BlockPieces(bs)[i] \in ByteString
<1> DEFINE pieces == BlockPieces(bs)
<1>1. \A i \in 1 .. Len(bs) : bs[i] \in Extensions OBVIOUS
<1>2. DOMAIN bs = 1 .. Len(bs) OBVIOUS
<1>3. pieces = [i \in 1 .. Len(bs) |-> Block(bs[i])] BY <1>2 DEF BlockPieces
<1>4. \A i \in 1 .. Len(bs) : pieces[i] = Block(bs[i]) BY <1>3
<1>5. \A i \in 1 .. Len(bs) : pieces[i] \in ByteString BY <1>1, <1>4, BlockAt
<1>6. DOMAIN pieces = 1 .. Len(bs) /\ pieces = [i \in 1 .. Len(bs) |-> pieces[i]]
  BY <1>3
<1> HIDE DEF pieces
<1>7. Len(pieces) = Len(bs) /\ Len(bs) \in Nat BY <1>5, <1>6, PiecesOf
<1> QED BY <1>1, <1>4, <1>5, <1>7 DEF pieces

\* The offsets that the loop over the entries comes to.
EntriesEnd(es, i) == Size(Writes(Header(es), EntryPieces(es))[i])

\* And those of the loop over the blocks.
BlockEnd(es, bs, i) == Size(Writes(WriteEntries(es), BlockPieces(bs))[i])

\* The entries follow the header, each where the one before it ends.
LEMMA EntriesWritten ==
    ASSUME NEW es \in Seq(IndexEntry), Len(es) <= MaxInt32
    PROVE  /\ WriteEntries(es) \in ByteString /\ EntriesEnd(es, Len(es)) = Size(WriteEntries(es))
           /\ EntriesEnd(es, 0) = 12
           /\ \A i \in 0 .. Len(es) : EntriesEnd(es, i) \in Nat
           /\ \A i \in 1 .. Len(es) :
                 EntriesEnd(es, i) = EntriesEnd(es, i - 1) + Size(EntryBytes(es[i]))
<1> DEFINE pieces == EntryPieces(es)
           header == Header(es)
           written == Writes(header, pieces)
<1>1. /\ Len(pieces) = Len(es) /\ Len(es) \in Nat
      /\ \A i \in 1 .. Len(es) : pieces[i] = EntryBytes(es[i]) /\ pieces[i] \in ByteString
  BY EntryPiecesOf
<1>2. header \in ByteString /\ Size(header) = 12
  <2>1. Len(es) \in 0 .. MaxInt32 BY <1>1, HighByte
  <2> QED BY <2>1, HeaderAt
<1>3. WriteEntries(es) = written[Len(es)] BY DEF WriteEntries, EntryPieces
<1>4. \A i : EntriesEnd(es, i) = Size(written[i]) BY DEF EntriesEnd
<1> HIDE DEF pieces, header
<1>5. \A i \in 1 .. Len(pieces) : pieces[i] \in ByteString BY <1>1
<1>6. /\ \A i \in 0 .. Len(pieces) : written[i] \in ByteString /\ Size(written[i]) \in Nat
      /\ written[0] = header
      /\ \A i \in 1 .. Len(pieces) :
            Size(written[i]) = Size(written[i - 1]) + Size(pieces[i])
  <2>1. Len(pieces) \in Nat BY <1>1
  <2>2. header \in ByteString BY <1>2
  <2> QED BY <1>5, <2>1, <2>2, WritesSize
<1> HIDE DEF written
<1>7. Len(es) \in 0 .. Len(pieces) BY <1>1
<1>8. /\ WriteEntries(es) \in ByteString
      /\ EntriesEnd(es, Len(es)) = Size(WriteEntries(es)) /\ EntriesEnd(es, 0) = 12
  BY <1>2, <1>3, <1>4, <1>6, <1>7
<1>9. \A i \in 0 .. Len(es) : EntriesEnd(es, i) \in Nat BY <1>1, <1>4, <1>6
<1>10. \A i \in 1 .. Len(es) :
          EntriesEnd(es, i) = EntriesEnd(es, i - 1) + Size(EntryBytes(es[i]))
  BY <1>1, <1>4, <1>6
<1> QED BY <1>8, <1>9, <1>10

\* The blocks follow the entries.
LEMMA BlocksWritten ==
    ASSUME NEW es \in Seq(IndexEntry), Len(es) <= MaxInt32, NEW bs \in Seq(Extensions)
    PROVE  /\ WriteContent(es, bs) \in ByteString
           /\ BlockEnd(es, bs, Len(bs)) = Size(WriteContent(es, bs))
           /\ BlockEnd(es, bs, 0) = Size(WriteEntries(es))
           /\ \A i \in 0 .. Len(bs) : BlockEnd(es, bs, i) \in Nat
           /\ \A i \in 1 .. Len(bs) :
                 BlockEnd(es, bs, i) = BlockEnd(es, bs, i - 1) + 8 + bs[i]
<1> DEFINE pieces == BlockPieces(bs)
           header == WriteEntries(es)
           written == Writes(header, pieces)
<1>1. /\ Len(pieces) = Len(bs) /\ Len(bs) \in Nat
      /\ \A i \in 1 .. Len(bs) : pieces[i] = Block(bs[i]) /\ pieces[i] \in ByteString
  BY BlockPiecesOf
<1>2. header \in ByteString BY EntriesWritten
<1>3. WriteContent(es, bs) = written[Len(bs)] BY DEF WriteContent, BlockPieces
<1>4. \A i : BlockEnd(es, bs, i) = Size(written[i]) BY DEF BlockEnd
<1> HIDE DEF pieces, header
<1>5. \A i \in 1 .. Len(pieces) : pieces[i] \in ByteString BY <1>1
<1>6. /\ \A i \in 0 .. Len(pieces) : written[i] \in ByteString /\ Size(written[i]) \in Nat
      /\ written[0] = header
      /\ \A i \in 1 .. Len(pieces) :
            Size(written[i]) = Size(written[i - 1]) + Size(pieces[i])
  <2>1. Len(pieces) \in Nat BY <1>1
  <2> QED BY <1>2, <1>5, <2>1, WritesSize
<1> HIDE DEF written
<1>7. Len(bs) \in 0 .. Len(pieces) BY <1>1
<1>8. /\ WriteContent(es, bs) \in ByteString
      /\ BlockEnd(es, bs, Len(bs)) = Size(WriteContent(es, bs))
      /\ BlockEnd(es, bs, 0) = Size(WriteEntries(es))
  BY <1>2, <1>3, <1>4, <1>6, <1>7 DEF header
<1>9. \A i \in 0 .. Len(bs) : BlockEnd(es, bs, i) \in Nat BY <1>1, <1>4, <1>6
<1>10. ASSUME NEW i \in 1 .. Len(bs)
       PROVE  BlockEnd(es, bs, i) = BlockEnd(es, bs, i - 1) + 8 + bs[i]
  <2>1. bs[i] \in Extensions OBVIOUS
  <2>2. Size(Block(bs[i])) = 8 + bs[i] /\ bs[i] \in Nat BY <2>1, BlockAt
  <2>3. BlockEnd(es, bs, i) = BlockEnd(es, bs, i - 1) + Size(Block(bs[i]))
    BY <1>1, <1>4, <1>6
  <2>4. BlockEnd(es, bs, i - 1) \in Nat
    <3>1. i - 1 \in 0 .. Len(bs) BY <1>1
    <3> QED BY <1>9, <3>1
  <2> QED BY <2>2, <2>3, <2>4
<1> QED BY <1>8, <1>9, <1>10

\* Where the file holds the content, the header, each entry and each block lie
\* where the loops that read them come to.
LEMMA ContentAt ==
    ASSUME NEW es \in Seq(IndexEntry), Len(es) <= MaxInt32, NEW bs \in Seq(Extensions),
           NEW data, Size(data) \in Nat, At(data, 0, WriteContent(es, bs))
    PROVE  /\ At(data, 0, Header(es))
           /\ \A i \in 1 .. Len(es) : At(data, EntriesEnd(es, i - 1), EntryBytes(es[i]))
           /\ \A i \in 1 .. Len(bs) : At(data, BlockEnd(es, bs, i - 1), Block(bs[i]))
<1>1. /\ \A i \in 1 .. Len(bs) : At(data, BlockEnd(es, bs, i - 1), Block(bs[i]))
      /\ At(data, 0, WriteEntries(es))
  <2> DEFINE pieces == BlockPieces(bs)
             header == WriteEntries(es)
             written == Writes(header, pieces)
  <2>1. /\ Len(pieces) = Len(bs) /\ Len(bs) \in Nat
        /\ \A i \in 1 .. Len(bs) : pieces[i] = Block(bs[i]) /\ pieces[i] \in ByteString
    BY BlockPiecesOf
  <2>2. header \in ByteString BY EntriesWritten
  <2>3. WriteContent(es, bs) = written[Len(bs)] BY DEF WriteContent, BlockPieces
  <2>4. \A i : BlockEnd(es, bs, i) = Size(written[i]) BY DEF BlockEnd
  <2>5. At(data, 0, written[Len(pieces)]) BY <2>1, <2>3
  <2> HIDE DEF pieces, header
  <2>6. \A i \in 1 .. Len(pieces) : pieces[i] \in ByteString BY <2>1
  <2>7. Len(pieces) \in Nat BY <2>1
  <2>8. /\ \A i \in 0 .. Len(pieces) : At(data, 0, written[i])
        /\ \A i \in 1 .. Len(pieces) : At(data, Size(written[i - 1]), pieces[i])
    BY <2>2, <2>5, <2>6, <2>7, WritesAt
  <2>9. written[0] = header BY <2>2, <2>6, <2>7, WritesSize
  <2> HIDE DEF written
  <2>10. At(data, 0, header) BY <2>7, <2>8, <2>9
  <2>11. \A i \in 1 .. Len(bs) : At(data, BlockEnd(es, bs, i - 1), Block(bs[i]))
    BY <2>1, <2>4, <2>8
  <2> QED BY <2>10, <2>11 DEF header
<1>2. /\ \A i \in 1 .. Len(es) : At(data, EntriesEnd(es, i - 1), EntryBytes(es[i]))
      /\ At(data, 0, Header(es))
  <2> DEFINE pieces == EntryPieces(es)
             header == Header(es)
             written == Writes(header, pieces)
  <2>1. /\ Len(pieces) = Len(es) /\ Len(es) \in Nat
        /\ \A i \in 1 .. Len(es) : pieces[i] = EntryBytes(es[i]) /\ pieces[i] \in ByteString
    BY EntryPiecesOf
  <2>2. header \in ByteString
    <3>1. Len(es) \in 0 .. MaxInt32 BY <2>1, HighByte
    <3> QED BY <3>1, HeaderAt
  <2>3. WriteEntries(es) = written[Len(es)] BY DEF WriteEntries, EntryPieces
  <2>4. \A i : EntriesEnd(es, i) = Size(written[i]) BY DEF EntriesEnd
  <2>5. At(data, 0, written[Len(pieces)]) BY <1>1, <2>1, <2>3
  <2> HIDE DEF pieces, header
  <2>6. \A i \in 1 .. Len(pieces) : pieces[i] \in ByteString BY <2>1
  <2>7. Len(pieces) \in Nat BY <2>1
  <2>8. /\ \A i \in 0 .. Len(pieces) : At(data, 0, written[i])
        /\ \A i \in 1 .. Len(pieces) : At(data, Size(written[i - 1]), pieces[i])
    BY <2>2, <2>5, <2>6, <2>7, WritesAt
  <2>9. written[0] = header BY <2>2, <2>6, <2>7, WritesSize
  <2> HIDE DEF written
  <2>10. At(data, 0, header) BY <2>7, <2>8, <2>9
  <2>11. \A i \in 1 .. Len(es) : At(data, EntriesEnd(es, i - 1), EntryBytes(es[i]))
    BY <2>1, <2>4, <2>8
  <2> QED BY <2>10, <2>11 DEF header
<1> QED BY <1>1, <1>2

\* One more entry.
LEMMA OneMore ==
    ASSUME NEW S, NEW s \in Seq(S), NEW i \in 1 .. Len(s)
    PROVE  Append(SubSeq(s, 1, i - 1), s[i]) = SubSeq(s, 1, i)
<1>1. 1 \in 1 .. Len(s) /\ i \in 1 .. Len(s) /\ i - 1 \in 0 .. Len(s) OBVIOUS
<1>2. SubSeq(s, 1, i) = SubSeq(s, 1, i - 1) \o <<s[i]>> BY <1>1, SubSeqRecursiveSecond
<1>3. SubSeq(s, 1, i - 1) \in Seq(S) /\ s[i] \in S
  <2>1. \A k \in 1 .. i - 1 : s[k] \in S BY <1>1
  <2> QED BY <1>1, <2>1, SubSeqProperties
<1> DEFINE t == SubSeq(s, 1, i - 1)
<1> HIDE DEF t
<1>4. Append(t, s[i]) = t \o <<s[i]>> BY <1>3, AppendIsConcat DEF t
<1> QED BY <1>2, <1>4 DEF t

\* The equation that the rounds over the entries are defined by.
Rounds(read, data, count) ==
    read = [i \in 0 .. count |->
              IF i = 0 THEN Progress(12, <<>>)
              ELSE ReadEntry(data, read[i - 1])]

\* There are such rounds, so those that the reader takes are.
LEMMA ReadEntriesAre ==
    ASSUME NEW data, NEW count, NEW witness, Rounds(witness, data, count)
    PROVE  Rounds(ReadEntries(data, count), data, count)
<1> DEFINE read == CHOOSE f : Rounds(f, data, count)
<1>1. ReadEntries(data, count) = read BY DEF ReadEntries, Rounds, Progress
<1>2. \E f : Rounds(f, data, count) OBVIOUS
<1> QED BY <1>1, <1>2, Zenon

\* The reader's rounds over the entries give them back, one each.
LEMMA EntriesRead ==
    ASSUME NEW es \in Seq(IndexEntry), Len(es) <= MaxInt32, NEW bs \in Seq(Extensions),
           NEW data, Size(data) \in Nat, At(data, 0, WriteContent(es, bs))
    PROVE  ReadEntries(data, Len(es))[Len(es)] = Progress(EntriesEnd(es, Len(es)), es)
<1> DEFINE n == Len(es)
           end(i) == EntriesEnd(es, i)
           some(i) == SubSeq(es, 1, i)
           round(i) == Progress(end(i), some(i))
           g == [i \in 0 .. n |-> round(i)]
           read == ReadEntries(data, n)
           T == {i \in 0 .. n : read[i] = round(i)}
<1>1. n \in Nat /\ \A i \in 1 .. n : es[i] \in IndexEntry OBVIOUS
<1>2. /\ end(0) = 12 /\ \A i \in 0 .. n : end(i) \in Nat
      /\ \A i \in 1 .. n : end(i) = end(i - 1) + Size(EntryBytes(es[i]))
  BY EntriesWritten
<1>3. \A i \in 1 .. n : At(data, end(i - 1), EntryBytes(es[i])) BY ContentAt
<1>4. some(0) = <<>> BY SubSeqEmpty
<1>5. \A i \in 1 .. n : Append(some(i - 1), es[i]) = some(i) BY OneMore
<1>6. some(n) = es BY SubSeqFull
<1> HIDE DEF n, end, some
<1>7. ASSUME NEW i \in 1 .. n PROVE ReadEntry(data, round(i - 1)) = round(i)
  <2>1. i - 1 \in 0 .. n BY <1>1
  <2>2. /\ es[i] \in IndexEntry /\ end(i - 1) \in Nat
        /\ At(data, end(i - 1), EntryBytes(es[i]))
    BY <1>1, <1>2, <1>3, <2>1
  <2>3. Reads(data, end(i - 1), es[i]) BY <2>2, ReadEntryBytes
  <2>4. /\ end(i - 1) + Size(EntryBytes(es[i])) = end(i)
        /\ Append(some(i - 1), es[i]) = some(i)
    BY <1>2, <1>5
  <2> QED BY <2>3, <2>4, Zenon DEF Reads
<1>8. round(0) = Progress(12, <<>>) BY <1>2, <1>4
<1> HIDE DEF round
<1>9. Rounds(g, data, n)
  <2>1. ASSUME NEW i \in 0 .. n
        PROVE  g[i] = IF i = 0 THEN Progress(12, <<>>)
                      ELSE ReadEntry(data, g[i - 1])
    <3>1. CASE i = 0 BY <1>8, <3>1
    <3>2. CASE i # 0
      <4>1. i \in 1 .. n /\ i - 1 \in 0 .. n BY <1>1, <3>2
      <4>2. g[i] = round(i) /\ g[i - 1] = round(i - 1) BY <4>1
      <4> QED BY <1>7, <3>2, <4>1, <4>2
    <3> QED BY <3>1, <3>2
  <2> QED BY <2>1 DEF Rounds
<1> HIDE DEF g
<1>10. Rounds(read, data, n) BY <1>9, ReadEntriesAre
<1> HIDE DEF read
<1>11. read[0] = round(0) /\ \A i \in 1 .. n : read[i] = ReadEntry(data, read[i - 1])
  <2>1. \A i \in 0 .. n : read[i] = IF i = 0 THEN Progress(12, <<>>)
                                    ELSE ReadEntry(data, read[i - 1])
    BY <1>10 DEF Rounds
  <2>2. 0 \in 0 .. n /\ \A i \in 1 .. n : i \in 0 .. n /\ i # 0 BY <1>1
  <2> QED BY <1>8, <2>1, <2>2
<1>12. 0 \in T BY <1>1, <1>11
<1>13. ASSUME NEW i \in 1 .. n, i - 1 \in T PROVE i \in T
  <2>1. read[i] = ReadEntry(data, round(i - 1)) BY <1>11, <1>13
  <2> QED BY <1>1, <1>7, <2>1
<1>14. n \in T
  <2> HIDE DEF T
  <2>1. 0 .. n \subseteq T BY <1>1, <1>12, <1>13, UpTo0
  <2> QED BY <1>1, <2>1
<1>15. read[n] = round(n) BY <1>14
<1> QED BY <1>6, <1>15 DEF round, n, end, read

\* What the loop over the blocks answers at an offset, from what it answers beyond.
EndsAt(data, ends, offset) ==
    \/ offset + 8 > Len(data) - 20
    \/ LET next == offset + 8 + Uint32At(data, offset + 4)
       IN next <= Len(data) - 20 /\ ends[next]

\* The equation that the answers are defined by, from an offset on.
EndsFrom(ends, data, first) ==
    ends = [offset \in first .. Len(data) |-> EndsAt(data, ends, offset)]

\* Two answers agree on the offset behind a block, where that matters.
SameBehind(data, f, g, offset) ==
    LET next == offset + 8 + Uint32At(data, offset + 4)
    IN \/ offset + 8 > Len(data) - 20
       \/ ~(next <= Len(data) - 20)
       \/ f[next] = g[next]

\* Nothing else counts.
LEMMA EndsAtSame ==
    ASSUME NEW data, NEW f, NEW g, NEW offset, SameBehind(data, f, g, offset)
    PROVE  EndsAt(data, f, offset) = EndsAt(data, g, offset)
<1> DEFINE next == offset + 8 + Uint32At(data, offset + 4)
           limit == Len(data) - 20
<1>1. CASE offset + 8 > limit BY <1>1 DEF EndsAt
<1>2. CASE f[next] = g[next] BY <1>2 DEF EndsAt
<1>3. CASE ~(next <= limit) BY <1>3 DEF EndsAt
<1> QED BY <1>1, <1>2, <1>3 DEF SameBehind

\* The length fields of blocks are no negative numbers.
Lengthy(data) ==
    \A offset \in Nat : offset + 8 <= Len(data) - 20 => Uint32At(data, offset + 4) \in Nat

\* The answers at every offset of the data.
Answers(data, ends) ==
    \A offset \in 0 .. Len(data) : ends[offset] = EndsAt(data, ends, offset)

\* There are such answers for data whose length fields are no negative numbers.
LEMMA EndsExist ==
    ASSUME NEW data, Len(data) \in Nat, Lengthy(data)
    PROVE  \E ends : EndsFrom(ends, data, 0)
<1> DEFINE n == Len(data)
           limit == n - 20
           T == {k \in 0 .. n : \E f : EndsFrom(f, data, n - k)}
<1>1. 0 \in T
  <2> DEFINE f == [offset \in n .. n |-> TRUE]
  <2>1. ASSUME NEW offset \in n .. n PROVE f[offset] = EndsAt(data, f, offset)
    <3>1. offset + 8 > Len(data) - 20 OBVIOUS
    <3>2. EndsAt(data, f, offset) = TRUE BY <3>1 DEF EndsAt
    <3> QED BY <3>2
  <2>2. f = [offset \in n .. n |-> EndsAt(data, f, offset)] BY <2>1
  <2> HIDE DEF f
  <2>3. EndsFrom(f, data, n) BY <2>2 DEF EndsFrom
  <2>4. n - 0 = n /\ 0 \in 0 .. n OBVIOUS
  <2> QED BY <2>3, <2>4
<1>2. ASSUME NEW k \in 1 .. n, k - 1 \in T PROVE k \in T
  <2> DEFINE first == n - k
  <2>1. first \in Nat /\ first < n /\ n - (k - 1) = first + 1 /\ first \in 0 .. n /\ k \in 0 .. n
    OBVIOUS
  <2>2. PICK f : EndsFrom(f, data, first + 1) BY <1>2, <2>1
  <2> HIDE DEF first
  <2> DEFINE g == [offset \in first .. n |->
                     IF offset = first THEN EndsAt(data, f, first) ELSE f[offset]]
  <2>3. ASSUME NEW offset \in first .. n
        PROVE  EndsAt(data, f, offset) = EndsAt(data, g, offset)
    <3> DEFINE next == offset + 8 + Uint32At(data, offset + 4)
    <3>1. SUFFICES ASSUME ~(offset + 8 > Len(data) - 20), next <= Len(data) - 20
                   PROVE  f[next] = g[next]
      <4>1. SameBehind(data, f, g, offset) BY DEF SameBehind
      <4> QED BY <4>1, EndsAtSame
    <3>2. offset \in Nat /\ offset >= first BY <2>1
    <3>3. Uint32At(data, offset + 4) \in Nat
      <4>1. offset + 8 <= Len(data) - 20 BY <3>1, <3>2
      <4> QED BY <3>2, <4>1 DEF Lengthy
    <3>4. next \in first .. n /\ next # first BY <2>1, <3>1, <3>2, <3>3
    <3> QED BY <3>4
  <2>4. ASSUME NEW offset \in first .. n PROVE g[offset] = EndsAt(data, g, offset)
    <3>1. CASE offset = first
      <4>1. g[offset] = EndsAt(data, f, first) BY <3>1
      <4> QED BY <2>3, <3>1, <4>1
    <3>2. CASE offset # first
      <4>1. g[offset] = f[offset] /\ offset \in first + 1 .. Len(data) BY <2>1, <3>2
      <4>2. f[offset] = EndsAt(data, f, offset) BY <2>2, <4>1 DEF EndsFrom
      <4> QED BY <2>3, <4>1, <4>2
    <3> QED BY <3>1, <3>2
  <2>5. g = [offset \in first .. n |-> EndsAt(data, g, offset)] BY <2>4
  <2> HIDE DEF g
  <2>6. EndsFrom(g, data, first) BY <2>5 DEF EndsFrom
  <2> QED BY <2>1, <2>6 DEF first
<1>3. n \in T
  <2> HIDE DEF T
  <2>1. n \in Nat OBVIOUS
  <2>2. 0 .. n \subseteq T BY <1>1, <1>2, <2>1, UpTo0
  <2> QED BY <2>1, <2>2
<1>4. n - n = 0 OBVIOUS
<1> QED BY <1>3, <1>4

\* So those of the reader are.
LEMMA BlocksEndAre ==
    ASSUME NEW data, Len(data) \in Nat, Lengthy(data)
    PROVE  Answers(data, BlocksEnd(data))
<1> DEFINE ends == CHOOSE f : EndsFrom(f, data, 0)
<1>1. BlocksEnd(data) = ends BY DEF BlocksEnd, EndsFrom, EndsAt
<1>2. EndsFrom(ends, data, 0) BY EndsExist, Zenon
<1> HIDE DEF ends
<1>3. ASSUME NEW offset \in 0 .. Len(data) PROVE ends[offset] = EndsAt(data, ends, offset)
  BY <1>2 DEF EndsFrom
<1> QED BY <1>1, <1>3 DEF Answers

\* Bytes make up a number.
LEMMA Uint32AtType ==
    ASSUME NEW data, NEW offset \in Nat, \A i \in 1 .. 4 : data[offset + i] \in Byte
    PROVE  Uint32At(data, offset) \in Nat
<1>1. 1 \in 1 .. 4 /\ 2 \in 1 .. 4 /\ 3 \in 1 .. 4 /\ 4 \in 1 .. 4 OBVIOUS
<1>2. /\ data[offset + 1] \in Byte /\ data[offset + 2] \in Byte
      /\ data[offset + 3] \in Byte /\ data[offset + 4] \in Byte
  BY <1>1
<1>3. /\ data[offset + 1] \in Nat /\ data[offset + 2] \in Nat
      /\ data[offset + 3] \in Nat /\ data[offset + 4] \in Nat
  BY <1>2 DEF Byte
<1> QED BY <1>3, SMT DEF Uint32At

\* The loop over the blocks comes to the checksum from where the entries end.
LEMMA BlocksSkipped ==
    ASSUME NEW es \in Seq(IndexEntry), Len(es) <= MaxInt32, NEW bs \in Seq(Extensions),
           NEW data, Size(data) = Size(WriteContent(es, bs)) + 20,
           At(data, 0, WriteContent(es, bs))
    PROVE  BlocksEnd(data)[EntriesEnd(es, Len(es))]
<1> DEFINE content == WriteContent(es, bs)
           m == Len(bs)
           end(i) == BlockEnd(es, bs, i)
           ends == BlocksEnd(data)
<1>1. /\ content \in ByteString /\ end(m) = Size(content)
      /\ end(0) = EntriesEnd(es, Len(es))
      /\ \A i \in 0 .. m : end(i) \in Nat
      /\ \A i \in 1 .. m : end(i) = end(i - 1) + 8 + bs[i]
  BY BlocksWritten, EntriesWritten
<1>2. m \in Nat /\ \A i \in 1 .. m : bs[i] \in Extensions OBVIOUS
<1>3. Size(data) \in Nat /\ Size(content) \in Nat /\ Len(data) = Size(content) + 20
  BY <1>1, <1>2 DEF Size
<1>4. \A i \in 1 .. m : At(data, end(i - 1), Block(bs[i])) BY <1>3, ContentAt
<1> HIDE DEF content, m, end
<1>5. \A i \in 1 .. Size(content) : data[i] \in Byte
  <2>1. ASSUME NEW i \in 1 .. Size(content) PROVE data[i] \in Byte
    <3>1. data[0 + i] = content[i] BY ByteAt DEF content
    <3>2. content[i] \in Byte BY <1>1 DEF ByteString, Size
    <3>3. 0 + i = i OBVIOUS
    <3> QED BY <3>1, <3>2, <3>3
  <2> QED BY <2>1
<1>6. Lengthy(data)
  <2>1. ASSUME NEW offset \in Nat, offset + 8 <= Len(data) - 20
        PROVE  Uint32At(data, offset + 4) \in Nat
    <3>1. ASSUME NEW i \in 1 .. 4 PROVE data[offset + 4 + i] \in Byte
      <4>1. offset + 4 + i \in 1 .. Size(content) BY <1>3, <2>1
      <4> QED BY <1>5, <4>1
    <3>2. offset + 4 \in Nat OBVIOUS
    <3> QED BY <3>1, <3>2, Uint32AtType
  <2> QED BY <2>1 DEF Lengthy
<1>7. \A offset \in 0 .. Len(data) : ends[offset] = EndsAt(data, ends, offset)
  <2>1. Answers(data, ends)
    <3>1. Len(data) \in Nat BY <1>3
    <3> QED BY <1>6, <3>1, BlocksEndAre
  <2> HIDE DEF ends
  <2> QED BY <2>1 DEF Answers
<1> HIDE DEF ends
<1>8. ends[end(m)]
  <2>1. end(m) \in 0 .. Len(data) /\ end(m) + 8 > Len(data) - 20 BY <1>1, <1>3
  <2>2. EndsAt(data, ends, end(m)) BY <2>1 DEF EndsAt
  <2> QED BY <1>7, <2>1, <2>2
<1>9. ASSUME NEW i \in 1 .. m, ends[end(i)], end(i) <= Size(content)
      PROVE  ends[end(i - 1)] /\ end(i - 1) <= Size(content)
  <2>1. i - 1 \in 0 .. m /\ i \in 0 .. m BY <1>2
  <2>2. end(i - 1) \in Nat /\ bs[i] \in Nat /\ end(i) = end(i - 1) + 8 + bs[i]
    <3>1. bs[i] \in Nat BY <1>2, BlockAt
    <3> QED BY <1>1, <2>1, <3>1
  <2>3. Uint32At(data, end(i - 1) + 4) = bs[i]
    <3>1. bs[i] \in Extensions /\ At(data, end(i - 1), Block(bs[i])) BY <1>2, <1>4
    <3> QED BY <1>3, <2>2, <3>1, BlockAt
  <2>4. end(i - 1) <= Size(content) /\ end(i - 1) \in 0 .. Len(data) /\ end(i) <= Len(data) - 20
    <3> DEFINE x == end(i - 1)
               y == end(i)
               c == Size(content)
               d == Len(data)
    <3>1. x \in Nat /\ y \in Nat /\ x <= y BY <2>2
    <3>2. y <= c /\ c \in Nat /\ d = c + 20 BY <1>3, <1>9
    <3> HIDE DEF x, y, c, d
    <3>3. x <= c /\ x \in 0 .. d /\ y <= d - 20 BY <3>1, <3>2
    <3> QED BY <3>3 DEF x, y, c, d
  <2>5. EndsAt(data, ends, end(i - 1)) BY <1>9, <2>2, <2>3, <2>4 DEF EndsAt
  <2> QED BY <1>7, <2>4, <2>5
<1> DEFINE U == {k \in 0 .. m : ends[end(m - k)] /\ end(m - k) <= Size(content)}
<1>10. 0 \in U
  <2>1. end(m) <= Size(content) BY <1>1, <1>3
  <2>2. m - 0 = m /\ 0 \in 0 .. m BY <1>2
  <2> QED BY <1>8, <2>1, <2>2
<1>11. ASSUME NEW k \in 1 .. m, k - 1 \in U PROVE k \in U
  <2> DEFINE i == m - (k - 1)
  <2>1. i \in 1 .. m /\ i - 1 = m - k /\ k \in 0 .. m BY <1>2
  <2>2. ends[end(i)] /\ end(i) <= Size(content) BY <1>11
  <2> HIDE DEF i
  <2>3. ends[end(i - 1)] /\ end(i - 1) <= Size(content) BY <1>9, <2>1, <2>2
  <2> QED BY <2>1, <2>3
<1>12. m \in U
  <2> HIDE DEF U
  <2>1. 0 .. m \subseteq U BY <1>2, <1>10, <1>11, UpTo0
  <2> QED BY <1>2, <2>1
<1>13. m - m = 0 BY <1>2
<1> QED BY <1>1, <1>12, <1>13 DEF ends

\* A function on 1 .. n is a sequence of n values.
LEMMA FunctionIsSeq ==
    ASSUME NEW S, NEW n \in Nat, NEW s \in [1 .. n -> S]
    PROVE  s \in Seq(S) /\ Len(s) = n
<1>1. s \in Seq(S) OBVIOUS
<1>2. Len(s) = n BY <1>1
<1> QED BY <1>1, <1>2

\* A file is its content and twenty bytes behind it.
File(data, content) ==
    /\ Size(data) = Size(content) + 20 /\ Len(data) = Size(content) + 20
    /\ Size(content) \in Nat /\ At(data, 0, content)
    /\ SubSeq(data, 1, Len(data) - 20) = content
    /\ SubSeq(data, Len(data) - 20 + 1, Len(data)) = Checksum(content)
    /\ \E S : data \in Seq(S)

\* So is the one that is written.
LEMMA FileIs ==
    ASSUME NEW content \in ByteString, Size(content) \in Nat, Size(content) >= 12,
           NEW data, data = content \o Checksum(content)
    PROVE  File(data, content)
<1> DEFINE sum == Checksum(content)
           S == Byte \cup {SHA1(content, i) : i \in 1 .. 20}
           n == Size(content)
<1>1. sum \in Seq(S) /\ Len(sum) = 20
  <2>1. sum = [i \in 1 .. 20 |-> SHA1(content, i)] BY DEF Checksum
  <2>2. \A i \in 1 .. 20 : SHA1(content, i) \in S OBVIOUS
  <2> HIDE DEF S, sum
  <2> DEFINE k == 20
  <2>3. sum \in [1 .. k -> S] BY <2>1, <2>2
  <2>4. k \in Nat /\ k = 20 OBVIOUS
  <2> HIDE DEF k
  <2>5. sum \in Seq(S) /\ Len(sum) = k BY <2>3, <2>4, FunctionIsSeq
  <2> QED BY <2>4, <2>5
<1>2. content \in Seq(S) /\ n = Len(content) /\ n \in Nat BY DEF ByteString, Size
<1> HIDE DEF S, sum, n
<1>3. /\ data \in Seq(S) /\ Len(data) = n + 20
      /\ \A i \in 1 .. n + 20 : data[i] = IF i <= n THEN content[i] ELSE sum[i - n]
  <2> DEFINE k == Len(sum)
  <2>1. data = content \o sum BY DEF sum
  <2>2. sum \in Seq(S) /\ content \in Seq(S) /\ k = Len(sum) BY <1>1, <1>2
  <2>3. k = 20 BY <1>1
  <2> HIDE DEF k
  <2>4. /\ content \o sum \in Seq(S) /\ Len(content \o sum) = Len(content) + k
        /\ \A i \in 1 .. Len(content) + k :
              (content \o sum)[i] = IF i <= Len(content) THEN content[i] ELSE sum[i - Len(content)]
    BY <2>2, ConcatProperties
  <2> QED BY <1>2, <2>1, <2>3, <2>4
<1>4. At(data, 0, content)
  <2>1. Size(data) = n + 20 /\ Size(content) = n BY <1>3 DEF Size, n
  <2>2. ASSUME NEW i \in 1 .. n PROVE data[0 + i] = content[i]
    <3>1. 0 + i = i /\ i \in 1 .. n + 20 /\ i <= n BY <1>2
    <3> QED BY <1>3, <3>1
  <2> QED BY <1>2, <2>1, <2>2 DEF At
<1>5. SubSeq(data, 1, n) = content
  <2>1. 1 \in 1 .. Len(content) /\ n \in 1 .. Len(content) /\ data = content \o sum
    BY <1>2 DEF n, sum
  <2>2. SubSeq(data, 1, n) = SubSeq(content, 1, n) BY <1>1, <1>2, <2>1, SubSeqOfConcat1
  <2>3. SubSeq(content, 1, Len(content)) = content BY <1>2, SubSeqFull
  <2> QED BY <1>2, <2>2, <2>3
<1>6. SubSeq(data, n + 1, n + 20) = sum
  <2> DEFINE a == n + 1
             b == n + 20
  <2>1. /\ a \in Len(content) + 1 .. Len(content) + Len(sum)
        /\ b \in Len(content) + 1 .. Len(content) + Len(sum)
        /\ a - Len(content) = 1 /\ b - Len(content) = Len(sum) /\ data = content \o sum
    BY <1>1, <1>2 DEF sum
  <2> HIDE DEF a, b
  <2>2. sum \in Seq(S) /\ content \in Seq(S) BY <1>1, <1>2
  <2>2a. SubSeq(content \o sum, a, b) = SubSeq(sum, a - Len(content), b - Len(content))
    BY <2>1, <2>2, SubSeqOfConcat2
  <2>3. SubSeq(sum, 1, Len(sum)) = sum BY <1>1, SubSeqFull
  <2> QED BY <2>1, <2>2a, <2>3 DEF a, b
<1>7. Len(data) - 20 = n /\ Len(data) - 20 + 1 = n + 1 BY <1>2, <1>3
<1>8. Size(data) = n + 20 BY <1>3 DEF Size
<1>9. \E R : data \in Seq(R) BY <1>3
<1> QED BY <1>2, <1>3, <1>4, <1>5, <1>6, <1>7, <1>8, <1>9 DEF n, sum, File

\* The signature is read where it lies.
LEMMA SignatureRead ==
    ASSUME NEW S, NEW data \in Seq(S), Len(data) >= 4, At(data, 0, DIRC)
    PROVE  SubSeq(data, 1, 4) = DIRC
<1> DEFINE t == SubSeq(data, 1, 4)
<1>1. Len(data) \in Nat OBVIOUS
<1>2. ASSUME NEW i \in 1 .. 4 PROVE data[i] \in S /\ data[i] = DIRC[i]
  <2>1. i \in 1 .. Len(data) BY <1>1
  <2>2. i \in 1 .. Size(DIRC) /\ 0 + i = i BY SignatureType
  <2>3. data[0 + i] = DIRC[i] BY <2>2, ByteAt
  <2> QED BY <2>1, <2>2, <2>3
<1>3. 1 \in Int /\ 4 \in Int /\ 4 - 1 + 1 = 4 /\ 1 <= 4 /\ \A i \in 1 .. 4 : 1 + i - 1 = i OBVIOUS
<1>4. t \in Seq(S) /\ Len(t) = 4 /\ \A i \in 1 .. 4 : t[i] = data[i]
  <2>1. /\ t \in Seq(S) /\ Len(t) = IF 1 <= 4 THEN 4 - 1 + 1 ELSE 0
        /\ \A i \in 1 .. 4 - 1 + 1 : t[i] = data[1 + i - 1]
    BY <1>2, <1>3, SubSeqProperties
  <2> QED BY <1>3, <2>1
<1> HIDE DEF t
<1>5. \A i \in 1 .. 4 : t[i] = DIRC[i] BY <1>2, <1>4
<1>6. t = <<t[1], t[2], t[3], t[4]>> BY <1>4
<1>7. t[1] = DIRC[1] /\ t[2] = DIRC[2] /\ t[3] = DIRC[3] /\ t[4] = DIRC[4] BY <1>5
<1>8. DIRC = <<DIRC[1], DIRC[2], DIRC[3], DIRC[4]>> BY DEF DIRC
<1> QED BY <1>6, <1>7, <1>8 DEF t

\* What is written is read back: a list of entries of any lengths, fills and stages,
\* extended or not, with any extension blocks behind it.
LEMMA WrittenIsRead ==
    ASSUME NEW es \in Seq(IndexEntry), Len(es) <= MaxInt32, NEW bs \in Seq(Extensions)
    PROVE  ReadIndex(WriteIndex(es, bs)) = [status |-> "ok", entries |-> es]
<1> DEFINE content == WriteContent(es, bs)
           data == WriteIndex(es, bs)
           limit == Len(data) - 20
           count == Uint32At(data, 8)
           read == ReadEntries(data, count)[count]
<1>1. data = content \o Checksum(content) BY DEF WriteIndex
<1>2. content \in ByteString BY BlocksWritten
<1>3. Len(es) \in 0 .. MaxInt32
  <2>1. Len(es) \in Nat OBVIOUS
  <2> QED BY <2>1, HighByte
<1>4. Size(content) \in Nat /\ Size(content) >= 12
  <2>1. Size(content) \in Nat BY <1>2, ConcatSize
  <2>2. At(content, 0, content)
    <3>1. \A i \in 1 .. Size(content) : content[0 + i] = content[i]
      <4>1. \A i \in 1 .. Size(content) : 0 + i = i BY <2>1
      <4> QED BY <4>1
    <3>2. 0 + Size(content) <= Size(content) BY <2>1
    <3> QED BY <3>1, <3>2 DEF At
  <2>3. At(content, 0, Header(es)) BY <2>1, <2>2, ContentAt
  <2>4. Size(Header(es)) = 12 BY <1>3, HeaderAt
  <2>5. 0 + Size(Header(es)) <= Size(content) BY <2>3 DEF At
  <2> QED BY <2>1, <2>4, <2>5
<1>5. /\ Size(data) = Size(content) + 20 /\ Len(data) = Size(content) + 20
      /\ At(data, 0, content) /\ SubSeq(data, 1, limit) = content
      /\ SubSeq(data, limit + 1, Len(data)) = Checksum(content)
      /\ \E S : data \in Seq(S)
  <2>1. File(data, content)
    <3> HIDE DEF content, data
    <3> QED BY <1>1, <1>2, <1>4, FileIs
  <2> HIDE DEF content, data
  <2> QED BY <2>1 DEF File
<1> HIDE DEF data
<1>6. Size(data) \in Nat /\ ~(Len(data) < 32) /\ Len(data) >= 4
  <2> DEFINE d == Len(data)
             c == Size(content)
  <2>1. c \in Nat /\ c >= 12 /\ d = c + 20 /\ Size(data) = c + 20 BY <1>4, <1>5
  <2> HIDE DEF d, c
  <2>2. c + 20 \in Nat /\ ~(d < 32) /\ d >= 4 BY <2>1
  <2> QED BY <2>1, <2>2 DEF d
<1>7. At(data, 0, Header(es)) BY <1>5, <1>6, ContentAt
<1>8. /\ At(data, 0, DIRC) /\ Uint32At(data, 4) \in 2 .. 3 /\ count = Len(es)
  BY <1>3, <1>6, <1>7, HeaderAt
<1>9. SubSeq(data, 1, 4) = DIRC
  <2>1. PICK S : data \in Seq(S) BY <1>5
  <2> QED BY <1>6, <1>8, <2>1, SignatureRead
<1>10. read = Progress(EntriesEnd(es, Len(es)), es)
  <2>1. ReadEntries(data, Len(es))[Len(es)] = Progress(EntriesEnd(es, Len(es)), es)
    BY <1>5, <1>6, EntriesRead
  <2> QED BY <1>8, <2>1
<1>11. BlocksEnd(data)[read.offset]
  <2>1. BlocksEnd(data)[EntriesEnd(es, Len(es))] BY <1>5, BlocksSkipped
  <2>2. read.offset = EntriesEnd(es, Len(es)) BY <1>10 DEF Progress
  <2> QED BY <2>1, <2>2
<1>12. read.ok = TRUE /\ read.entries = es BY <1>10 DEF Progress
<1>13. ReadIndex(data) =
         IF \/ Len(data) < 32
            \/ SubSeq(data, limit + 1, Len(data)) # Checksum(SubSeq(data, 1, limit))
            \/ SubSeq(data, 1, 4) # DIRC
            \/ Uint32At(data, 4) \notin 2 .. 3
            \/ ~read.ok \/ ~BlocksEnd(data)[read.offset]
         THEN Refused
         ELSE [status |-> "ok", entries |-> read.entries]
  BY DEF ReadIndex
<1> DEFINE sum == SubSeq(data, limit + 1, Len(data))
<1>14. /\ ~(Len(data) < 32) /\ ~(sum # Checksum(SubSeq(data, 1, limit)))
       /\ ~(SubSeq(data, 1, 4) # DIRC) /\ ~(Uint32At(data, 4) \notin 2 .. 3)
       /\ ~(~read.ok) /\ ~(~BlocksEnd(data)[read.offset])
  BY <1>5, <1>6, <1>8, <1>9, <1>11, <1>12
<1> HIDE DEF read
<1>15. ReadIndex(data) = [status |-> "ok", entries |-> read.entries]
  BY <1>13, <1>14, Zenon
<1> QED BY <1>12, <1>15 DEF data

\* What the two loops write is bounded, so a sequence of the kinds they take.
LEMMA SeqOfIs ==
    ASSUME NEW S, NEW n \in Nat, NEW s \in SeqOf(S, n)
    PROVE  s \in Seq(S) /\ Len(s) <= n
<1>1. PICK m \in 0 .. n : s \in [1 .. m -> S] BY DEF SeqOf
<1>2. m \in Nat /\ m <= n BY <1>1
<1>3. s \in Seq(S) BY <1>1, <1>2
<1>4. Len(s) = m BY <1>1, <1>2, <1>3
<1> QED BY <1>2, <1>3, <1>4

\* Inductive: nothing but what is read changes.
CodecInv ==
    /\ entries \in Seq(IndexEntry) /\ Len(entries) <= MaxInt32
    /\ blocks \in Seq(Extensions)
    /\ IndexRoundTrip

\* The reader of read_index.go gives back, entry by entry, what UpdateIndex wrote, or
\* git with extended flags and extension blocks: for indexes, lengths and fills of
\* every size, and whatever the hash is.
THEOREM CodecRoundTrip == CodecSpec => []IndexRoundTrip
<1>1. CodecInit => CodecInv
  <2> SUFFICES ASSUME CodecInit PROVE CodecInv OBVIOUS
  <2>1. entries \in SeqOf(IndexEntry, MaxEntries) /\ blocks \in SeqOf(Extensions, MaxBlocks)
    BY DEF CodecInit
  <2>2. MaxEntries \in Nat /\ MaxEntries <= MaxInt32 /\ MaxBlocks \in Nat /\ MaxInt32 \in Nat
    BY CodecAssumption, HighByte
  <2>3. entries \in Seq(IndexEntry) /\ Len(entries) <= MaxEntries BY <2>1, <2>2, SeqOfIs
  <2>4. blocks \in Seq(Extensions) BY <2>1, <2>2, SeqOfIs
  <2>5. Len(entries) <= MaxInt32
    <3>1. Len(entries) \in Nat BY <2>3
    <3> QED BY <2>2, <2>3, <3>1
  <2>6. IndexRoundTrip BY DEF CodecInit, IndexRoundTrip
  <2> QED BY <2>3, <2>4, <2>5, <2>6 DEF CodecInv
<1>2. CodecInv /\ [CodecStep]_<<entries, blocks, readBack>> => CodecInv'
  <2> SUFFICES ASSUME CodecInv, [CodecStep]_<<entries, blocks, readBack>> PROVE CodecInv'
    OBVIOUS
  <2>1. entries' = entries /\ blocks' = blocks BY DEF CodecStep
  <2>2. /\ entries \in Seq(IndexEntry) /\ Len(entries) <= MaxInt32
        /\ blocks \in Seq(Extensions) /\ IndexRoundTrip
    BY DEF CodecInv
  <2>3. IndexRoundTrip'
    <3>1. CASE CodecStep
      <4>1. readBack' = ReadIndex(WriteIndex(entries, blocks)) BY <3>1 DEF CodecStep
      <4>2. readBack' = [status |-> "ok", entries |-> entries]
        BY <2>2, <4>1, WrittenIsRead
      <4> QED BY <2>1, <4>2 DEF IndexRoundTrip
    <3>2. CASE UNCHANGED <<entries, blocks, readBack>>
      BY <2>2, <3>2 DEF IndexRoundTrip, Unread
    <3> QED BY <3>1, <3>2
  <2> QED BY <2>1, <2>2, <2>3 DEF CodecInv
<1>3. CodecInv => IndexRoundTrip BY DEF CodecInv
<1> QED BY <1>1, <1>2, <1>3, PTL DEF CodecSpec
-------------------------------------------------------------------------------
(* The merge of texts.  Loops first: what a function of the rounds made is. *)

\* The states of a loop of n rounds, next[i] what round i makes of a state.
LoopOf(f, n, start, next) ==
    f = [i \in 0 .. n |-> IF i = 0 THEN start ELSE next[i][f[i - 1]]]

\* The state after round i is one of V[i].
Visits(f, n, V) == \A i \in 0 .. n : f[i] \in V[i]

\* Such a function exists when each round is made in a state of its own set.
LEMMA LoopExists ==
    ASSUME NEW n \in Nat, NEW V, NEW start \in V[0], NEW next,
           \A i \in 1 .. n : \A x \in V[i - 1] : next[i][x] \in V[i]
    PROVE  \E f : LoopOf(f, n, start, next) /\ Visits(f, n, V)
<1> DEFINE Loop(k, f) == LoopOf(f, k, start, next) /\ Visits(f, k, V)
           T == {k \in 0 .. n : \E f : Loop(k, f)}
<1>1. 0 \in T
  <2> DEFINE f == [i \in 0 .. 0 |-> start]
  <2>1. LoopOf(f, 0, start, next) BY DEF LoopOf
  <2>2. Visits(f, 0, V)
    <3>1. \A i \in 0 .. 0 : i = 0 OBVIOUS
    <3> QED BY <3>1 DEF Visits
  <2>3. Loop(0, f) BY <2>1, <2>2
  <2> HIDE DEF Loop, f
  <2> QED BY <2>3
<1>2. ASSUME NEW k \in 1 .. n, k - 1 \in T PROVE k \in T
  <2>1. PICK f : Loop(k - 1, f) BY <1>2
  <2> DEFINE g == [i \in 0 .. k |-> IF i = k THEN next[k][f[k - 1]] ELSE f[i]]
  <2>2. \A i \in 0 .. k - 1 : g[i] = f[i] OBVIOUS
  <2>3. k \in 0 .. k /\ k - 1 \in 0 .. k - 1 /\ g[k] = next[k][f[k - 1]] OBVIOUS
  <2>4. f[k - 1] \in V[k - 1] BY <2>1, <2>3 DEF Visits
  <2>5. g[k] \in V[k] BY <2>3, <2>4
  <2>6. ASSUME NEW i \in 0 .. k PROVE g[i] \in V[i]
    <3>1. CASE i = k BY <2>5, <3>1
    <3>2. CASE i # k
      <4>1. i \in 0 .. k - 1 BY <3>2
      <4> QED BY <2>1, <2>2, <4>1 DEF Visits
    <3> QED BY <3>1, <3>2
  <2>7. ASSUME NEW i \in 0 .. k
        PROVE  g[i] = IF i = 0 THEN start ELSE next[i][g[i - 1]]
    <3>1. CASE i = k
      <4>1. i # 0 /\ g[i - 1] = f[i - 1] BY <2>2, <2>3, <3>1
      <4> QED BY <2>3, <3>1, <4>1
    <3>2. CASE i # k
      <4>1. i \in 0 .. k - 1 /\ (i # 0 => i - 1 \in 0 .. k - 1) BY <3>2
      <4>2. f[i] = IF i = 0 THEN start ELSE next[i][f[i - 1]] BY <2>1, <4>1 DEF LoopOf
      <4> QED BY <2>2, <4>1, <4>2
    <3> QED BY <3>1, <3>2
  <2>8. g = [i \in 0 .. k |-> g[i]] OBVIOUS
  <2> HIDE DEF g
  <2>9. LoopOf(g, k, start, next) BY <2>7, <2>8 DEF LoopOf
  <2>10. Loop(k, g) BY <2>6, <2>9 DEF Visits
  <2> HIDE DEF Loop
  <2> QED BY <2>10
<1> HIDE DEF T
<1>3. n \in T BY <1>1, <1>2, UpTo0
<1> QED BY <1>3 DEF T

\* The same, state by state.
Runs(f, n, start, next, V) ==
    /\ f = [i \in 0 .. n |-> f[i]]
    /\ f[0] = start /\ f[0] \in V[0]
    /\ \A i \in 1 .. n : /\ f[i - 1] \in V[i - 1] /\ f[i] \in V[i]
                         /\ f[i] = next[i][f[i - 1]]

\* A loop whose rounds are defined on the states that they are made in exists.
LEMMA LoopRuns ==
    ASSUME NEW n \in Nat, NEW V, NEW start \in V[0], NEW next,
           \A i \in 1 .. n : \A x \in V[i - 1] : next[i][x] \in V[i]
    PROVE  \E f : Runs(f, n, start, next, V)
<1>1. PICK f : LoopOf(f, n, start, next) /\ Visits(f, n, V) BY LoopExists
<1>2. 0 \in 0 .. n /\ \A i \in 1 .. n : i \in 0 .. n /\ i - 1 \in 0 .. n /\ i # 0 OBVIOUS
<1>3. f = [i \in 0 .. n |-> f[i]] BY <1>1 DEF LoopOf
<1>4. f[0] = start /\ \A i \in 1 .. n : f[i] = next[i][f[i - 1]] BY <1>1, <1>2 DEF LoopOf
<1> QED BY <1>1, <1>2, <1>3, <1>4 DEF Visits, Runs

\* Two loops in the same states.
Alike(f, g, n) == \A i \in 0 .. n : f[i] = g[i]

\* Two loops that start alike and make the same rounds stay alike.
LEMMA LoopUnique ==
    ASSUME NEW n \in Nat, NEW f, NEW g, f[0] = g[0],
           \A i \in 1 .. n : f[i - 1] = g[i - 1] => f[i] = g[i]
    PROVE  Alike(f, g, n)
<1> DEFINE T == {i \in 0 .. n : f[i] = g[i]}
<1>1. 0 \in T /\ \A i \in 1 .. n : i - 1 \in T => i \in T OBVIOUS
<1> HIDE DEF T
<1>2. 0 .. n \subseteq T BY <1>1, UpTo0
<1> QED BY <1>2 DEF T, Alike

\* The states of a loop satisfy its invariant.
LEMMA LoopInvariant ==
    ASSUME NEW n \in Nat, NEW V, NEW f, f[0] \in V[0],
           \A i \in 1 .. n : f[i - 1] \in V[i - 1] => f[i] \in V[i]
    PROVE  Visits(f, n, V)
<1> DEFINE T == {i \in 0 .. n : f[i] \in V[i]}
<1>1. 0 \in T /\ \A i \in 1 .. n : i - 1 \in T => i \in T OBVIOUS
<1> HIDE DEF T
<1>2. 0 .. n \subseteq T BY <1>1, UpTo0
<1> QED BY <1>2 DEF T, Visits

-------------------------------------------------------------------------------
\* The edits between a base of n lines and a text, in a sequence: they lie in
\* the base, in order, with a line of the base between any two.
Edit(n) == {e \in [from : 0 .. n, to : 0 .. n, lines : Seq(Line)] : e.from <= e.to}

\* The sequences of edits that a merge is given.
EditList(n) ==
    {s \in Seq(Edit(n)) : \A i \in 2 .. Len(s) : s[i - 1].to < s[i].from}

\* Without, as a loop.
Keeping(script, operation, kept) ==
    kept = [i \in 0 .. Len(script) |->
              IF i = 0 THEN <<>>
              ELSE IF script[i].op = operation THEN kept[i - 1]
              ELSE kept[i - 1] \o script[i].text]

\* The lines of the operations before and after a point of a script.
LEMMA WithoutIs ==
    ASSUME NEW script \in Seq(Operations(Line)), NEW operation
    PROVE  \E kept : /\ Keeping(script, operation, kept)
                     /\ \A i \in 0 .. Len(script) : kept[i] \in Seq(Line)
                     /\ Without(script, operation) = kept[Len(script)]
<1> DEFINE n == Len(script)
           V == [i \in 0 .. n |-> Seq(Line)]
           Step(x, i) == IF script[i].op = operation THEN x ELSE x \o script[i].text
           next == [i \in 1 .. n |-> [x \in Seq(Line) |-> Step(x, i)]]
           kept == CHOOSE f : Keeping(script, operation, f)
<1>1. n \in Nat /\ \A i \in 1 .. n : script[i].text \in Seq(Line)
  <2>1. \A i \in 1 .. n : script[i] \in Operations(Line) OBVIOUS
  <2> QED BY <2>1 DEF Operations
<1>2. \A i \in 1 .. n : \A x \in Seq(Line) : Step(x, i) \in Seq(Line)
  BY <1>1
<1> HIDE DEF Step
<1>3. \A i \in 1 .. n : \A x \in V[i - 1] : next[i][x] \in V[i]
  <2>1. \A i \in 1 .. n : V[i - 1] = Seq(Line) /\ V[i] = Seq(Line) BY <1>1
  <2> QED BY <1>2, <2>1
<1>4. <<>> \in V[0] /\ \A i \in 0 .. n : V[i] = Seq(Line) BY <1>1
<1> HIDE DEF V
<1>5. PICK f : Runs(f, n, <<>>, next, V)
  <2> HIDE DEF next, n
  <2> QED BY <1>1, <1>3, <1>4, LoopRuns
<1>6. Keeping(script, operation, f)
  <2>1. ASSUME NEW i \in 1 .. n PROVE f[i] = Step(f[i - 1], i)
    <3>1. i - 1 \in 0 .. n BY <1>1
    <3>2. f[i - 1] \in V[i - 1] /\ f[i] = next[i][f[i - 1]]
      <4> HIDE DEF next, n
      <4> QED BY <1>5 DEF Runs
    <3> QED BY <1>4, <3>1, <3>2
  <2> HIDE DEF next
  <2>2. ASSUME NEW i \in 0 .. n PROVE f[i] = IF i = 0 THEN <<>> ELSE Step(f[i - 1], i)
    <3>1. i # 0 => i \in 1 .. n OBVIOUS
    <3> QED BY <1>5, <2>1, <3>1 DEF Runs
  <2> QED BY <1>5, <2>2 DEF Keeping, Step, Runs
<1>7. Keeping(script, operation, kept) BY <1>6, Zenon
<1>8. \A i \in 0 .. n : kept[i] \in Seq(Line)
  <2> HIDE DEF kept
  <2>1. kept[0] \in V[0] BY <1>1, <1>4, <1>7 DEF Keeping
  <2>2. ASSUME NEW i \in 1 .. n, kept[i - 1] \in V[i - 1] PROVE kept[i] \in V[i]
    <3>1. i \in 0 .. n /\ i - 1 \in 0 .. n /\ i # 0 BY <1>1
    <3>2. kept[i] = Step(kept[i - 1], i) BY <1>7, <3>1 DEF Keeping, Step
    <3> QED BY <1>2, <1>4, <2>2, <3>1, <3>2
  <2> HIDE DEF n
  <2>3. Visits(kept, n, V) BY <1>1, <2>1, <2>2, LoopInvariant
  <2> QED BY <1>4, <2>3 DEF Visits
<1>9. Without(script, operation) = kept[n] BY DEF Without, Keeping
<1> QED BY <1>7, <1>8, <1>9

\* Each operation that is kept adds its lines, so no point is beyond the end.
Lengthens(kept, script, operation) ==
    /\ Len(kept[0]) = 0
    /\ \A i \in 1 .. Len(script) :
         Len(kept[i]) = Len(kept[i - 1]) + (IF script[i].op = operation THEN 0
                                            ELSE Len(script[i].text))
    /\ \A i \in 0 .. Len(script) : Len(kept[i]) \in 0 .. Len(kept[Len(script)])

\* Operations that are left out make a text no longer.
LEMMA KeepingGrows ==
    ASSUME NEW script \in Seq(Operations(Line)), NEW operation, NEW kept,
           Keeping(script, operation, kept),
           \A i \in 0 .. Len(script) : kept[i] \in Seq(Line)
    PROVE  Lengthens(kept, script, operation)
<1> DEFINE n == Len(script)
           len(i) == Len(kept[i])
           T == {j \in 0 .. n : \A i \in 0 .. j : len(i) <= len(j)}
<1>1. n \in Nat /\ \A i \in 1 .. n : script[i].text \in Seq(Line)
  <2>1. \A i \in 1 .. n : script[i] \in Operations(Line) OBVIOUS
  <2> QED BY <2>1 DEF Operations
<1>2. \A i \in 0 .. n : len(i) \in Nat OBVIOUS
<1>3. len(0) = 0 BY <1>1 DEF Keeping
<1>4. ASSUME NEW i \in 1 .. n
      PROVE  len(i) = len(i - 1) + (IF script[i].op = operation THEN 0
                                    ELSE Len(script[i].text))
  <2>1. i \in 0 .. n /\ i - 1 \in 0 .. n /\ i # 0 BY <1>1
  <2>2. kept[i - 1] \in Seq(Line) /\ script[i].text \in Seq(Line) BY <1>1, <2>1
  <2>3. kept[i] = IF script[i].op = operation THEN kept[i - 1]
                  ELSE kept[i - 1] \o script[i].text
    BY <2>1 DEF Keeping
  <2>4. CASE script[i].op = operation BY <2>2, <2>3, <2>4
  <2>5. CASE script[i].op # operation
    <3> DEFINE x == kept[i - 1]
               y == script[i].text
    <3>1. x \in Seq(Line) /\ y \in Seq(Line) /\ kept[i] = x \o y BY <2>2, <2>3, <2>5
    <3> HIDE DEF x, y
    <3>2. Len(kept[i]) = Len(x) + Len(y) BY <3>1, ConcatProperties
    <3> QED BY <2>5, <3>2 DEF x, y
  <2> QED BY <2>4, <2>5
<1>5. \A i \in 1 .. n : Len(script[i].text) \in Nat BY <1>1
<1> HIDE DEF n, len
<1>6. 0 \in T
  <2>1. 0 \in 0 .. n /\ \A i \in 0 .. 0 : i = 0 BY <1>1
  <2> QED BY <1>2, <2>1
<1>7. ASSUME NEW j \in 1 .. n, j - 1 \in T PROVE j \in T
  <2>1. j \in 0 .. n /\ j - 1 \in 0 .. n BY <1>1
  <2>2. len(j - 1) <= len(j) BY <1>2, <1>4, <1>5, <2>1
  <2>3. ASSUME NEW i \in 0 .. j PROVE len(i) <= len(j)
    <3>1. CASE i = j BY <1>2, <2>1, <3>1
    <3>2. CASE i # j
      <4>1. i \in 0 .. j - 1 /\ i \in 0 .. n BY <1>1, <3>2
      <4>2. len(i) <= len(j - 1) BY <1>7, <4>1
      <4> QED BY <1>2, <2>1, <2>2, <4>1, <4>2
    <3> QED BY <3>1, <3>2
  <2> QED BY <2>1, <2>3
<1>8. n \in T
  <2> HIDE DEF T
  <2>1. 0 .. n \subseteq T BY <1>1, <1>6, <1>7, UpTo0
  <2> QED BY <1>1, <2>1
<1>9. \A i \in 0 .. n : len(i) \in 0 .. len(n) BY <1>1, <1>2, <1>8
<1> HIDE DEF T
<1> QED BY <1>3, <1>4, <1>9 DEF n, len, Lengthens

\* What DiffToEdits has when k of the n lines of the base are read: edits that
\* lie before the one that is open, or before what comes next.
EditsSoFar(n, k) ==
    {acc \in [edits : EditList(n), open : Edit(n) \cup {NoEdit}, at : {k}] :
       IF acc.open = NoEdit THEN \A i \in 1 .. Len(acc.edits) : acc.edits[i].to < k
       ELSE /\ acc.open.to = k
            /\ \A i \in 1 .. Len(acc.edits) : acc.edits[i].to < acc.open.from}

\* There is an open edit, or there is none.
LEMMA NoEditIsNone ==
    ASSUME NEW n \in Nat
    PROVE  NoEdit \notin Edit(n)
BY DEF NoEdit, Edit

\* A list of edits grows at its end.
LEMMA EditListGrows ==
    ASSUME NEW n \in Nat, NEW s \in EditList(n), NEW e \in Edit(n),
           \A i \in 1 .. Len(s) : s[i].to < e.from
    PROVE  /\ Append(s, e) \in EditList(n)
           /\ Len(Append(s, e)) = Len(s) + 1
           /\ \A i \in 1 .. Len(s) : Append(s, e)[i] = s[i]
           /\ Append(s, e)[Len(s) + 1] = e
<1>1. s \in Seq(Edit(n)) /\ \A i \in 2 .. Len(s) : s[i - 1].to < s[i].from BY DEF EditList
<1> DEFINE t == Append(s, e)
<1>2. /\ t \in Seq(Edit(n)) /\ Len(t) = Len(s) + 1 /\ Len(s) \in Nat
      /\ \A i \in 1 .. Len(s) : t[i] = s[i]
      /\ t[Len(s) + 1] = e
  BY <1>1, AppendProperties
<1> HIDE DEF t
<1>3. ASSUME NEW i \in 2 .. Len(t) PROVE t[i - 1].to < t[i].from
  <2>1. i - 1 \in 1 .. Len(s) /\ t[i - 1] = s[i - 1] BY <1>2
  <2>2. CASE i = Len(t) BY <1>2, <2>1, <2>2
  <2>3. CASE i # Len(t)
    <3>1. i \in 2 .. Len(s) /\ i \in 1 .. Len(s) BY <1>2, <2>3
    <3> QED BY <1>1, <1>2, <2>1, <3>1
  <2> QED BY <2>2, <2>3
<1>4. t \in EditList(n) BY <1>2, <1>3 DEF EditList
<1> QED BY <1>2, <1>4 DEF t

\* The open edit is the last one.
LEMMA ClosedIs ==
    ASSUME NEW n \in Nat, NEW k \in 0 .. n, NEW acc \in EditsSoFar(n, k)
    PROVE  /\ Closed(acc) \in EditList(n)
           /\ \A i \in 1 .. Len(Closed(acc)) : Closed(acc)[i].to <= k
<1>1. /\ acc.edits \in EditList(n) /\ acc.open \in Edit(n) \cup {NoEdit}
      /\ acc.edits \in Seq(Edit(n))
  BY DEF EditsSoFar, EditList
<1>2. \A i \in 1 .. Len(acc.edits) : acc.edits[i].to \in Nat
  <2>1. \A i \in 1 .. Len(acc.edits) : acc.edits[i] \in Edit(n) BY <1>1
  <2> QED BY <2>1 DEF Edit
<1>3. CASE acc.open = NoEdit
  <2>1. \A i \in 1 .. Len(acc.edits) : acc.edits[i].to < k BY <1>3 DEF EditsSoFar
  <2> QED BY <1>1, <1>2, <1>3, <2>1 DEF Closed
<1>4. CASE acc.open # NoEdit
  <2> DEFINE e == acc.open
             s == acc.edits
  <2>1. /\ e \in Edit(n) /\ e.to = k /\ e.from \in Nat /\ e.from <= k
        /\ \A i \in 1 .. Len(s) : s[i].to < e.from
    <3>1. e \in Edit(n) /\ e.to = k BY <1>1, <1>4 DEF EditsSoFar
    <3>2. \A i \in 1 .. Len(s) : s[i].to < e.from BY <1>4 DEF EditsSoFar
    <3> QED BY <3>1, <3>2 DEF Edit
  <2>2. Closed(acc) = Append(s, e) BY <1>4 DEF Closed
  <2>3. Len(s) \in Nat /\ \A i \in 1 .. Len(s) : s[i].to \in Nat BY <1>1, <1>2
  <2>4. s \in EditList(n) BY <1>1
  <2> HIDE DEF e, s
  <2>5. /\ Append(s, e) \in EditList(n) /\ Len(Append(s, e)) = Len(s) + 1
        /\ \A i \in 1 .. Len(s) : Append(s, e)[i] = s[i]
        /\ Append(s, e)[Len(s) + 1] = e
    BY <2>1, <2>4, EditListGrows
  <2>6. ASSUME NEW i \in 1 .. Len(s) + 1 PROVE Append(s, e)[i].to <= k
    <3>1. CASE i = Len(s) + 1 BY <2>1, <2>5, <3>1
    <3>2. CASE i # Len(s) + 1
      <4>1. i \in 1 .. Len(s) BY <2>3, <3>2
      <4> QED BY <2>1, <2>3, <2>5, <4>1
    <3> QED BY <3>1, <3>2
  <2> QED BY <2>2, <2>5, <2>6
<1> QED BY <1>3, <1>4

\* One operation of the script keeps the edits in order.
LEMMA EditStepKeeps ==
    ASSUME NEW n \in Nat, NEW k \in 0 .. n, NEW acc \in EditsSoFar(n, k),
           NEW o \in Operations(Line), NEW m \in 0 .. n,
           m = k + (IF o.op = INSERT THEN 0 ELSE Len(o.text))
    PROVE  EditStep(acc, o) \in EditsSoFar(n, m)
<1> DEFINE size == Len(o.text)
           open == IF acc.open = NoEdit
                   THEN [from |-> acc.at, to |-> acc.at, lines |-> <<>>] ELSE acc.open
<1>1. /\ o.op \in {EQUAL, INSERT, DELETE} /\ o.text \in Seq(Line) /\ size \in Nat \ {0}
  <2>1. o.op \in {EQUAL, INSERT, DELETE} /\ o.text \in Seq(Line) /\ o.text # <<>>
    BY DEF Operations
  <2> QED BY <2>1, EmptySeq
<1>2. /\ acc.edits \in EditList(n) /\ acc.open \in Edit(n) \cup {NoEdit} /\ acc.at = k
      /\ acc = [edits |-> acc.edits, open |-> acc.open, at |-> acc.at]
  BY DEF EditsSoFar
<1>3. /\ open \in Edit(n) /\ open.to = k
      /\ \A i \in 1 .. Len(acc.edits) : acc.edits[i].to < open.from
  <2>1. CASE acc.open = NoEdit
    <3>1. \A i \in 1 .. Len(acc.edits) : acc.edits[i].to < k BY <2>1 DEF EditsSoFar
    <3>2. open = [from |-> k, to |-> k, lines |-> <<>>] BY <1>2, <2>1
    <3> HIDE DEF open
    <3>3. <<>> \in Seq(Line) BY EmptySeq
    <3>4. open \in Edit(n) /\ open.to = k /\ open.from = k BY <3>2, <3>3 DEF Edit
    <3> QED BY <3>1, <3>4
  <2>2. CASE acc.open # NoEdit
    <3>1. acc.open \in Edit(n) /\ acc.open.to = k BY <1>2, <2>2 DEF EditsSoFar
    <3>2. \A i \in 1 .. Len(acc.edits) : acc.edits[i].to < acc.open.from
      BY <2>2 DEF EditsSoFar
    <3> QED BY <2>2, <3>1, <3>2
  <2> QED BY <2>1, <2>2
<1>4. EditStep(acc, o) =
        CASE o.op = EQUAL -> [edits |-> Closed(acc), open |-> NoEdit, at |-> k + size]
          [] o.op = DELETE -> [edits |-> acc.edits, open |-> [open EXCEPT !.to = @ + size],
                               at |-> k + size]
          [] o.op = INSERT -> [edits |-> acc.edits,
                               open |-> [open EXCEPT !.lines = open.lines \o o.text], at |-> k]
  <2> HIDE DEF size
  <2> QED BY <1>1, <1>2 DEF EditStep, size, EQUAL, INSERT, DELETE
<1> HIDE DEF size, open
<1>5. open.from \in Nat /\ open.from <= k /\ open.lines \in Seq(Line)
      /\ open = [from |-> open.from, to |-> open.to, lines |-> open.lines]
  BY <1>3 DEF Edit
<1>6. CASE o.op = EQUAL
  <2>1. m = k + size BY <1>6 DEF EQUAL, INSERT, size
  <2>2. /\ Closed(acc) \in EditList(n)
        /\ \A i \in 1 .. Len(Closed(acc)) : Closed(acc)[i].to <= k
    BY ClosedIs
  <2>3. \A i \in 1 .. Len(Closed(acc)) : Closed(acc)[i].to \in Nat
    <3>1. \A i \in 1 .. Len(Closed(acc)) : Closed(acc)[i] \in Edit(n) BY <2>2 DEF EditList
    <3> QED BY <3>1 DEF Edit
  <2>4. EditStep(acc, o) = [edits |-> Closed(acc), open |-> NoEdit, at |-> m]
    BY <1>4, <1>6, <2>1 DEF EQUAL, INSERT, DELETE
  <2>5. \A i \in 1 .. Len(Closed(acc)) : Closed(acc)[i].to < m BY <1>1, <2>1, <2>2, <2>3
  <2> QED BY <2>2, <2>4, <2>5 DEF EditsSoFar
<1>7. CASE o.op = DELETE
  <2>1. m = k + size BY <1>7 DEF DELETE, INSERT, size
  <2> DEFINE e == [open EXCEPT !.to = @ + size]
  <2>2. e = [from |-> open.from, to |-> m, lines |-> open.lines] BY <1>3, <1>5, <2>1
  <2>3. e \in Edit(n) BY <1>5, <2>1, <2>2, <1>1 DEF Edit
  <2>4. EditStep(acc, o) = [edits |-> acc.edits, open |-> e, at |-> m]
    BY <1>4, <1>7, <2>1 DEF EQUAL, INSERT, DELETE
  <2>5. e.from = open.from /\ e.to = m BY <2>2
  <2> HIDE DEF e
  <2>6. e # NoEdit BY <2>3, NoEditIsNone
  <2> QED BY <1>2, <1>3, <2>3, <2>4, <2>5, <2>6 DEF EditsSoFar
<1>8. CASE o.op = INSERT
  <2>1. m = k BY <1>8 DEF INSERT
  <2> DEFINE lines == open.lines \o o.text
             e == [open EXCEPT !.lines = lines]
  <2>3. lines \in Seq(Line) BY <1>1, <1>5, ConcatProperties
  <2> HIDE DEF lines
  <2>2. e = [from |-> open.from, to |-> open.to, lines |-> lines] BY <1>5
  <2>4. e \in Edit(n) BY <1>3, <1>5, <2>2, <2>3 DEF Edit
  <2>5. EditStep(acc, o) = [edits |-> acc.edits, open |-> e, at |-> m]
    <3>1. o.op # EQUAL /\ o.op # DELETE BY <1>8 DEF EQUAL, INSERT, DELETE
    <3> QED BY <1>4, <1>8, <2>1, <3>1, Zenon DEF lines
  <2>6. e.from = open.from /\ e.to = m BY <1>3, <2>1, <2>2
  <2> HIDE DEF e
  <2>7. e # NoEdit BY <2>4, NoEditIsNone
  <2> QED BY <1>2, <1>3, <2>4, <2>5, <2>6, <2>7 DEF EditsSoFar
<1> QED BY <1>1, <1>6, <1>7, <1>8

\* What DiffToEdits starts with.
NoEdits == [edits |-> <<>>, open |-> NoEdit, at |-> 0]

\* Its loop.
EditLoop(script, acc) ==
    acc = [i \in 0 .. Len(script) |->
             IF i = 0 THEN NoEdits ELSE EditStep(acc[i - 1], script[i])]

\* The edits of a script lie in the base, in order, and apart.
LEMMA DiffToEditsIs ==
    ASSUME NEW script \in Seq(Operations(Line)), NEW n, n = Len(Without(script, INSERT))
    PROVE  n \in Nat /\ DiffToEdits(script) \in EditList(n)
<1>1. PICK kept : /\ Keeping(script, INSERT, kept)
                  /\ \A i \in 0 .. Len(script) : kept[i] \in Seq(Line)
                  /\ Without(script, INSERT) = kept[Len(script)]
  BY WithoutIs
<1> DEFINE size == Len(script)
           at(i) == Len(kept[i])
<1>2. /\ size \in Nat /\ at(0) = 0
      /\ \A i \in 1 .. size :
           at(i) = at(i - 1) + (IF script[i].op = INSERT THEN 0 ELSE Len(script[i].text))
      /\ \A i \in 0 .. size : at(i) \in 0 .. n
  <2>1. Lengthens(kept, script, INSERT) BY <1>1, KeepingGrows
  <2>2. n = Len(kept[Len(script)]) BY <1>1
  <2>3. \A i \in 0 .. size : at(i) \in 0 .. n BY <2>1, <2>2, Zenon DEF Lengthens
  <2>4. /\ at(0) = 0
        /\ \A i \in 1 .. size :
             at(i) = at(i - 1) + (IF script[i].op = INSERT THEN 0 ELSE Len(script[i].text))
    BY <2>1, Zenon DEF Lengthens
  <2>5. size \in Nat OBVIOUS
  <2> QED BY <2>3, <2>4, <2>5, Zenon
<1>3. n \in Nat BY <1>1
<1>4. \A i \in 1 .. size : script[i] \in Operations(Line) OBVIOUS
<1> DEFINE V == [i \in 0 .. size |-> EditsSoFar(n, at(i))]
           next == [i \in 1 .. size |-> [x \in V[i - 1] |-> EditStep(x, script[i])]]
           acc == CHOOSE f : EditLoop(script, f)
<1> HIDE DEF size, at
<1>5. ASSUME NEW i \in 1 .. size, NEW x \in V[i - 1] PROVE EditStep(x, script[i]) \in V[i]
  <2>1. i \in 0 .. size /\ i - 1 \in 0 .. size BY <1>2
  <2>2. at(i) \in 0 .. n /\ at(i - 1) \in 0 .. n /\ x \in EditsSoFar(n, at(i - 1))
    BY <1>2, <2>1
  <2>3. EditStep(x, script[i]) \in EditsSoFar(n, at(i))
    BY <1>2, <1>3, <1>4, <2>2, EditStepKeeps
  <2> QED BY <2>1, <2>3
<1>6. NoEdits \in V[0]
  <2>1. <<>> \in Seq(Edit(n)) /\ Len(<<>>) = 0 BY EmptySeq
  <2>2. <<>> \in EditList(n) BY <2>1 DEF EditList
  <2>3. NoEdits \in EditsSoFar(n, 0) BY <2>1, <2>2 DEF EditsSoFar, NoEdits
  <2> QED BY <1>2, <2>3
<1>7. \A i \in 1 .. size : \A x \in V[i - 1] : next[i][x] \in V[i] BY <1>5
<1>8. \A i \in 1 .. size : \A x \in V[i - 1] : next[i][x] = EditStep(x, script[i]) OBVIOUS
<1>9. \A i \in 0 .. size : V[i] = EditsSoFar(n, at(i)) OBVIOUS
<1> HIDE DEF V, next
<1>10. PICK f : Runs(f, size, NoEdits, next, V) BY <1>2, <1>6, <1>7, LoopRuns
<1>11. EditLoop(script, f)
  <2>1. \A i \in 1 .. size : f[i] = EditStep(f[i - 1], script[i]) BY <1>8, <1>10 DEF Runs
  <2>2. ASSUME NEW i \in 0 .. size
        PROVE  f[i] = IF i = 0 THEN NoEdits ELSE EditStep(f[i - 1], script[i])
    <3>1. i # 0 => i \in 1 .. size BY <1>2
    <3> QED BY <1>10, <2>1, <3>1 DEF Runs
  <2> QED BY <1>10, <2>2 DEF EditLoop, Runs, size
<1>12. EditLoop(script, acc) BY <1>11, Zenon
<1> HIDE DEF acc
<1>13. acc[0] = NoEdits /\ \A i \in 1 .. size : acc[i] = EditStep(acc[i - 1], script[i])
  <2>1. 0 \in 0 .. size /\ \A i \in 1 .. size : i \in 0 .. size /\ i # 0 BY <1>2
  <2> QED BY <1>12, <2>1 DEF EditLoop, size
<1>14. Visits(acc, size, V) BY <1>2, <1>5, <1>6, <1>13, LoopInvariant
<1>15. acc[size] \in EditsSoFar(n, at(size)) /\ at(size) \in 0 .. n
  <2>1. size \in 0 .. size BY <1>2
  <2> QED BY <1>2, <1>9, <1>14, <2>1 DEF Visits
<1>16. Closed(acc[size]) \in EditList(n) BY <1>3, <1>15, ClosedIs
<1>17. DiffToEdits(script) = Closed(acc[size])
  BY DEF DiffToEdits, acc, EditLoop, NoEdits, size
<1> QED BY <1>3, <1>16, <1>17

\* A text is a sequence of lines.
LEMMA TextIs ==
    ASSUME NEW text \in Texts
    PROVE  text \in Seq(Line) /\ Len(text) \in Nat
<1>1. PICK m \in 0 .. MaxLines : text \in [1 .. m -> Line] BY DEF Texts, SeqOf
<1>2. m \in Nat BY <1>1, TextAssumption
<1> QED BY <1>1, <1>2, SeqDef

\* What the diff of two texts is turned into.
LEMMA EditsAre ==
    ASSUME NEW a \in Texts, NEW b \in Texts
    PROVE  Edits(a, b) \in EditList(Len(a))
<1>1. Diff(a, b) \in Seq(Operations(Line)) /\ Without(Diff(a, b), INSERT) = a
  BY TextAssumption
<1> DEFINE script == Diff(a, b)
<1> HIDE DEF script
<1>2. DiffToEdits(script) \in EditList(Len(a)) BY <1>1, DiffToEditsIs DEF script
<1> QED BY <1>2 DEF Edits, script

-------------------------------------------------------------------------------
\* What both sides changed in a base of n lines.
EditLists(n, edits) == \A s \in Sides : edits[s] \in EditList(n)

\* The regions that a round starts from or leads to.
Regions(n, edits) ==
    {r \in [start : 0 .. n, end : 0 .. n, idx : [Sides -> Nat]] :
       \A s \in Sides : r.idx[s] <= Len(edits[s])}

\* A side has no edit that joins a region.
Blocked(edits, r, side) ==
    r.idx[side] = Len(edits[side]) \/ edits[side][r.idx[side] + 1].from > r.end

\* An edit that a side has left.
LEMMA NextEdit ==
    ASSUME NEW n \in Nat, NEW edits, EditLists(n, edits), NEW s \in Sides,
           NEW i \in Nat, i < Len(edits[s])
    PROVE  /\ edits[s][i + 1] \in Edit(n)
           /\ edits[s][i + 1].from \in 0 .. n /\ edits[s][i + 1].to \in 0 .. n
           /\ edits[s][i + 1].from <= edits[s][i + 1].to
<1> DEFINE t == edits[s]
<1>1. t \in Seq(Edit(n)) BY DEF EditLists, EditList
<1>2. i + 1 \in 1 .. Len(t) BY <1>1
<1>3. t[i + 1] \in Edit(n) BY <1>1, <1>2, ElementOfSeq
<1> HIDE DEF t
<1> QED BY <1>3 DEF t, Edit

\* A region is its three fields, and its indices are within the lists.
LEMMA RegionFields ==
    ASSUME NEW n \in Nat, NEW edits, EditLists(n, edits), NEW r \in Regions(n, edits)
    PROVE  /\ r.start \in 0 .. n /\ r.end \in 0 .. n /\ r.idx \in [Sides -> Nat]
           /\ r = [start |-> r.start, end |-> r.end, idx |-> r.idx]
           /\ \A s \in Sides : /\ r.idx[s] \in Nat /\ Len(edits[s]) \in Nat
                               /\ r.idx[s] <= Len(edits[s])
<1>1. r \in [start : 0 .. n, end : 0 .. n, idx : [Sides -> Nat]] BY DEF Regions
<1>2. \A s \in Sides : r.idx[s] <= Len(edits[s]) BY DEF Regions
<1>3. \A s \in Sides : edits[s] \in Seq(Edit(n)) BY DEF EditLists, EditList
<1>4. \A s \in Sides : Len(edits[s]) \in Nat BY <1>3, LenProperties
<1> QED BY <1>1, <1>2, <1>4

\* A side that is blocked leaves a region as it is.
LEMMA TakeBlocked ==
    ASSUME NEW edits, NEW r, NEW s, Blocked(edits, r, s)
    PROVE  Take(edits, r, s) = r
BY DEF Take, Blocked

\* One that is not adds its next edit.
Joined(edits, r, side, q) ==
    LET e == edits[side][r.idx[side] + 1]
    IN /\ r.idx[side] < Len(edits[side]) /\ e.from <= r.end
       /\ q.start = r.start
       /\ q.end = IF e.to > r.end THEN e.to ELSE r.end
       /\ q.idx[side] = r.idx[side] + 1
       /\ \A s \in Sides : s # side => q.idx[s] = r.idx[s]

\* An edit that joins a region.
LEMMA TakeJoins ==
    ASSUME NEW n \in Nat, NEW edits, EditLists(n, edits), NEW r \in Regions(n, edits),
           NEW s \in Sides, ~Blocked(edits, r, s)
    PROVE  /\ Joined(edits, r, s, Take(edits, r, s))
           /\ Take(edits, r, s) \in Regions(n, edits)
<1> DEFINE e == edits[s][r.idx[s] + 1]
           end == IF e.to > r.end THEN e.to ELSE r.end
           idx == [r.idx EXCEPT ![s] = @ + 1]
           q == Take(edits, r, s)
<1>1. /\ r.start \in 0 .. n /\ r.end \in 0 .. n /\ r.idx \in [Sides -> Nat]
      /\ r = [start |-> r.start, end |-> r.end, idx |-> r.idx]
      /\ \A t \in Sides : /\ r.idx[t] \in Nat /\ Len(edits[t]) \in Nat
                          /\ r.idx[t] <= Len(edits[t])
  BY RegionFields
<1>2. r.idx[s] < Len(edits[s]) BY <1>1 DEF Blocked
<1>3. e.from \in 0 .. n /\ e.to \in 0 .. n BY <1>1, <1>2, NextEdit
<1>4. e.from <= r.end BY <1>1, <1>3 DEF Blocked
<1> HIDE DEF e
<1>5. /\ idx \in [Sides -> Nat] /\ idx[s] = r.idx[s] + 1
      /\ \A t \in Sides : t # s => idx[t] = r.idx[t]
  BY <1>1
<1>6. end \in 0 .. n BY <1>1, <1>3
<1>7. q = [start |-> r.start, end |-> end, idx |-> idx]
  <2>1. q = [r EXCEPT !.idx[s] = @ + 1, !.end = end] BY DEF Take, Blocked, e
  <2> HIDE DEF end, q
  <2> QED BY <1>1, <2>1
<1> HIDE DEF q
<1>8. q.start = r.start /\ q.end = end /\ q.idx = idx BY <1>7
<1>9. \A t \in Sides : q.idx[t] <= Len(edits[t]) BY <1>1, <1>2, <1>5, <1>8
<1> HIDE DEF idx
<1>10. q \in Regions(n, edits)
  <2> HIDE DEF end
  <2> QED BY <1>1, <1>5, <1>6, <1>7, <1>8, <1>9 DEF Regions
<1>11. Joined(edits, r, s, q) BY <1>2, <1>4, <1>5, <1>8 DEF Joined, e
<1> QED BY <1>10, <1>11 DEF q

\* So a region stays one.
LEMMA TakeType ==
    ASSUME NEW n \in Nat, NEW edits, EditLists(n, edits), NEW r \in Regions(n, edits),
           NEW s \in Sides
    PROVE  Take(edits, r, s) \in Regions(n, edits)
BY TakeBlocked, TakeJoins

\* One round of Grow.
Round(edits, r) == Take(edits, Take(edits, r, "ours"), "theirs")

\* Its loop.
GrowLoop(edits, r, round) ==
    round = [i \in 0 .. Total(edits) |-> IF i = 0 THEN r ELSE Round(edits, round[i - 1])]

\* The rounds of Grow, one by one.
Grown(n, edits, r, round) ==
    /\ Total(edits) \in Nat
    /\ round[0] = r
    /\ \A i \in 1 .. Total(edits) : round[i] = Round(edits, round[i - 1])
    /\ \A i \in 0 .. Total(edits) : round[i] \in Regions(n, edits)
    /\ Grow(edits, r) = round[Total(edits)]

\* There are such rounds.
LEMMA GrowIs ==
    ASSUME NEW n \in Nat, NEW edits, EditLists(n, edits), NEW r \in Regions(n, edits)
    PROVE  \E round : Grown(n, edits, r, round)
<1> DEFINE m == Total(edits)
           R == Regions(n, edits)
           V == [i \in 0 .. m |-> R]
           next == [i \in 1 .. m |-> [x \in R |-> Round(edits, x)]]
           round == CHOOSE f : GrowLoop(edits, r, f)
<1>1. m \in Nat
  <2> DEFINE a == Len(edits["ours"])
             b == Len(edits["theirs"])
  <2>1. a \in Nat /\ b \in Nat BY RegionFields DEF Sides
  <2>2. m = a + b BY DEF Total
  <2> HIDE DEF a, b, m
  <2> QED BY <2>1, <2>2
<1>2. ASSUME NEW x \in R PROVE Round(edits, x) \in R
  <2>1. Take(edits, x, "ours") \in R BY TakeType DEF Sides
  <2> HIDE DEF R
  <2> QED BY <2>1, TakeType DEF Round, Sides, R
<1> HIDE DEF m, R
<1>3. \A i \in 0 .. m : V[i] = R OBVIOUS
<1>4. \A i \in 1 .. m : V[i - 1] = R /\ V[i] = R BY <1>1
<1>5. \A i \in 1 .. m : \A x \in R : next[i][x] = Round(edits, x) OBVIOUS
<1>6. r \in V[0] BY <1>1 DEF R
<1> HIDE DEF V, next
<1>7. \A i \in 1 .. m : \A x \in V[i - 1] : next[i][x] \in V[i] BY <1>2, <1>4, <1>5
<1>8. PICK f : Runs(f, m, r, next, V) BY <1>1, <1>6, <1>7, LoopRuns
<1>9. GrowLoop(edits, r, f)
  <2>1. \A i \in 1 .. m : f[i] = Round(edits, f[i - 1]) BY <1>4, <1>5, <1>8 DEF Runs
  <2>2. ASSUME NEW i \in 0 .. m
        PROVE  f[i] = IF i = 0 THEN r ELSE Round(edits, f[i - 1])
    <3>1. i # 0 => i \in 1 .. m BY <1>1
    <3> QED BY <1>8, <2>1, <3>1 DEF Runs
  <2> QED BY <1>8, <2>2 DEF GrowLoop, Runs, m
<1>10. GrowLoop(edits, r, round) BY <1>9, Zenon
<1> HIDE DEF round
<1>11. round[0] = r /\ \A i \in 1 .. m : round[i] = Round(edits, round[i - 1])
  <2>1. 0 \in 0 .. m /\ \A i \in 1 .. m : i \in 0 .. m /\ i # 0 BY <1>1
  <2> QED BY <1>10, <2>1 DEF GrowLoop, m
<1>12. Visits(round, m, V) BY <1>1, <1>2, <1>4, <1>6, <1>11, LoopInvariant
<1>13. \A i \in 0 .. m : round[i] \in R BY <1>3, <1>12 DEF Visits
<1>14. Grow(edits, r) = round[m] BY DEF Grow, round, GrowLoop, Round, m
<1>15. Grown(n, edits, r, round) BY <1>1, <1>11, <1>13, <1>14 DEF Grown, m, R
<1> QED BY <1>15

\* Some edit of ours overlaps or touches one of theirs.
Touch(edits) ==
    \E e \in ToSet(edits["ours"]), f \in ToSet(edits["theirs"]) :
        e.from <= f.to /\ f.from <= e.to

\* A region as it is opened: no line, right before the next edit of each side.
Opening(edits, r) ==
    /\ r.start = r.end
    /\ \A s \in Sides :
         r.idx[s] < Len(edits[s]) => r.start <= edits[s][r.idx[s] + 1].from

\* The edit of a side that opened a region is all that it has.
Single(edits, r, x, s) ==
    /\ r.idx[s] < Len(edits[s]) /\ x.idx[s] = r.idx[s] + 1
    /\ \A t \in Sides : t # s => x.idx[t] = r.idx[t]
    /\ LET e == edits[s][r.idx[s] + 1] IN e.from = r.start /\ e.to = x.end

\* The regions that grow from one that is opened: that one, those with a single
\* edit, and those in which the sides meet.
Meetings(n, edits, r) ==
    {x \in Regions(n, edits) :
       x = r \/ (\E s \in Sides : Single(edits, r, x, s)) \/ Touch(edits)}

\* Two edits of different sides, one of which starts in or right after the other.
LEMMA TouchIs ==
    ASSUME NEW n \in Nat, NEW edits, EditLists(n, edits),
           NEW s \in Sides, NEW t \in Sides, s # t,
           NEW i \in Nat, i < Len(edits[s]), NEW j \in Nat, j < Len(edits[t]),
           edits[s][i + 1].from <= edits[t][j + 1].from,
           edits[t][j + 1].from <= edits[s][i + 1].to
    PROVE  Touch(edits)
<1> DEFINE e == edits[s][i + 1]
           f == edits[t][j + 1]
<1>1. /\ e.from \in 0 .. n /\ e.to \in 0 .. n /\ e.from <= e.to
      /\ f.from \in 0 .. n /\ f.to \in 0 .. n /\ f.from <= f.to
  BY NextEdit
<1>2. e.from <= f.to /\ f.from <= e.to
  <2>1. e.from <= f.from /\ f.from <= e.to OBVIOUS
  <2> HIDE DEF e, f
  <2> QED BY <1>1, <2>1
<1>3. e \in ToSet(edits[s]) /\ f \in ToSet(edits[t])
  <2>1. edits[s] \in Seq(Edit(n)) /\ edits[t] \in Seq(Edit(n)) BY DEF EditLists, EditList
  <2>2. i + 1 \in DOMAIN edits[s] /\ j + 1 \in DOMAIN edits[t] BY <2>1
  <2> QED BY <2>2 DEF ToSet
<1> HIDE DEF e, f
<1>4. CASE s = "ours" /\ t = "theirs" BY <1>2, <1>3, <1>4 DEF Touch
<1>5. CASE s = "theirs" /\ t = "ours" BY <1>2, <1>3, <1>5 DEF Touch
<1> QED BY <1>4, <1>5 DEF Sides

\* The next edit opens a region, is too far away, or meets the other side.
LEMMA TakeMeets ==
    ASSUME NEW n \in Nat, NEW edits, EditLists(n, edits), NEW r \in Regions(n, edits),
           Opening(edits, r), NEW x \in Meetings(n, edits, r), NEW s \in Sides
    PROVE  Take(edits, x, s) \in Meetings(n, edits, r)
<1> DEFINE q == Take(edits, x, s)
<1>1. x \in Regions(n, edits) BY DEF Meetings
<1>2. CASE Blocked(edits, x, s) BY <1>2, TakeBlocked
<1>3. CASE ~Blocked(edits, x, s)
  <2>1. q \in Regions(n, edits) /\ Joined(edits, x, s, q) BY <1>1, <1>3, TakeJoins
  <2> HIDE DEF q
  <2> DEFINE e == edits[s][x.idx[s] + 1]
  <2>2. /\ x.idx[s] < Len(edits[s]) /\ e.from <= x.end
        /\ q.end = IF e.to > x.end THEN e.to ELSE x.end
        /\ q.idx[s] = x.idx[s] + 1
        /\ \A t \in Sides : t # s => q.idx[t] = x.idx[t]
    BY <2>1 DEF Joined
  <2>3. /\ x.end \in 0 .. n /\ r.start \in 0 .. n
        /\ \A t \in Sides : /\ x.idx[t] \in Nat /\ Len(edits[t]) \in Nat
                            /\ r.idx[t] \in Nat
    BY <1>1, RegionFields
  <2>4. e.from \in 0 .. n /\ e.to \in 0 .. n /\ e.from <= e.to BY <2>2, <2>3, NextEdit
  <2> HIDE DEF e
  <2>5. CASE x = r
    <3>1. r.start <= e.from /\ r.start = r.end BY <2>2, <2>5 DEF Opening, e
    <3>2. e.from = r.start BY <2>2, <2>3, <2>4, <2>5, <3>1
    <3>3. q.end = e.to BY <2>2, <2>3, <2>4, <2>5, <3>1, <3>2
    <3>4. Single(edits, r, q, s) BY <2>2, <2>5, <3>2, <3>3 DEF Single, e
    <3> QED BY <2>1, <3>4 DEF Meetings, q
  <2>6. ASSUME NEW t \in Sides, Single(edits, r, x, t) PROVE Touch(edits)
    <3> DEFINE d == edits[t][r.idx[t] + 1]
    <3>1. /\ r.idx[t] < Len(edits[t]) /\ x.idx[t] = r.idx[t] + 1
          /\ \A u \in Sides : u # t => x.idx[u] = r.idx[u]
          /\ d.from = r.start /\ d.to = x.end
      BY <2>6 DEF Single
    <3>2. CASE s = t
      <4> DEFINE k == x.idx[s] + 1
      <4>1. k \in 2 .. Len(edits[s]) /\ k - 1 = r.idx[t] + 1
        BY <2>2, <2>3, <3>1, <3>2
      <4>2. \A i \in 2 .. Len(edits[s]) : edits[s][i - 1].to < edits[s][i].from
        BY DEF EditLists, EditList
      <4>3. edits[s][k] = e BY DEF e
      <4> HIDE DEF k
      <4>4. edits[s][k - 1] = d BY <3>2, <4>1, Zenon
      <4> HIDE DEF d
      <4>5. d.to < e.from BY <4>1, <4>2, <4>3, <4>4
      <4>6. x.end < e.from BY <3>1, <4>5 DEF d
      <4> QED BY <2>2, <2>3, <2>4, <4>6
    <3>3. CASE s # t
      <4>1. x.idx[s] = r.idx[s] BY <3>1, <3>3
      <4>2. r.start <= e.from BY <2>2, <4>1 DEF Opening, e
      <4>3. d.from <= e.from /\ e.from <= d.to BY <2>2, <3>1, <4>2
      <4> QED BY <2>2, <2>3, <3>1, <3>3, <4>3, TouchIs DEF e
    <3> QED BY <3>2, <3>3
  <2>7. Touch(edits) \/ x = r BY <2>6 DEF Meetings
  <2> QED BY <2>1, <2>5, <2>7 DEF Meetings, q
<1> QED BY <1>2, <1>3

\* A region that edits of both sides are in is one in which they meet.
LEMMA GrowMeets ==
    ASSUME NEW n \in Nat, NEW edits, EditLists(n, edits), NEW r \in Regions(n, edits),
           Opening(edits, r), \A s \in Sides : r.idx[s] < Grow(edits, r).idx[s]
    PROVE  Touch(edits)
<1>1. PICK round : Grown(n, edits, r, round) BY GrowIs
<1> DEFINE m == Total(edits)
           M == Meetings(n, edits, r)
           V == [i \in 0 .. m |-> M]
<1>2. /\ m \in Nat /\ round[0] = r /\ Grow(edits, r) = round[m]
      /\ \A i \in 1 .. m : round[i] = Round(edits, round[i - 1])
  BY <1>1 DEF Grown
<1>3. r \in M BY DEF Meetings
<1>4. ASSUME NEW x \in M PROVE Round(edits, x) \in M
  <2>1. Take(edits, x, "ours") \in M BY TakeMeets DEF Sides
  <2> HIDE DEF M
  <2> QED BY <2>1, TakeMeets DEF Round, Sides, M
<1> HIDE DEF m, M
<1>5. (\A i \in 0 .. m : V[i] = M) /\ (\A i \in 1 .. m : V[i - 1] = M /\ V[i] = M)
  BY <1>2
<1>6. V[0] = M BY <1>2
<1> HIDE DEF V
<1>7. Visits(round, m, V) BY <1>2, <1>3, <1>4, <1>5, <1>6, LoopInvariant
<1>8. round[m] \in M BY <1>2, <1>5, <1>7 DEF Visits
<1> DEFINE g == Grow(edits, r)
<1>9. g \in M /\ \A s \in Sides : r.idx[s] < g.idx[s] BY <1>2, <1>8
<1> HIDE DEF g
<1>10. \A s \in Sides : r.idx[s] \in Nat BY RegionFields
<1>11. "ours" \in Sides /\ "theirs" \in Sides BY DEF Sides
<1>12. g # r BY <1>9, <1>10, <1>11
<1>13. ASSUME NEW s \in Sides PROVE ~Single(edits, r, g, s)
  <2>1. \E t \in Sides : t # s BY <1>11
  <2> QED BY <1>9, <1>10, <2>1 DEF Single
<1> QED BY <1>9, <1>12, <1>13 DEF M, Meetings

-------------------------------------------------------------------------------
\* The flattening, as a loop.
Flattening(seqs, f) ==
    f = [i \in 1 .. Len(seqs) |-> IF i = 1 THEN seqs[i] ELSE f[i - 1] \o seqs[i]]

\* Lines that are put together are lines.
LEMMA FlattenType ==
    ASSUME NEW seqs \in Seq(Seq(Line))
    PROVE  FlattenSeq(seqs) \in Seq(Line)
<1> DEFINE m == Len(seqs)
           S == Seq(Line)
           V == [i \in 0 .. m |-> S]
           Step(x, i) == x \o seqs[i]
           next == [i \in 1 .. m |-> [x \in S |-> Step(x, i)]]
           flat == CHOOSE f : Flattening(seqs, f)
<1>1. m \in Nat /\ \A i \in 1 .. m : seqs[i] \in S OBVIOUS
<1>2. ASSUME NEW x \in S, NEW i \in 1 .. m PROVE Step(x, i) \in S
  <2>1. seqs[i] \in S BY <1>1
  <2> QED BY <2>1, ConcatProperties
<1>3. <<>> \in S /\ \A i \in 1 .. m : Step(<<>>, i) = seqs[i]
  <2>1. <<>> \in S /\ \A x \in S : <<>> \o x = x BY EmptySeq, ConcatEmptySeq
  <2> QED BY <1>1, <2>1
<1>4. m = 0 => seqs \in S
  <2>1. m = 0 => seqs = <<>> OBVIOUS
  <2> QED BY <1>3, <2>1
<1> HIDE DEF m, S, Step
<1>5. \A i \in 0 .. m : V[i] = S OBVIOUS
<1>6. V[0] = S /\ \A i \in 1 .. m : V[i - 1] = S /\ V[i] = S BY <1>1
<1>7. \A i \in 1 .. m : \A x \in S : next[i][x] = Step(x, i) OBVIOUS
<1> HIDE DEF V, next
<1>8. \A i \in 1 .. m : \A x \in V[i - 1] : next[i][x] \in V[i] BY <1>2, <1>6, <1>7
<1>9. PICK f : Runs(f, m, <<>>, next, V) BY <1>1, <1>3, <1>6, <1>8, LoopRuns
<1>10. /\ f[0] = <<>>
       /\ \A i \in 1 .. m : f[i] \in S /\ f[i] = Step(f[i - 1], i)
  BY <1>6, <1>7, <1>9 DEF Runs
<1> DEFINE g == [i \in 1 .. m |-> f[i]]
<1>11. Flattening(seqs, g)
  <2>1. ASSUME NEW i \in 1 .. m
        PROVE  g[i] = IF i = 1 THEN seqs[i] ELSE Step(g[i - 1], i)
    <3>1. CASE i = 1
      <4>1. g[i] = Step(f[0], i) BY <1>10, <3>1
      <4> QED BY <1>3, <1>10, <3>1, <4>1
    <3>2. CASE i # 1
      <4>1. i - 1 \in 1 .. m BY <1>1, <3>2
      <4> QED BY <1>10, <3>2, <4>1
    <3> QED BY <3>1, <3>2
  <2>2. g = [i \in 1 .. m |-> g[i]] OBVIOUS
  <2> HIDE DEF g
  <2> QED BY <2>1, <2>2 DEF Flattening, m, Step
<1> HIDE DEF g
<1>12. Flattening(seqs, flat) BY <1>11, Zenon
<1> HIDE DEF flat
<1>13. m # 0 => flat[m] \in S
  <2> SUFFICES ASSUME m # 0 PROVE flat[m] \in S OBVIOUS
  <2> DEFINE T == {i \in 0 .. m : i # 0 => flat[i] \in S}
  <2>1. 0 \in T BY <1>1
  <2>2. ASSUME NEW i \in 1 .. m, i - 1 \in T PROVE i \in T
    <3>1. flat[i] = IF i = 1 THEN seqs[i] ELSE Step(flat[i - 1], i)
      BY <1>12 DEF Flattening, m, Step
    <3>2. CASE i = 1 BY <1>1, <3>1, <3>2
    <3>3. CASE i # 1
      <4>1. i - 1 # 0 /\ flat[i - 1] \in S BY <2>2, <3>3
      <4> QED BY <1>1, <1>2, <3>1, <3>3, <4>1
    <3> QED BY <3>2, <3>3, <1>1
  <2> HIDE DEF T
  <2>3. 0 .. m \subseteq T BY <1>1, <2>1, <2>2, UpTo0
  <2>4. m \in T BY <1>1, <2>3
  <2> QED BY <2>4 DEF T
<1>14. FlattenSeq(seqs) = IF m = 0 THEN seqs ELSE flat[m]
  BY DEF FlattenSeq, flat, Flattening, m
<1> QED BY <1>4, <1>13, <1>14 DEF S

\* A part of the base.
LEMMA BasePart ==
    ASSUME NEW n \in Nat, NEW b \in Seq(Line), Len(b) = n, NEW i \in 0 .. n, NEW j \in 0 .. n
    PROVE  SubSeq(b, i + 1, j) \in Seq(Line)
<1>1. \A k \in i + 1 .. j : b[k] \in Line OBVIOUS
<1> QED BY <1>1, SubSeqProperties

\* The fields of an edit of a group.
LEMMA GroupFields ==
    ASSUME NEW n \in Nat, NEW group \in Seq(Edit(n)), NEW i \in 1 .. Len(group)
    PROVE  /\ group[i].from \in 0 .. n /\ group[i].to \in 0 .. n
           /\ group[i].lines \in Seq(Line)
<1>1. group[i] \in Edit(n) BY ElementOfSeq
<1> QED BY <1>1 DEF Edit

\* The lines that edits put in are lines, and so is a region with its edits made.
LEMMA InsertedType ==
    ASSUME NEW n \in Nat, NEW group \in Seq(Edit(n))
    PROVE  Inserted(group) \in Seq(Line)
<1> DEFINE seqs == [i \in DOMAIN group |-> group[i].lines]
<1>1. Len(group) \in Nat /\ DOMAIN group = 1 .. Len(group) OBVIOUS
<1>2. \A i \in 1 .. Len(group) : group[i].lines \in Seq(Line) BY GroupFields
<1>3. seqs \in [1 .. Len(group) -> Seq(Line)] BY <1>1, <1>2
<1>4. seqs \in Seq(Seq(Line)) BY <1>1, <1>3, SeqDef
<1> HIDE DEF seqs
<1>5. FlattenSeq(seqs) \in Seq(Line) BY <1>4, FlattenType
<1> QED BY <1>5 DEF Inserted, seqs

\* A region with the edits of a side made.
LEMMA BuildType ==
    ASSUME NEW n \in Nat, NEW b \in Seq(Line), Len(b) = n, NEW start \in 0 .. n,
           NEW end \in 0 .. n, NEW group \in Seq(Edit(n))
    PROVE  BuildRegion(b, start, end, group) \in Seq(Line)
<1> DEFINE at(i) == IF i = 1 THEN start ELSE group[i - 1].to
           piece(i) == SubSeq(b, at(i) + 1, group[i].from) \o group[i].lines
           seqs == [i \in DOMAIN group |-> piece(i)]
           m == Len(group)
<1>1. m \in Nat /\ DOMAIN group = 1 .. m OBVIOUS
<1>2. \A i \in 1 .. m : /\ group[i].from \in 0 .. n /\ group[i].to \in 0 .. n
                        /\ group[i].lines \in Seq(Line)
  BY GroupFields
<1>3. ASSUME NEW i \in 1 .. m + 1 PROVE at(i) \in 0 .. n
  <2>1. i # 1 => i - 1 \in 1 .. m BY <1>1
  <2> QED BY <1>2, <2>1
<1> HIDE DEF at, m
<1>4. ASSUME NEW i \in 1 .. m PROVE piece(i) \in Seq(Line)
  <2>1. i \in 1 .. m + 1 BY <1>1
  <2>2. SubSeq(b, at(i) + 1, group[i].from) \in Seq(Line) BY <1>2, <1>3, <2>1, BasePart
  <2> QED BY <1>2, <2>2, ConcatProperties
<1> HIDE DEF piece
<1>5. seqs \in [1 .. m -> Seq(Line)] BY <1>1, <1>4
<1>6. seqs \in Seq(Seq(Line)) BY <1>1, <1>5, SeqDef
<1> HIDE DEF seqs
<1>7. FlattenSeq(seqs) \in Seq(Line) BY <1>6, FlattenType
<1>8. SubSeq(b, at(m + 1) + 1, end) \in Seq(Line)
  <2>1. m + 1 \in 1 .. m + 1 BY <1>1
  <2> QED BY <1>3, <2>1, BasePart
<1>9. FlattenSeq(seqs) \o SubSeq(b, at(m + 1) + 1, end) \in Seq(Line)
  BY <1>7, <1>8, ConcatProperties
<1>10. BuildRegion(b, start, end, group) = FlattenSeq(seqs) \o SubSeq(b, at(m + 1) + 1, end)
  BY DEF BuildRegion, seqs, piece, at, m
<1> QED BY <1>9, <1>10

\* The lines of a merged text.
Output == Line \cup Markers

\* What a region can contribute.
Pieces == [text : Seq(Output), conflict : BOOLEAN]

\* Lines may stand in a merged text.
LEMMA LinesAreOutput ==
    ASSUME NEW text \in Seq(Line)
    PROVE  text \in Seq(Output)
<1>1. Line \subseteq Output BY DEF Output
<1> QED BY <1>1, SeqMonotonic

\* The text of a conflict.
Conflicting(a, b) == <<"<<< HEAD">> \o a \o <<"===">> \o b \o <<">>> MERGE_HEAD">>

\* It is one.
LEMMA ConflictType ==
    ASSUME NEW a \in Seq(Output), NEW b \in Seq(Output)
    PROVE  Conflicting(a, b) \in Seq(Output)
<1> DEFINE x == <<"<<< HEAD">>
           y == <<"===">>
           z == <<">>> MERGE_HEAD">>
<1>1. x \in Seq(Output) /\ y \in Seq(Output) /\ z \in Seq(Output)
  <2>1. "<<< HEAD" \in Output /\ "===" \in Output /\ ">>> MERGE_HEAD" \in Output
    BY DEF Output, Markers
  <2>2. \A l \in Output : <<l>> \in Seq(Output) OBVIOUS
  <2> QED BY <2>1, <2>2, Zenon
<1>2. Conflicting(a, b) = x \o a \o y \o b \o z BY DEF Conflicting
<1> HIDE DEF x, y, z
<1>3. x \o a \in Seq(Output) BY <1>1, ConcatProperties
<1>4. x \o a \o y \in Seq(Output) BY <1>1, <1>3, ConcatProperties
<1>5. x \o a \o y \o b \in Seq(Output) BY <1>4, ConcatProperties
<1> QED BY <1>1, <1>2, <1>5, ConcatProperties

\* The four ways in which a region is resolved.
Resolves(b, r, group) ==
    LET o    == BuildRegion(b, r.start, r.end, group["ours"])
        t    == BuildRegion(b, r.start, r.end, group["theirs"])
        here == Resolve(b, r, group)
    IN \/ group["theirs"] = <<>>
            /\ here = [text |-> Inserted(group["ours"]), conflict |-> FALSE]
       \/ group["theirs"] # <<>> /\ group["ours"] = <<>>
            /\ here = [text |-> Inserted(group["theirs"]), conflict |-> FALSE]
       \/ group["theirs"] # <<>> /\ group["ours"] # <<>> /\ o = t
            /\ here = [text |-> o, conflict |-> FALSE]
       \/ group["theirs"] # <<>> /\ group["ours"] # <<>> /\ o # t
            /\ here = [text |-> Conflicting(o, t), conflict |-> TRUE]

\* Every region is resolved in one of them.
LEMMA ResolveCases ==
    ASSUME NEW b, NEW r, NEW group
    PROVE  Resolves(b, r, group)
<1> DEFINE o == BuildRegion(b, r.start, r.end, group["ours"])
           t == BuildRegion(b, r.start, r.end, group["theirs"])
<1>1. Resolve(b, r, group) =
        IF group["theirs"] = <<>>
        THEN [text |-> Inserted(group["ours"]), conflict |-> FALSE]
        ELSE IF group["ours"] = <<>>
        THEN [text |-> Inserted(group["theirs"]), conflict |-> FALSE]
        ELSE IF o = t THEN [text |-> o, conflict |-> FALSE]
        ELSE [text |-> Conflicting(o, t), conflict |-> TRUE]
  BY DEF Resolve, Conflicting, Sides
<1> QED BY <1>1 DEF Resolves

\* The edits of a side that a region has drawn in.
Groups(edits, idx, r) == [s \in Sides |-> SubSeq(edits[s], idx[s] + 1, r.idx[s])]

\* They are edits of that side.
LEMMA GroupsType ==
    ASSUME NEW n \in Nat, NEW edits, EditLists(n, edits), NEW idx \in [Sides -> Nat],
           NEW r \in Regions(n, edits), NEW s \in Sides
    PROVE  /\ Groups(edits, idx, r)[s] \in Seq(Edit(n))
           /\ Groups(edits, idx, r)[s] # <<>> => idx[s] < r.idx[s]
<1> DEFINE t == edits[s]
           i == idx[s]
           j == r.idx[s]
<1>1. t \in Seq(Edit(n)) BY DEF EditLists, EditList
<1>2. i \in Nat /\ j \in Nat /\ j <= Len(t) BY RegionFields
<1>3. Groups(edits, idx, r)[s] = SubSeq(t, i + 1, j) BY DEF Groups
<1> HIDE DEF t, i, j
<1>4. \A k \in i + 1 .. j : t[k] \in Edit(n) BY <1>1, <1>2
<1>5. SubSeq(t, i + 1, j) \in Seq(Edit(n)) BY <1>2, <1>4, SubSeqProperties
<1>6. ~(i < j) => SubSeq(t, i + 1, j) = <<>> BY <1>2, SubSeqEmpty
<1> QED BY <1>3, <1>5, <1>6 DEF i, j

\* What a region contributes are lines and markers.
LEMMA ResolveType ==
    ASSUME NEW n \in Nat, NEW b \in Seq(Line), Len(b) = n, NEW r,
           r.start \in 0 .. n, r.end \in 0 .. n, NEW group,
           \A s \in Sides : group[s] \in Seq(Edit(n))
    PROVE  Resolve(b, r, group) \in Pieces
<1> DEFINE o == BuildRegion(b, r.start, r.end, group["ours"])
           t == BuildRegion(b, r.start, r.end, group["theirs"])
           io == Inserted(group["ours"])
           it == Inserted(group["theirs"])
<1>1. group["ours"] \in Seq(Edit(n)) /\ group["theirs"] \in Seq(Edit(n)) BY DEF Sides
<1>2. o \in Seq(Line) /\ t \in Seq(Line) BY <1>1, BuildType
<1>3. io \in Seq(Line) /\ it \in Seq(Line) BY <1>1, InsertedType
<1>4. Resolve(b, r, group) \in
        { [text |-> io, conflict |-> FALSE], [text |-> it, conflict |-> FALSE],
          [text |-> o, conflict |-> FALSE], [text |-> Conflicting(o, t), conflict |-> TRUE] }
  BY ResolveCases DEF Resolves
<1> HIDE DEF o, t, io, it
<1>5. /\ o \in Seq(Output) /\ t \in Seq(Output) /\ io \in Seq(Output) /\ it \in Seq(Output)
      /\ Conflicting(o, t) \in Seq(Output)
  BY <1>2, <1>3, LinesAreOutput, ConflictType
<1>6. \A x \in Seq(Output), c \in BOOLEAN : [text |-> x, conflict |-> c] \in Pieces
  BY DEF Pieces
<1> HIDE DEF Pieces
<1> QED BY <1>4, <1>5, <1>6

\* Where the next region is opened.
Start(edits, idx) ==
    Min({edits[s][idx[s] + 1].from : s \in {x \in Sides : idx[x] < Len(edits[x])}})

\* The region as it is opened.
Opened(edits, idx) ==
    [start |-> Start(edits, idx), end |-> Start(edits, idx), idx |-> idx]

\* It is a region, and opened at the next edit.
LEMMA OpenedIs ==
    ASSUME NEW n \in Nat, NEW edits, EditLists(n, edits), NEW idx \in [Sides -> Nat],
           \A s \in Sides : idx[s] <= Len(edits[s]),
           \E s \in Sides : idx[s] # Len(edits[s])
    PROVE  /\ Opened(edits, idx) \in Regions(n, edits)
           /\ Opening(edits, Opened(edits, idx))
<1> DEFINE some == {x \in Sides : idx[x] < Len(edits[x])}
           S == {edits[s][idx[s] + 1].from : s \in some}
           r == Opened(edits, idx)
<1>1. \A s \in Sides : idx[s] \in Nat /\ Len(edits[s]) \in Nat
  <2>1. \A s \in Sides : edits[s] \in Seq(Edit(n)) BY DEF EditLists, EditList
  <2> QED BY <2>1, LenProperties
<1>2. \A s \in some : edits[s][idx[s] + 1].from \in 0 .. n BY <1>1, NextEdit
<1>3. S \in SUBSET Nat /\ S \subseteq 0 .. n BY <1>2
<1>4. S # {}
  <2>1. PICK s \in Sides : idx[s] # Len(edits[s]) OBVIOUS
  <2>2. s \in some BY <1>1, <2>1
  <2>3. edits[s][idx[s] + 1].from \in S BY <2>2
  <2> QED BY <2>3
<1>5. PICK k \in S : \A m \in S : k <= m
  <2> HIDE DEF S
  <2> QED BY <1>3, <1>4, LeastNatural
<1>6. Start(edits, idx) = k
  <2>1. Min(S) = k
    <3> HIDE DEF S
    <3> QED BY <1>3, <1>5, MinIs
  <2> QED BY <2>1 DEF Start
<1>7. k \in 0 .. n BY <1>3
<1>8. r = [start |-> k, end |-> k, idx |-> idx] BY <1>6 DEF Opened
<1>9. r \in Regions(n, edits) BY <1>7, <1>8 DEF Regions
<1>10. \A s \in some : k <= edits[s][idx[s] + 1].from BY <1>5
<1>11. Opening(edits, r) BY <1>8, <1>10 DEF Opening
<1> QED BY <1>9, <1>11

\* A region that has grown is a region.
LEMMA GrowType ==
    ASSUME NEW n \in Nat, NEW edits, EditLists(n, edits), NEW r \in Regions(n, edits)
    PROVE  Grow(edits, r) \in Regions(n, edits)
<1>1. PICK round : Grown(n, edits, r, round) BY GrowIs
<1>2. Total(edits) \in Nat /\ Total(edits) \in 0 .. Total(edits) BY <1>1 DEF Grown
<1> QED BY <1>1, <1>2 DEF Grown

\* The states of the walk: a conflict, once there is one, is where the sides meet.
WalkStates(n, edits) ==
    {w \in [at : 0 .. n, idx : [Sides -> Nat], text : Seq(Output), conflict : BOOLEAN] :
       /\ \A s \in Sides : w.idx[s] <= Len(edits[s])
       /\ w.conflict => Touch(edits)}

\* Every edit is in a region.
AllDone(edits, w) == \A s \in Sides : w.idx[s] = Len(edits[s])

\* The next region of the walk, with all its edits.
NextRegion(edits, w) == Grow(edits, Opened(edits, w.idx))

\* What it contributes.
Contribution(b, edits, w) ==
    LET r == NextRegion(edits, w) IN Resolve(b, r, Groups(edits, w.idx, r))

\* The region that the walk comes to next.
LEMMA NextRegionType ==
    ASSUME NEW n \in Nat, NEW edits, EditLists(n, edits), NEW w \in WalkStates(n, edits),
           ~AllDone(edits, w)
    PROVE  /\ Opened(edits, w.idx) \in Regions(n, edits)
           /\ Opening(edits, Opened(edits, w.idx))
           /\ NextRegion(edits, w) \in Regions(n, edits)
<1>1. w.idx \in [Sides -> Nat] /\ \A s \in Sides : w.idx[s] <= Len(edits[s])
  BY DEF WalkStates
<1>2. \E s \in Sides : w.idx[s] # Len(edits[s]) BY DEF AllDone
<1> DEFINE idx == w.idx
<1> HIDE DEF idx
<1>3. Opened(edits, idx) \in Regions(n, edits) /\ Opening(edits, Opened(edits, idx))
  BY <1>1, <1>2, OpenedIs DEF idx
<1>4. Grow(edits, Opened(edits, idx)) \in Regions(n, edits) BY <1>3, GrowType
<1> QED BY <1>3, <1>4 DEF idx, NextRegion

\* A round of the walk.
LEMMA WalkIs ==
    ASSUME NEW b, NEW edits, NEW w
    PROVE  Walk(b, edits, w) =
             LET r == NextRegion(edits, w)
                 here == Contribution(b, edits, w)
             IN IF AllDone(edits, w) THEN w
                ELSE [at       |-> r.end,
                      idx      |-> r.idx,
                      text     |-> w.text \o SubSeq(b, w.at + 1, r.start) \o here.text,
                      conflict |-> w.conflict \/ here.conflict]
BY DEF Walk, Region, NextRegion, Opened, Start, Contribution, Groups, AllDone

\* A contribution is made of lines, and a conflict where the sides meet.
LEMMA ContributionIs ==
    ASSUME NEW n \in Nat, NEW b \in Seq(Line), Len(b) = n,
           NEW edits, EditLists(n, edits), NEW w \in WalkStates(n, edits),
           ~AllDone(edits, w)
    PROVE  /\ Contribution(b, edits, w) \in Pieces
           /\ Contribution(b, edits, w).conflict => Touch(edits)
<1> DEFINE o == Opened(edits, w.idx)
           r == NextRegion(edits, w)
           group == Groups(edits, w.idx, r)
<1>1. o \in Regions(n, edits) /\ Opening(edits, o) /\ r \in Regions(n, edits)
  BY NextRegionType
<1>2. r = Grow(edits, o) BY DEF NextRegion
<1>3. w.idx \in [Sides -> Nat] /\ o.idx = w.idx BY DEF WalkStates, Opened
<1>4. r.start \in 0 .. n /\ r.end \in 0 .. n BY <1>1, RegionFields
<1> HIDE DEF o, r
<1>5. \A s \in Sides : /\ group[s] \in Seq(Edit(n))
                       /\ group[s] # <<>> => w.idx[s] < r.idx[s]
  BY <1>1, <1>3, GroupsType
<1>6. Contribution(b, edits, w) = Resolve(b, r, group) BY DEF Contribution, r
<1> HIDE DEF group
<1>7. Resolve(b, r, group) \in Pieces BY <1>4, <1>5, ResolveType
<1>8. Resolve(b, r, group).conflict => Touch(edits)
  <2> SUFFICES ASSUME Resolve(b, r, group).conflict PROVE Touch(edits) OBVIOUS
  <2>1. group["ours"] # <<>> /\ group["theirs"] # <<>> BY ResolveCases DEF Resolves
  <2>2. \A s \in Sides : w.idx[s] < r.idx[s] BY <1>5, <2>1 DEF Sides
  <2>3. \A s \in Sides : o.idx[s] < Grow(edits, o).idx[s] BY <1>2, <1>3, <2>2
  <2> QED BY <1>1, <2>3, GrowMeets
<1> QED BY <1>6, <1>7, <1>8

\* A round keeps the states of the walk.
LEMMA WalkKeeps ==
    ASSUME NEW n \in Nat, NEW b \in Seq(Line), Len(b) = n,
           NEW edits, EditLists(n, edits), NEW w \in WalkStates(n, edits)
    PROVE  Walk(b, edits, w) \in WalkStates(n, edits)
<1>1. CASE AllDone(edits, w) BY <1>1, WalkIs
<1>2. CASE ~AllDone(edits, w)
  <2> DEFINE r == NextRegion(edits, w)
             here == Contribution(b, edits, w)
             part == SubSeq(b, w.at + 1, r.start)
             text == w.text \o part \o here.text
             conflict == w.conflict \/ here.conflict
  <2>1. /\ w.at \in 0 .. n /\ w.text \in Seq(Output) /\ w.conflict \in BOOLEAN
        /\ w.conflict => Touch(edits)
    BY DEF WalkStates
  <2>2. r \in Regions(n, edits) BY <1>2, NextRegionType
  <2>3. /\ r.start \in 0 .. n /\ r.end \in 0 .. n /\ r.idx \in [Sides -> Nat]
        /\ \A s \in Sides : r.idx[s] <= Len(edits[s])
    BY <2>2, RegionFields
  <2>5. Walk(b, edits, w) = [at |-> r.end, idx |-> r.idx, text |-> text, conflict |-> conflict]
    BY <1>2, WalkIs
  <2>6. here \in Pieces /\ (here.conflict => Touch(edits)) BY <1>2, ContributionIs
  <2> HIDE DEF r, here
  <2>7. part \in Seq(Output)
    <3>1. part \in Seq(Line) BY <2>1, <2>3, BasePart
    <3> HIDE DEF part
    <3> QED BY <3>1, LinesAreOutput
  <2>8. here.text \in Seq(Output) /\ here.conflict \in BOOLEAN BY <2>6 DEF Pieces
  <2> HIDE DEF part
  <2>9. text \in Seq(Output)
    <3>1. w.text \o part \in Seq(Output) BY <2>1, <2>7, ConcatProperties
    <3> QED BY <2>8, <3>1, ConcatProperties
  <2>10. conflict \in BOOLEAN /\ (conflict => Touch(edits)) BY <2>1, <2>6, <2>8
  <2> HIDE DEF text, conflict
  <2> QED BY <2>3, <2>5, <2>9, <2>10 DEF WalkStates
<1> QED BY <1>1, <1>2

\* Where the walk starts.
WalkStart == [at |-> 0, idx |-> [s \in Sides |-> 0], text |-> <<>>, conflict |-> FALSE]

\* Its loop.
WalkLoop(b, edits, walk) ==
    walk = [i \in 0 .. Total(edits) |->
              IF i = 0 THEN WalkStart ELSE Walk(b, edits, walk[i - 1])]

\* The rounds of the walk, one by one.
Walked(n, b, edits, walk) ==
    /\ Total(edits) \in Nat
    /\ walk[0] = WalkStart
    /\ \A i \in 1 .. Total(edits) : walk[i] = Walk(b, edits, walk[i - 1])
    /\ \A i \in 0 .. Total(edits) : walk[i] \in WalkStates(n, edits)
    /\ LET end == walk[Total(edits)]
       IN WalkBase(b, edits) =
            [text |-> end.text \o From(b, end.at + 1), conflict |-> end.conflict]

\* There are such rounds.
LEMMA WalkBaseIs ==
    ASSUME NEW n \in Nat, NEW b \in Seq(Line), Len(b) = n, NEW edits, EditLists(n, edits)
    PROVE  \E walk : Walked(n, b, edits, walk)
<1> DEFINE m == Total(edits)
           W == WalkStates(n, edits)
           V == [i \in 0 .. m |-> W]
           next == [i \in 1 .. m |-> [x \in W |-> Walk(b, edits, x)]]
           walk == CHOOSE f : WalkLoop(b, edits, f)
<1>1. WalkStart \in W
  <2>1. \A s \in Sides : edits[s] \in Seq(Edit(n)) BY DEF EditLists, EditList
  <2>2. \A s \in Sides : Len(edits[s]) \in Nat BY <2>1, LenProperties
  <2>3. <<>> \in Seq(Output) BY EmptySeq
  <2>4. \A s \in Sides : 0 <= Len(edits[s]) BY <2>2
  <2> QED BY <2>3, <2>4 DEF WalkStates, WalkStart
<1>2. m \in Nat
  <2> DEFINE x == Len(edits["ours"])
             y == Len(edits["theirs"])
  <2>1. edits["ours"] \in Seq(Edit(n)) /\ edits["theirs"] \in Seq(Edit(n))
    BY DEF EditLists, EditList, Sides
  <2>2. x \in Nat /\ y \in Nat BY <2>1, LenProperties
  <2>3. m = x + y BY DEF Total
  <2> HIDE DEF x, y, m
  <2> QED BY <2>2, <2>3
<1>3. \A x \in W : Walk(b, edits, x) \in W BY WalkKeeps
<1> HIDE DEF m, W
<1>4. \A i \in 0 .. m : V[i] = W OBVIOUS
<1>5. V[0] = W /\ \A i \in 1 .. m : V[i - 1] = W /\ V[i] = W BY <1>2
<1>6. \A i \in 1 .. m : \A x \in W : next[i][x] = Walk(b, edits, x) OBVIOUS
<1> HIDE DEF V, next
<1>7. \A i \in 1 .. m : \A x \in V[i - 1] : next[i][x] \in V[i] BY <1>3, <1>5, <1>6
<1>8. PICK f : Runs(f, m, WalkStart, next, V) BY <1>1, <1>2, <1>5, <1>7, LoopRuns
<1>9. WalkLoop(b, edits, f)
  <2>1. \A i \in 1 .. m : f[i] = Walk(b, edits, f[i - 1]) BY <1>5, <1>6, <1>8 DEF Runs
  <2>2. ASSUME NEW i \in 0 .. m
        PROVE  f[i] = IF i = 0 THEN WalkStart ELSE Walk(b, edits, f[i - 1])
    <3>1. i # 0 => i \in 1 .. m BY <1>2
    <3> QED BY <1>8, <2>1, <3>1 DEF Runs
  <2> QED BY <1>8, <2>2 DEF WalkLoop, Runs, m
<1>10. WalkLoop(b, edits, walk) BY <1>9, Zenon
<1> HIDE DEF walk
<1>11. walk[0] = WalkStart /\ \A i \in 1 .. m : walk[i] = Walk(b, edits, walk[i - 1])
  <2>1. 0 \in 0 .. m /\ \A i \in 1 .. m : i \in 0 .. m /\ i # 0 BY <1>2
  <2> QED BY <1>10, <2>1 DEF WalkLoop, m
<1>12. Visits(walk, m, V) BY <1>1, <1>2, <1>3, <1>5, <1>11, LoopInvariant
<1>13. \A i \in 0 .. m : walk[i] \in W BY <1>4, <1>12 DEF Visits
<1>14. WalkBase(b, edits) = [text |-> walk[m].text \o From(b, walk[m].at + 1),
                             conflict |-> walk[m].conflict]
  BY DEF WalkBase, walk, WalkLoop, WalkStart, m
<1>15. Walked(n, b, edits, walk) BY <1>2, <1>11, <1>13, <1>14 DEF Walked, m, W
<1> QED BY <1>15

\* The conflict flag of the walk.
LEMMA WalkMeets ==
    ASSUME NEW n \in Nat, NEW b \in Seq(Line), Len(b) = n, NEW edits, EditLists(n, edits),
           WalkBase(b, edits).conflict
    PROVE  Touch(edits)
<1>1. PICK walk : Walked(n, b, edits, walk) BY WalkBaseIs
<1> DEFINE end == walk[Total(edits)]
<1>2. end \in WalkStates(n, edits) /\ WalkBase(b, edits).conflict = end.conflict
  <2>1. Total(edits) \in 0 .. Total(edits) BY <1>1 DEF Walked
  <2>2. end \in WalkStates(n, edits) BY <1>1, <2>1, Zenon DEF Walked
  <2> DEFINE text == end.text \o From(b, end.at + 1)
  <2>3. WalkBase(b, edits) = [text |-> text, conflict |-> end.conflict]
    BY <1>1, Zenon DEF Walked
  <2> DEFINE c == end.conflict
             got == WalkBase(b, edits)
  <2>4. got = [text |-> text, conflict |-> c] BY <2>3
  <2> HIDE DEF end, text, c, got
  <2>5. got.conflict = c BY <2>4
  <2> QED BY <2>2, <2>5 DEF c, got
<1> HIDE DEF end
<1> QED BY <1>2 DEF WalkStates

\* The edits of both sides that Merge3 finds.
BothEdits(b, o, t) == [ours |-> Edits(b, o), theirs |-> Edits(b, t)]

\* They are lists of edits of the base.
LEMMA BothEditsAre ==
    ASSUME NEW b \in Texts, NEW o \in Texts, NEW t \in Texts
    PROVE  /\ b \in Seq(Line) /\ Len(b) \in Nat
           /\ EditLists(Len(b), BothEdits(b, o, t))
<1>1. b \in Seq(Line) /\ Len(b) \in Nat BY TextIs
<1>2. Edits(b, o) \in EditList(Len(b)) /\ Edits(b, t) \in EditList(Len(b)) BY EditsAre
<1>3. /\ BothEdits(b, o, t)["ours"] = Edits(b, o)
      /\ BothEdits(b, o, t)["theirs"] = Edits(b, t)
  BY DEF BothEdits
<1>4. EditLists(Len(b), BothEdits(b, o, t)) BY <1>2, <1>3 DEF EditLists, Sides
<1> QED BY <1>1, <1>4

\* What the fast paths and the walk return.
LEMMA Merge3Is ==
    ASSUME NEW b, NEW o, NEW t
    PROVE  \/ o = t /\ Merge3(b, o, t) = [text |-> o, conflict |-> FALSE]
           \/ b = t /\ Merge3(b, o, t) = [text |-> o, conflict |-> FALSE]
           \/ b = o /\ Merge3(b, o, t) = [text |-> t, conflict |-> FALSE]
           \/ /\ o # t /\ b # t /\ b # o
              /\ Merge3(b, o, t) = WalkBase(b, BothEdits(b, o, t))
BY DEF Merge3, BothEdits

\* A conflict is where an edit of ours meets one of theirs.
LEMMA Merge3Meets ==
    ASSUME NEW b \in Texts, NEW o \in Texts, NEW t \in Texts, Merge3(b, o, t).conflict
    PROVE  Touch(BothEdits(b, o, t))
<1>1. Merge3(b, o, t) = WalkBase(b, BothEdits(b, o, t)) BY Merge3Is
<1>2. WalkBase(b, BothEdits(b, o, t)).conflict BY <1>1
<1> QED BY <1>2, BothEditsAre, WalkMeets

\* Inductive: the texts stay, and what is returned is their merge.
TextInv ==
    /\ texts \in [{"base", "ours", "theirs"} -> Texts]
    /\ Finished => merged = Merge3(Base, Ours, Theirs)

\* Every reachable state satisfies it.
LEMMA TextInvariant == TextSpec => []TextInv
<1>1. TextInit => TextInv
  BY DEF TextInit, TextInv, Finished
<1>2. TextInv /\ [TextMerge]_<<texts, merged>> => TextInv'
  BY DEF TextInv, TextMerge, Finished, Base, Ours, Theirs
<1> QED BY <1>1, <1>2, PTL DEF TextSpec

\* Merge3 reports a conflict only where an edit of ours overlaps or touches one of
\* theirs, however many edits and regions come before: drawing edits into a region
\* (merge3.go:85-112) never joins what an unchanged line keeps apart.  For texts of
\* any length, and any diff that starts from the base.
THEOREM ConflictsOnlyMeet == TextSpec => []ConflictsMeet
<1>1. TextInv => ConflictsMeet
  <2> SUFFICES ASSUME TextInv, Finished, merged.conflict
               PROVE  \E e \in ToSet(Edits(Base, Ours)), f \in ToSet(Edits(Base, Theirs)) :
                        e.from <= f.to /\ f.from <= e.to
    BY DEF ConflictsMeet
  <2>1. Base \in Texts /\ Ours \in Texts /\ Theirs \in Texts
    BY DEF TextInv, Base, Ours, Theirs
  <2>2. Merge3(Base, Ours, Theirs).conflict BY DEF TextInv
  <2>3. Touch(BothEdits(Base, Ours, Theirs)) BY <2>1, <2>2, Merge3Meets
  <2> QED BY <2>3 DEF Touch, BothEdits
<1> QED BY <1>1, TextInvariant, PTL

-------------------------------------------------------------------------------
\* Nothing more joins a region.
Stuck(edits, r) == \A s \in Sides : Blocked(edits, r, s)

\* The regions that hold a region r and, of each side, the next edits after it.
Around(n, edits, r) ==
    {x \in Regions(n, edits) :
       /\ x.start = r.start /\ r.end <= x.end
       /\ \A s \in Sides :
            /\ r.idx[s] <= x.idx[s]
            /\ \A i \in r.idx[s] .. x.idx[s] - 1 : edits[s][i + 1].to <= x.end}

\* One region has no more edits of either side than another, and ends no later.
NoLarger(x, y) == x.end <= y.end /\ \A s \in Sides : x.idx[s] <= y.idx[s]

\* An edit that joins is the next one of its side.
LEMMA TakeAround ==
    ASSUME NEW n \in Nat, NEW edits, EditLists(n, edits), NEW r \in Regions(n, edits),
           NEW x \in Around(n, edits, r), NEW s \in Sides
    PROVE  Take(edits, x, s) \in Around(n, edits, r)
<1> DEFINE q == Take(edits, x, s)
<1>1. x \in Regions(n, edits) BY DEF Around
<1>2. CASE Blocked(edits, x, s) BY <1>2, TakeBlocked
<1>3. CASE ~Blocked(edits, x, s)
  <2>1. q \in Regions(n, edits) /\ Joined(edits, x, s, q) BY <1>1, <1>3, TakeJoins
  <2> HIDE DEF q
  <2> DEFINE e == edits[s][x.idx[s] + 1]
  <2>2. /\ x.idx[s] < Len(edits[s])
        /\ q.start = x.start
        /\ q.end = IF e.to > x.end THEN e.to ELSE x.end
        /\ q.idx[s] = x.idx[s] + 1
        /\ \A t \in Sides : t # s => q.idx[t] = x.idx[t]
    BY <2>1 DEF Joined
  <2>3. /\ x.end \in 0 .. n /\ r.end \in 0 .. n
        /\ \A t \in Sides : /\ x.idx[t] \in Nat /\ Len(edits[t]) \in Nat
                            /\ r.idx[t] \in Nat /\ x.idx[t] <= Len(edits[t])
    BY <1>1, RegionFields
  <2>4. e.to \in 0 .. n BY <2>2, <2>3, NextEdit
  <2>5. x.end <= q.end /\ e.to <= q.end /\ q.end \in 0 .. n
    <3> DEFINE k == q.end
               l == x.end
               m == e.to
    <3>1. k = (IF m > l THEN m ELSE l) /\ l \in 0 .. n /\ m \in 0 .. n BY <2>2, <2>3, <2>4
    <3> HIDE DEF k, l, m
    <3>2. l <= k /\ m <= k /\ k \in 0 .. n BY <3>1
    <3> QED BY <3>2 DEF k, l, m
  <2>6. /\ x.start = r.start /\ r.end <= x.end
        /\ \A t \in Sides :
             /\ r.idx[t] <= x.idx[t]
             /\ \A i \in r.idx[t] .. x.idx[t] - 1 : edits[t][i + 1].to <= x.end
    BY DEF Around
  <2>7. q.start = r.start /\ r.end <= q.end BY <2>2, <2>3, <2>5, <2>6
  <2>8. \A t \in Sides : r.idx[t] <= q.idx[t]
    <3> SUFFICES ASSUME NEW t \in Sides PROVE r.idx[t] <= q.idx[t] OBVIOUS
    <3>1. q.idx[t] = IF t = s THEN x.idx[t] + 1 ELSE x.idx[t] BY <2>2
    <3> QED BY <2>3, <2>6, <3>1
  <2>9. ASSUME NEW t \in Sides, NEW i \in r.idx[t] .. q.idx[t] - 1
        PROVE  edits[t][i + 1].to <= q.end
    <3>1. q.idx[t] = IF t = s THEN x.idx[t] + 1 ELSE x.idx[t] BY <2>2
    <3>2. CASE t = s /\ i = x.idx[s] BY <2>5, <3>2
    <3>3. CASE ~(t = s /\ i = x.idx[s])
      <4>1. i \in r.idx[t] .. x.idx[t] - 1 BY <2>3, <3>1, <3>3
      <4>2. edits[t][i + 1].to <= x.end BY <2>6, <4>1
      <4>3. i \in Nat /\ i < Len(edits[t]) BY <2>3, <4>1
      <4>4. edits[t][i + 1].to \in 0 .. n BY <4>3, NextEdit
      <4> DEFINE to == edits[t][i + 1].to
      <4> HIDE DEF to, e
      <4> QED BY <2>3, <2>5, <4>2, <4>4 DEF to
    <3> QED BY <3>2, <3>3
  <2> QED BY <2>1, <2>7, <2>8, <2>9 DEF Around, q
<1> QED BY <1>2, <1>3

\* What joins a region also joins every larger one that it is not yet in.
LEMMA TakeNoLarger ==
    ASSUME NEW n \in Nat, NEW edits, EditLists(n, edits), NEW r \in Regions(n, edits),
           NEW x \in Around(n, edits, r), NEW c \in Around(n, edits, r),
           Stuck(edits, c), NoLarger(x, c), NEW s \in Sides
    PROVE  NoLarger(Take(edits, x, s), c)
<1> DEFINE q == Take(edits, x, s)
<1>1. x \in Regions(n, edits) /\ c \in Regions(n, edits) BY DEF Around
<1>2. CASE Blocked(edits, x, s) BY <1>2, TakeBlocked
<1>3. CASE ~Blocked(edits, x, s)
  <2>1. Joined(edits, x, s, q) BY <1>1, <1>3, TakeJoins
  <2> HIDE DEF q
  <2> DEFINE e == edits[s][x.idx[s] + 1]
  <2>2. /\ x.idx[s] < Len(edits[s]) /\ e.from <= x.end
        /\ q.end = IF e.to > x.end THEN e.to ELSE x.end
        /\ q.idx[s] = x.idx[s] + 1
        /\ \A t \in Sides : t # s => q.idx[t] = x.idx[t]
    BY <2>1 DEF Joined
  <2>3. /\ x.end \in 0 .. n /\ c.end \in 0 .. n
        /\ \A t \in Sides : /\ x.idx[t] \in Nat /\ Len(edits[t]) \in Nat
                            /\ c.idx[t] \in Nat /\ r.idx[t] \in Nat
    BY <1>1, RegionFields
  <2>4. e.from \in 0 .. n /\ e.to \in 0 .. n BY <2>2, <2>3, NextEdit
  <2>5. x.end <= c.end /\ \A t \in Sides : x.idx[t] <= c.idx[t] BY DEF NoLarger
  <2> HIDE DEF e
  <2>6. x.idx[s] # c.idx[s]
    <3> SUFFICES ASSUME x.idx[s] = c.idx[s] PROVE FALSE OBVIOUS
    <3>1. c.idx[s] = Len(edits[s]) \/ e.from > c.end BY DEF Stuck, Blocked, e
    <3> QED BY <2>2, <2>3, <2>4, <2>5, <3>1
  <2>7. x.idx[s] < c.idx[s] BY <2>3, <2>5, <2>6
  <2>8. e.to <= c.end
    <3>1. r.idx[s] <= x.idx[s] BY DEF Around
    <3>2. x.idx[s] \in r.idx[s] .. c.idx[s] - 1 BY <2>3, <2>7, <3>1
    <3> QED BY <3>2 DEF Around, e
  <2>9. q.end <= c.end BY <2>2, <2>5, <2>8
  <2>10. ASSUME NEW t \in Sides PROVE q.idx[t] <= c.idx[t]
    <3>1. CASE t = s BY <2>2, <2>3, <2>7, <3>1
    <3>2. CASE t # s BY <2>2, <2>5, <3>2
    <3> QED BY <3>1, <3>2
  <2> QED BY <2>9, <2>10 DEF NoLarger, q
<1> QED BY <1>2, <1>3

\* How many edits are in or before a region.
Used(r) == r.idx["ours"] + r.idx["theirs"]

\* A region that is not stuck gets another edit.
LEMMA TakeUses ==
    ASSUME NEW n \in Nat, NEW edits, EditLists(n, edits), NEW r \in Regions(n, edits),
           NEW s \in Sides
    PROVE  /\ Used(r) \in Nat
           /\ Used(Take(edits, r, s)) =
                IF Blocked(edits, r, s) THEN Used(r) ELSE Used(r) + 1
<1> DEFINE q == Take(edits, r, s)
           i == r.idx["ours"]
           j == r.idx["theirs"]
<1>1. i \in Nat /\ j \in Nat BY RegionFields DEF Sides
<1>2. Used(r) = i + j BY DEF Used
<1>3. CASE Blocked(edits, r, s) BY <1>1, <1>2, <1>3, TakeBlocked
<1>4. CASE ~Blocked(edits, r, s)
  <2>1. Joined(edits, r, s, q) BY <1>4, TakeJoins
  <2> HIDE DEF q
  <2>2. /\ q.idx[s] = r.idx[s] + 1
        /\ \A t \in Sides : t # s => q.idx[t] = r.idx[t]
    BY <2>1 DEF Joined
  <2>3. \/ q.idx["ours"] = i + 1 /\ q.idx["theirs"] = j
        \/ q.idx["ours"] = i /\ q.idx["theirs"] = j + 1
    BY <2>2 DEF Sides
  <2> HIDE DEF i, j
  <2>4. Used(q) = i + j + 1 BY <1>1, <2>3 DEF Used
  <2> QED BY <1>1, <1>2, <1>4, <2>4 DEF q
<1> QED BY <1>3, <1>4

\* A round uses an edit, or nothing more joins.
LEMMA RoundUses ==
    ASSUME NEW n \in Nat, NEW edits, EditLists(n, edits), NEW r \in Regions(n, edits)
    PROVE  /\ Used(r) \in Nat /\ Used(Round(edits, r)) \in Nat
           /\ \/ Stuck(edits, r) /\ Round(edits, r) = r
              \/ Used(Round(edits, r)) >= Used(r) + 1
<1> DEFINE x == Take(edits, r, "ours")
           y == Take(edits, x, "theirs")
<1>1. "ours" \in Sides /\ "theirs" \in Sides BY DEF Sides
<1>2. x \in Regions(n, edits) BY <1>1, TakeType
<1>3. y \in Regions(n, edits)
  <2> HIDE DEF x
  <2> QED BY <1>1, <1>2, TakeType
<1>4. /\ Used(r) \in Nat
      /\ Used(x) = IF Blocked(edits, r, "ours") THEN Used(r) ELSE Used(r) + 1
  BY <1>1, TakeUses
<1>5. /\ Used(x) \in Nat
      /\ Used(y) = IF Blocked(edits, x, "theirs") THEN Used(x) ELSE Used(x) + 1
  <2> HIDE DEF x
  <2> QED BY <1>1, <1>2, TakeUses
<1>6. Round(edits, r) = y BY DEF Round
<1>7. CASE Blocked(edits, r, "ours") /\ Blocked(edits, x, "theirs")
  <2>1. x = r BY <1>7, TakeBlocked
  <2>2. y = r BY <1>7, <2>1, TakeBlocked
  <2>3. Stuck(edits, r) BY <1>7, <2>1 DEF Stuck, Sides
  <2> QED BY <1>4, <1>6, <2>2, <2>3
<1>8. CASE ~(Blocked(edits, r, "ours") /\ Blocked(edits, x, "theirs"))
  <2> HIDE DEF x, y
  <2>1. Used(y) \in Nat /\ Used(y) >= Used(r) + 1 BY <1>4, <1>5, <1>8
  <2> QED BY <1>4, <1>6, <2>1
<1> QED BY <1>7, <1>8

\* The smallest region around another one that nothing more joins.
Least(n, edits, r, x) ==
    /\ x \in Around(n, edits, r) /\ Stuck(edits, x)
    /\ \A c \in Around(n, edits, r) : Stuck(edits, c) => NoLarger(x, c)

\* A region is around itself, and no larger than any that is around it.
LEMMA AroundSelf ==
    ASSUME NEW n \in Nat, NEW edits, EditLists(n, edits), NEW r \in Regions(n, edits)
    PROVE  /\ r \in Around(n, edits, r)
           /\ \A c \in Around(n, edits, r) : NoLarger(r, c)
<1>1. r.end \in 0 .. n /\ \A s \in Sides : r.idx[s] \in Nat BY RegionFields
<1>2. \A s \in Sides : r.idx[s] .. r.idx[s] - 1 = {} BY <1>1
<1>3. r.end <= r.end /\ \A s \in Sides : r.idx[s] <= r.idx[s] BY <1>1
<1> QED BY <1>2, <1>3 DEF Around, NoLarger

\* Whatever the order in which edits join, the rounds lead to that one.
LEMMA GrowLeast ==
    ASSUME NEW n \in Nat, NEW edits, EditLists(n, edits), NEW r \in Regions(n, edits)
    PROVE  Least(n, edits, r, Grow(edits, r))
<1>1. PICK round : Grown(n, edits, r, round) BY GrowIs
<1> DEFINE m == Total(edits)
           A == {x \in Around(n, edits, r) :
                   \A c \in Around(n, edits, r) : Stuck(edits, c) => NoLarger(x, c)}
           V == [i \in 0 .. m |-> A]
           T == {i \in 0 .. m : Stuck(edits, round[i]) \/ Used(round[i]) >= i}
           g == round[m]
<1>2. /\ m \in Nat /\ round[0] = r /\ Grow(edits, r) = g
      /\ \A i \in 1 .. m : round[i] = Round(edits, round[i - 1])
      /\ \A i \in 0 .. m : round[i] \in Regions(n, edits)
  BY <1>1 DEF Grown
<1>3. r \in A BY AroundSelf
<1>4. ASSUME NEW x \in A, NEW s \in Sides PROVE Take(edits, x, s) \in A
  <2>1. Take(edits, x, s) \in Around(n, edits, r) BY TakeAround
  <2>2. ASSUME NEW c \in Around(n, edits, r), Stuck(edits, c)
        PROVE  NoLarger(Take(edits, x, s), c)
    BY <2>2, TakeNoLarger
  <2> QED BY <2>1, <2>2
<1>5. ASSUME NEW x \in A PROVE Round(edits, x) \in A
  <2>1. Take(edits, x, "ours") \in A BY <1>4 DEF Sides
  <2> HIDE DEF A
  <2> QED BY <1>4, <2>1 DEF Round, Sides
<1>6. m = Len(edits["ours"]) + Len(edits["theirs"]) BY DEF Total
<1> HIDE DEF m
<1>7. A \subseteq Around(n, edits, r) OBVIOUS
<1>8. g \in A
  <2> HIDE DEF A
  <2>1. (\A i \in 0 .. m : V[i] = A) /\ (\A i \in 1 .. m : V[i - 1] = A /\ V[i] = A) BY <1>2
  <2>2. V[0] = A /\ m \in 0 .. m BY <1>2
  <2> HIDE DEF V
  <2>3. Visits(round, m, V) BY <1>2, <1>3, <1>5, <2>1, <2>2, LoopInvariant
  <2> QED BY <2>1, <2>2, <2>3 DEF Visits
<1>9. 0 \in T
  <2>1. Used(r) \in Nat BY RoundUses
  <2> QED BY <1>2, <2>1
<1>10. ASSUME NEW i \in 1 .. m, i - 1 \in T PROVE i \in T
  <2> DEFINE x == round[i - 1]
             y == round[i]
  <2>1. y = Round(edits, x) /\ x \in Regions(n, edits) /\ i \in 0 .. m
    <3>1. i - 1 \in 0 .. m /\ i \in 0 .. m BY <1>2
    <3> QED BY <1>2, <3>1
  <2>2. Stuck(edits, x) \/ Used(x) >= i - 1 BY <1>10
  <2> HIDE DEF x, y
  <2>3. /\ Used(x) \in Nat /\ Used(y) \in Nat
        /\ (Stuck(edits, x) /\ y = x) \/ Used(y) >= Used(x) + 1
    BY <2>1, RoundUses
  <2>4. CASE Stuck(edits, x) /\ y = x BY <2>1, <2>4 DEF y
  <2>5. CASE ~Stuck(edits, x)
    <3>1. Used(y) >= i BY <1>2, <2>2, <2>3, <2>5
    <3> QED BY <2>1, <3>1 DEF y
  <2>6. CASE Stuck(edits, x) /\ y # x
    <3>1. Stuck(edits, x) => Round(edits, x) = x
      <4>1. Stuck(edits, x) => Take(edits, x, "ours") = x /\ Take(edits, x, "theirs") = x
        BY TakeBlocked DEF Stuck, Sides
      <4> QED BY <4>1 DEF Round
    <3> QED BY <2>1, <2>6, <3>1
  <2> QED BY <2>4, <2>5, <2>6
<1>11. Stuck(edits, g)
  <2>1. m \in T
    <3> HIDE DEF T
    <3>1. 0 .. m \subseteq T BY <1>2, <1>9, <1>10, UpTo0
    <3> QED BY <1>2, <3>1
  <2>2. CASE Stuck(edits, g) BY <2>2
  <2>3. CASE Used(g) >= m
    <3> DEFINE i == g.idx["ours"]
               j == g.idx["theirs"]
               k == Len(edits["ours"])
               l == Len(edits["theirs"])
    <3>1. g \in Regions(n, edits) BY <1>2
    <3>2. i \in Nat /\ j \in Nat /\ k \in Nat /\ l \in Nat /\ i <= k /\ j <= l
      <4> HIDE DEF g
      <4> QED BY <3>1, RegionFields DEF Sides
    <3>3. i + j >= k + l BY <1>6, <2>3 DEF Used
    <3> HIDE DEF i, j, k, l
    <3>4. i = k /\ j = l BY <3>2, <3>3
    <3>5. \A s \in Sides : g.idx[s] = Len(edits[s]) BY <3>4 DEF i, j, k, l, Sides
    <3> QED BY <3>5 DEF Stuck, Blocked
  <2> QED BY <2>1, <2>2, <2>3
<1> HIDE DEF g
<1> QED BY <1>2, <1>8, <1>11 DEF Least
-------------------------------------------------------------------------------
\* Ours for theirs, and theirs for ours.
Other(side) == IF side = "ours" THEN "theirs" ELSE "ours"

\* The same edits with the sides exchanged.
Mirror(edits, flip) == \A s \in Sides : flip[s] = edits[Other(s)]

\* The same region with the sides exchanged.
Flipped(r) == [start |-> r.start, end |-> r.end, idx |-> [s \in Sides |-> r.idx[Other(s)]]]

\* The other side's other side.
LEMMA OtherIs ==
    /\ \A s \in Sides : Other(s) \in Sides /\ Other(Other(s)) = s
    /\ Other("ours") = "theirs" /\ Other("theirs") = "ours"
BY DEF Other, Sides

\* Exchanging is mutual.
LEMMA MirrorBack ==
    ASSUME NEW edits, NEW flip, Mirror(edits, flip)
    PROVE  Mirror(flip, edits)
BY OtherIs DEF Mirror

\* A region is one for the exchanged edits, when its sides are exchanged too.
LEMMA FlippedType ==
    ASSUME NEW n \in Nat, NEW edits, NEW flip, EditLists(n, edits), Mirror(edits, flip),
           NEW r \in Regions(n, edits)
    PROVE  /\ Flipped(r) \in Regions(n, flip)
           /\ Flipped(Flipped(r)) = r
           /\ Flipped(r).start = r.start /\ Flipped(r).end = r.end
           /\ \A s \in Sides : Flipped(r).idx[s] = r.idx[Other(s)]
<1> DEFINE idx == [s \in Sides |-> r.idx[Other(s)]]
<1>1. /\ r.start \in 0 .. n /\ r.end \in 0 .. n /\ r.idx \in [Sides -> Nat]
      /\ r = [start |-> r.start, end |-> r.end, idx |-> r.idx]
      /\ \A s \in Sides : r.idx[s] <= Len(edits[s])
  BY RegionFields
<1>2. idx \in [Sides -> Nat] BY <1>1, OtherIs
<1>3. \A s \in Sides : idx[s] = r.idx[Other(s)] OBVIOUS
<1>4. \A s \in Sides : idx[s] <= Len(flip[s]) BY <1>1, <1>3, OtherIs DEF Mirror
<1>5. Flipped(r) = [start |-> r.start, end |-> r.end, idx |-> idx] BY DEF Flipped
<1>6. r.idx = [s \in Sides |-> idx[Other(s)]] BY <1>1, <1>3, OtherIs
<1> HIDE DEF idx
<1>7. Flipped(r) \in Regions(n, flip) BY <1>1, <1>2, <1>4, <1>5 DEF Regions
<1>8. Flipped(Flipped(r)) = r
  <2>1. Flipped(Flipped(r)) = [start |-> r.start, end |-> r.end,
                               idx |-> [s \in Sides |-> idx[Other(s)]]]
    BY <1>5 DEF Flipped
  <2> QED BY <1>1, <1>6, <2>1
<1> QED BY <1>3, <1>5, <1>7, <1>8

\* Being stuck and being around do not depend on which side is which.
LEMMA FlippedAround ==
    ASSUME NEW n \in Nat, NEW edits, NEW flip, EditLists(n, edits), EditLists(n, flip),
           Mirror(edits, flip), NEW r \in Regions(n, edits),
           NEW x \in Around(n, edits, r), Stuck(edits, x)
    PROVE  Flipped(x) \in Around(n, flip, Flipped(r)) /\ Stuck(flip, Flipped(x))
<1> DEFINE y == Flipped(x)
           q == Flipped(r)
<1>1. x \in Regions(n, edits) BY DEF Around
<1>2. /\ y \in Regions(n, flip) /\ y.start = x.start /\ y.end = x.end
      /\ \A s \in Sides : y.idx[s] = x.idx[Other(s)]
  BY <1>1, FlippedType
<1>3. /\ q.start = r.start /\ q.end = r.end
      /\ \A s \in Sides : q.idx[s] = r.idx[Other(s)]
  BY FlippedType
<1> HIDE DEF y, q
<1>4. /\ x.start = r.start /\ r.end <= x.end
      /\ \A s \in Sides :
           /\ r.idx[s] <= x.idx[s]
           /\ \A i \in r.idx[s] .. x.idx[s] - 1 : edits[s][i + 1].to <= x.end
  BY DEF Around
<1>5. ASSUME NEW s \in Sides
      PROVE  /\ q.idx[s] <= y.idx[s]
             /\ \A i \in q.idx[s] .. y.idx[s] - 1 : flip[s][i + 1].to <= y.end
             /\ Blocked(flip, y, s)
  <2> DEFINE t == Other(s)
  <2>1. t \in Sides /\ flip[s] = edits[t] BY OtherIs DEF Mirror
  <2>2. q.idx[s] = r.idx[t] /\ y.idx[s] = x.idx[t] BY <1>2, <1>3
  <2> HIDE DEF t
  <2>3. Blocked(edits, x, t) BY <2>1 DEF Stuck
  <2>4. Blocked(flip, y, s) BY <1>2, <2>1, <2>2, <2>3 DEF Blocked
  <2>5. /\ r.idx[t] <= x.idx[t]
        /\ \A i \in r.idx[t] .. x.idx[t] - 1 : edits[t][i + 1].to <= x.end
    BY <1>4, <2>1
  <2> QED BY <1>2, <2>1, <2>2, <2>4, <2>5
<1>6. y \in Around(n, flip, q) BY <1>2, <1>3, <1>4, <1>5 DEF Around
<1>7. Stuck(flip, y) BY <1>5 DEF Stuck
<1> QED BY <1>6, <1>7 DEF y, q

\* A region grows alike whichever side is looked at first.
LEMMA GrowMirrors ==
    ASSUME NEW n \in Nat, NEW edits, NEW flip, EditLists(n, edits), EditLists(n, flip),
           Mirror(edits, flip), NEW r \in Regions(n, edits)
    PROVE  Grow(flip, Flipped(r)) = Flipped(Grow(edits, r))
<1> DEFINE q == Flipped(r)
           g == Grow(edits, r)
           h == Grow(flip, q)
           gf == Flipped(g)
           hf == Flipped(h)
<1>1. Mirror(flip, edits) BY MirrorBack
<1>2. q \in Regions(n, flip) /\ Flipped(q) = r BY FlippedType
<1> HIDE DEF q
<1>3. Least(n, edits, r, g) /\ Least(n, flip, q, h) BY <1>2, GrowLeast
<1> HIDE DEF g, h
<1>4. g \in Around(n, edits, r) /\ Stuck(edits, g) BY <1>3 DEF Least
<1>5. h \in Around(n, flip, q) /\ Stuck(flip, h) BY <1>3 DEF Least
<1>6. g \in Regions(n, edits) /\ h \in Regions(n, flip) BY <1>4, <1>5 DEF Around
<1>7. gf \in Around(n, flip, q) /\ Stuck(flip, gf) BY <1>4, FlippedAround DEF q
<1>8. hf \in Around(n, edits, r) /\ Stuck(edits, hf)
  <2>1. hf \in Around(n, edits, Flipped(q)) /\ Stuck(edits, hf)
    BY <1>1, <1>2, <1>5, FlippedAround
  <2> QED BY <1>2, <2>1
<1>9. /\ gf \in Regions(n, flip) /\ gf.start = g.start /\ gf.end = g.end
      /\ \A s \in Sides : gf.idx[s] = g.idx[Other(s)]
  BY <1>6, FlippedType
<1>10. /\ hf.start = h.start /\ hf.end = h.end
       /\ \A s \in Sides : hf.idx[s] = h.idx[Other(s)]
  BY <1>1, <1>6, FlippedType
<1> HIDE DEF gf, hf
<1>11. NoLarger(g, hf) /\ NoLarger(h, gf) BY <1>3, <1>7, <1>8 DEF Least
<1>12. /\ h.start \in 0 .. n /\ h.end \in 0 .. n /\ h.idx \in [Sides -> Nat]
       /\ h = [start |-> h.start, end |-> h.end, idx |-> h.idx]
  BY <1>6, RegionFields
<1>13. /\ gf.start \in 0 .. n /\ gf.end \in 0 .. n /\ gf.idx \in [Sides -> Nat]
       /\ gf = [start |-> gf.start, end |-> gf.end, idx |-> gf.idx]
  BY <1>9, RegionFields
<1>14. h.end = gf.end
  <2>1. g.end <= h.end /\ h.end <= gf.end BY <1>10, <1>11 DEF NoLarger
  <2> QED BY <1>9, <1>12, <1>13, <2>1
<1>15. h.start = gf.start
  <2>1. g.start = r.start /\ h.start = q.start BY <1>4, <1>5 DEF Around
  <2>2. q.start = r.start BY FlippedType DEF q
  <2> QED BY <1>9, <2>1, <2>2
<1>16. ASSUME NEW s \in Sides PROVE h.idx[s] = gf.idx[s]
  <2>1. Other(s) \in Sides /\ Other(Other(s)) = s BY OtherIs
  <2>2. g.idx[Other(s)] <= hf.idx[Other(s)] /\ h.idx[s] <= gf.idx[s]
    BY <1>11, <2>1 DEF NoLarger
  <2>3. gf.idx[s] = g.idx[Other(s)] /\ hf.idx[Other(s)] = h.idx[s] BY <1>9, <1>10, <2>1
  <2>4. h.idx[s] \in Nat /\ gf.idx[s] \in Nat BY <1>12, <1>13
  <2> QED BY <2>2, <2>3, <2>4
<1>17. h.idx = gf.idx BY <1>12, <1>13, <1>16
<1>18. h = gf BY <1>12, <1>13, <1>14, <1>15, <1>17
<1> QED BY <1>18 DEF h, gf, g, q

-------------------------------------------------------------------------------
\* The states of the reader that resolves conflicts.
Readings == [within : {"both"} \cup Sides, kept : Seq(Line)]

\* Before the first line.
Unread0 == [within |-> "both", kept |-> <<>>]

\* Its loop.
ReadingLoop(text, side, acc) ==
    acc = [i \in 0 .. Len(text) |->
             IF i = 0 THEN Unread0 ELSE ResolveLine(acc[i - 1], text[i], side)]

\* A line is read.
LEMMA ResolveLineType ==
    ASSUME NEW acc \in Readings, NEW l \in Output, NEW side
    PROVE  ResolveLine(acc, l, side) \in Readings
<1>1. acc.within \in {"both"} \cup Sides /\ acc.kept \in Seq(Line) BY DEF Readings
<1>2. acc = [within |-> acc.within, kept |-> acc.kept] BY DEF Readings
<1>3. CASE l \in Markers
  <2>1. ResolveLine(acc, l, side) \in {[acc EXCEPT !.within = w] : w \in {"both"} \cup Sides}
    BY <1>3 DEF ResolveLine, Markers, Sides
  <2>2. \A w \in {"both"} \cup Sides : [acc EXCEPT !.within = w] \in Readings BY DEF Readings
  <2> QED BY <2>1, <2>2
<1>4. CASE l \notin Markers
  <2>1. l \in Line BY <1>4 DEF Output
  <2>2. ResolveLine(acc, l, side) = IF acc.within \in {"both", side}
                                    THEN [acc EXCEPT !.kept = Append(acc.kept, l)] ELSE acc
    BY <1>4 DEF ResolveLine, Markers
  <2> DEFINE kept == Append(acc.kept, l)
  <2>3. kept \in Seq(Line) BY <1>1, <2>1, AppendProperties
  <2> HIDE DEF kept
  <2>4. [acc EXCEPT !.kept = kept] \in Readings BY <1>1, <1>2, <2>3 DEF Readings
  <2> QED BY <2>2, <2>4 DEF kept
<1> QED BY <1>3, <1>4

\* The reader's states, one by one.
Read(text, side, acc) ==
    /\ acc[0] = Unread0
    /\ \A i \in 1 .. Len(text) : acc[i] = ResolveLine(acc[i - 1], text[i], side)
    /\ \A i \in 0 .. Len(text) : acc[i] \in Readings
    /\ Resolution(text, side) = acc[Len(text)]

\* There are such states.
LEMMA ResolutionIs ==
    ASSUME NEW text \in Seq(Output), NEW side
    PROVE  \E acc : Read(text, side, acc)
<1> DEFINE m == Len(text)
           S == Readings
           V == [i \in 0 .. m |-> S]
           Step(x, i) == ResolveLine(x, text[i], side)
           next == [i \in 1 .. m |-> [x \in S |-> Step(x, i)]]
           acc == CHOOSE f : ReadingLoop(text, side, f)
<1>1. m \in Nat /\ \A i \in 1 .. m : text[i] \in Output OBVIOUS
<1>2. \A i \in 1 .. m : \A x \in S : Step(x, i) \in S BY <1>1, ResolveLineType
<1>3. Unread0 \in S
  <2>1. <<>> \in Seq(Line) BY EmptySeq
  <2> QED BY <2>1 DEF Readings, Unread0
<1> HIDE DEF m, S, Step
<1>4. \A i \in 0 .. m : V[i] = S OBVIOUS
<1>5. V[0] = S /\ \A i \in 1 .. m : V[i - 1] = S /\ V[i] = S BY <1>1
<1>6. \A i \in 1 .. m : \A x \in S : next[i][x] = Step(x, i) OBVIOUS
<1> HIDE DEF V, next
<1>7. \A i \in 1 .. m : \A x \in V[i - 1] : next[i][x] \in V[i] BY <1>2, <1>5, <1>6
<1>8. PICK f : Runs(f, m, Unread0, next, V) BY <1>1, <1>3, <1>5, <1>7, LoopRuns
<1>9. ReadingLoop(text, side, f)
  <2>1. \A i \in 1 .. m : f[i] = Step(f[i - 1], i) BY <1>5, <1>6, <1>8 DEF Runs
  <2>2. ASSUME NEW i \in 0 .. m
        PROVE  f[i] = IF i = 0 THEN Unread0 ELSE Step(f[i - 1], i)
    <3>1. i # 0 => i \in 1 .. m BY <1>1
    <3> QED BY <1>8, <2>1, <3>1 DEF Runs
  <2> QED BY <1>8, <2>2 DEF ReadingLoop, Runs, m, Step
<1>10. ReadingLoop(text, side, acc) BY <1>9, Zenon
<1> HIDE DEF acc
<1>11. acc[0] = Unread0 /\ \A i \in 1 .. m : acc[i] = Step(acc[i - 1], i)
  <2>1. 0 \in 0 .. m /\ \A i \in 1 .. m : i \in 0 .. m /\ i # 0 BY <1>1
  <2> QED BY <1>10, <2>1 DEF ReadingLoop, m, Step
<1>12. Visits(acc, m, V) BY <1>1, <1>2, <1>3, <1>5, <1>11, LoopInvariant
<1>13. \A i \in 0 .. m : acc[i] \in S BY <1>4, <1>12 DEF Visits
<1>14. Resolution(text, side) = acc[m] BY DEF Resolution, acc, ReadingLoop, Unread0, m
<1>15. Read(text, side, acc) BY <1>11, <1>13, <1>14 DEF Read, m, S, Step
<1> QED BY <1>15

\* A reading is one of them, and starts with nothing.
LEMMA ResolutionType ==
    ASSUME NEW text \in Seq(Output), NEW side
    PROVE  /\ Resolution(text, side) \in Readings
           /\ Resolution(<<>>, side) = Unread0
<1>1. PICK acc : Read(text, side, acc) BY ResolutionIs
<1>2. Len(text) \in 0 .. Len(text) OBVIOUS
<1>3. Resolution(text, side) \in Readings BY <1>1, <1>2 DEF Read
<1>4. <<>> \in Seq(Output) /\ Len(<<>>) = 0 BY EmptySeq
<1>5. PICK none : Read(<<>>, side, none) BY <1>4, ResolutionIs
<1>6. Resolution(<<>>, side) = Unread0 BY <1>4, <1>5 DEF Read
<1> QED BY <1>3, <1>6

\* One more line is one more step.
LEMMA ResolutionAppend ==
    ASSUME NEW text \in Seq(Output), NEW l \in Output, NEW side
    PROVE  Resolution(Append(text, l), side) = ResolveLine(Resolution(text, side), l, side)
<1> DEFINE more == Append(text, l)
           m == Len(text)
<1>1. /\ m \in Nat /\ more \in Seq(Output) /\ Len(more) = m + 1
      /\ \A i \in 1 .. m : more[i] = text[i]
      /\ more[m + 1] = l
  BY AppendProperties
<1>2. PICK acc : Read(text, side, acc) BY ResolutionIs
<1> HIDE DEF more
<1>3. PICK bcc : Read(more, side, bcc) BY <1>1, ResolutionIs
<1>4. /\ acc[0] = Unread0 /\ Resolution(text, side) = acc[m]
      /\ \A i \in 1 .. m : acc[i] = ResolveLine(acc[i - 1], text[i], side)
  BY <1>2, Zenon DEF Read
<1>5. /\ bcc[0] = Unread0 /\ Resolution(more, side) = bcc[m + 1]
      /\ \A i \in 1 .. m + 1 : bcc[i] = ResolveLine(bcc[i - 1], more[i], side)
  BY <1>1, <1>3, Zenon DEF Read
<1> HIDE DEF m
<1>6. \A i \in 1 .. m : acc[i - 1] = bcc[i - 1] => acc[i] = bcc[i]
  <2> SUFFICES ASSUME NEW i \in 1 .. m, acc[i - 1] = bcc[i - 1] PROVE acc[i] = bcc[i]
    OBVIOUS
  <2>1. i \in 1 .. m + 1 BY <1>1
  <2>2. bcc[i] = ResolveLine(bcc[i - 1], text[i], side) BY <1>1, <1>5, <2>1
  <2> QED BY <1>4, <2>2
<1>7. acc[0] = bcc[0] BY <1>4, <1>5
<1>8. acc[m] = bcc[m]
  <2>1. Alike(acc, bcc, m) BY <1>1, <1>6, <1>7, LoopUnique
  <2>2. m \in 0 .. m BY <1>1
  <2> QED BY <2>1, <2>2 DEF Alike
<1>9. bcc[m + 1] = ResolveLine(bcc[m], l, side)
  <2> DEFINE k == m + 1
  <2>1. k \in 1 .. k /\ k - 1 = m BY <1>1
  <2>2. \A i \in 1 .. k : bcc[i] = ResolveLine(bcc[i - 1], more[i], side) BY <1>5
  <2>3. more[k] = l BY <1>1
  <2> HIDE DEF k
  <2>4. bcc[k] = ResolveLine(bcc[k - 1], more[k], side) BY <2>1, <2>2, Zenon
  <2>5. bcc[k] = ResolveLine(bcc[m], l, side) BY <2>1, <2>3, <2>4, Zenon
  <2> QED BY <2>5, Zenon DEF k
<1> QED BY <1>4, <1>5, <1>8, <1>9, Zenon DEF more

\* An element after two sequences.
LEMMA ConcatAppend ==
    ASSUME NEW S, NEW s \in Seq(S), NEW t \in Seq(S), NEW x \in S
    PROVE  s \o Append(t, x) = Append(s \o t, x)
<1>1. <<x>> \in Seq(S) /\ s \o t \in Seq(S) BY ConcatProperties
<1>2. Append(t, x) = t \o <<x>> /\ Append(s \o t, x) = (s \o t) \o <<x>>
  BY <1>1, AppendIsConcat
<1>3. s \o (t \o <<x>>) = (s \o t) \o <<x>> BY <1>1, ConcatAssociative
<1> QED BY <1>2, <1>3

\* The reader after lines that are no markers.
After(acc, part, side) ==
    [within |-> acc.within,
     kept   |-> IF acc.within \in {"both", side} THEN acc.kept \o part ELSE acc.kept]

\* Lines are kept, unless they are the other side's.
ReadsLines(text, part, side) ==
    Resolution(text \o part, side) = After(Resolution(text, side), part, side)

\* Lines of the base or of a side are read like that.
LEMMA LinesAreRead ==
    ASSUME NEW text \in Seq(Output), NEW part \in Seq(Line), NEW side
    PROVE  ReadsLines(text, part, side)
<1> DEFINE m == Len(part)
           acc == Resolution(text, side)
           T == {k \in 0 .. m : ReadsLines(text, SubSeq(part, 1, k), side)}
<1>1. /\ acc.within \in {"both"} \cup Sides /\ acc.kept \in Seq(Line)
      /\ acc = [within |-> acc.within, kept |-> acc.kept]
  <2>1. acc \in Readings BY ResolutionType
  <2> HIDE DEF acc
  <2> QED BY <2>1 DEF Readings
<1>2. m \in Nat /\ SubSeq(part, 1, m) = part /\ SubSeq(part, 1, 0) = <<>> OBVIOUS
<1>3. 0 \in T
  <2>1. text \o <<>> = text /\ acc.kept \o <<>> = acc.kept BY <1>1, ConcatEmptySeq
  <2> HIDE DEF acc
  <2>2. After(acc, <<>>, side) = acc BY <1>1, <2>1 DEF After
  <2>3. ReadsLines(text, <<>>, side) BY <2>1, <2>2 DEF ReadsLines, acc
  <2>4. 0 \in 0 .. m BY <1>2
  <2> QED BY <1>2, <2>3, <2>4
<1>4. ASSUME NEW k \in 1 .. m, k - 1 \in T PROVE k \in T
  <2> DEFINE p == SubSeq(part, 1, k - 1)
             l == part[k]
             q == SubSeq(part, 1, k)
  <2>1. q = Append(p, l) BY OneMore
  <2>2. p \in Seq(Line) /\ l \in Line
    <3>1. \A i \in 1 .. k - 1 : part[i] \in Line OBVIOUS
    <3> QED BY <3>1, SubSeqProperties
  <2>3. ReadsLines(text, p, side) BY <1>4
  <2> HIDE DEF p, l, q
  <2>4. p \in Seq(Output) /\ l \in Output /\ l \notin Markers
    BY <2>2, LinesAreOutput, TextAssumption DEF Output
  <2>5. text \o q = Append(text \o p, l) BY <2>1, <2>4, ConcatAppend
  <2>6. acc.kept \o q = Append(acc.kept \o p, l) BY <1>1, <2>1, <2>2, ConcatAppend
  <2>7. text \o p \in Seq(Output) BY <2>4, ConcatProperties
  <2>8. Resolution(text \o q, side) = ResolveLine(After(acc, p, side), l, side)
    BY <2>3, <2>4, <2>5, <2>7, ResolutionAppend DEF ReadsLines
  <2> HIDE DEF acc
  <2> DEFINE x == After(acc, p, side)
  <2>9. ResolveLine(x, l, side) = IF x.within \in {"both", side}
                                  THEN [x EXCEPT !.kept = Append(@, l)] ELSE x
    BY <2>4 DEF ResolveLine, Markers
  <2>10. ResolveLine(x, l, side) = After(acc, q, side)
    <3>1. CASE acc.within \in {"both", side} BY <2>6, <2>9, <3>1 DEF After
    <3>2. CASE acc.within \notin {"both", side} BY <2>9, <3>2 DEF After
    <3> QED BY <3>1, <3>2
  <2>11. ReadsLines(text, q, side) BY <2>8, <2>10 DEF ReadsLines, acc
  <2>12. k \in 0 .. m BY <1>2
  <2> QED BY <2>11, <2>12 DEF q
<1>5. m \in T
  <2> HIDE DEF T
  <2>1. 0 .. m \subseteq T BY <1>2, <1>3, <1>4, UpTo0
  <2>2. m \in 0 .. m BY <1>2
  <2> QED BY <2>1, <2>2
<1> QED BY <1>2, <1>5

\* Whose lines come after a marker.
Within(l) ==
    CASE l = "<<< HEAD" -> "ours" [] l = "===" -> "theirs" [] l = ">>> MERGE_HEAD" -> "both"

\* A marker says whose lines come next, and is not kept.
ReadsMark(text, l, side) ==
    /\ text \o <<l>> \in Seq(Output)
    /\ Resolution(text \o <<l>>, side) =
         [within |-> Within(l), kept |-> Resolution(text, side).kept]

\* Markers are read like that.
LEMMA MarkIsRead ==
    ASSUME NEW text \in Seq(Output), NEW l \in Markers, NEW side
    PROVE  ReadsMark(text, l, side)
<1> DEFINE acc == Resolution(text, side)
<1>1. l \in Output BY DEF Output
<1>2. text \o <<l>> = Append(text, l) BY <1>1, AppendIsConcat
<1>3. text \o <<l>> \in Seq(Output) BY <1>1, <1>2, AppendProperties
<1>4. Resolution(text \o <<l>>, side) = ResolveLine(acc, l, side)
  BY <1>1, <1>2, ResolutionAppend
<1>5. acc = [within |-> acc.within, kept |-> acc.kept]
  <2>1. acc \in Readings BY ResolutionType
  <2> HIDE DEF acc
  <2> QED BY <2>1 DEF Readings
<1> HIDE DEF acc
<1>6. CASE l = "<<< HEAD" BY <1>3, <1>4, <1>5, <1>6 DEF ResolveLine, ReadsMark, Within, acc
<1>7. CASE l = "===" BY <1>3, <1>4, <1>5, <1>7 DEF ResolveLine, ReadsMark, Within, acc
<1>8. CASE l = ">>> MERGE_HEAD" BY <1>3, <1>4, <1>5, <1>8 DEF ResolveLine, ReadsMark, Within, acc
<1> QED BY <1>6, <1>7, <1>8 DEF Markers

\* A side's half of a conflict.
Half(a, b, side) == IF side = "ours" THEN a ELSE b

\* Three parts are one text, whichever two are put together first.
Associates(s, t, u) == (s \o t) \o u = s \o (t \o u)

\* They are, for sequences.
LEMMA ConcatThree ==
    ASSUME NEW S, NEW s \in Seq(S), NEW t \in Seq(S), NEW u \in Seq(S)
    PROVE  Associates(s, t, u)
<1>1. s \in Seq(S) /\ t \in Seq(S) /\ u \in Seq(S) OBVIOUS
<1>2. (s \o t) \o u = s \o (t \o u) BY <1>1, ConcatAssociative
<1> QED BY <1>2 DEF Associates

\* What is put in front of five parts is put in front of the first.
InFront(s, x, a, y, b, z) ==
    s \o (x \o a \o y \o b \o z) = s \o x \o a \o y \o b \o z

\* It is, for sequences.
LEMMA ConcatFive ==
    ASSUME NEW S, NEW s \in Seq(S), NEW x \in Seq(S), NEW a \in Seq(S), NEW y \in Seq(S),
           NEW b \in Seq(S), NEW z \in Seq(S)
    PROVE  InFront(s, x, a, y, b, z)
<1> DEFINE c1 == x \o a
           c2 == c1 \o y
           c3 == c2 \o b
<1>1. /\ s \in Seq(S) /\ x \in Seq(S) /\ a \in Seq(S) /\ y \in Seq(S)
      /\ b \in Seq(S) /\ z \in Seq(S)
  OBVIOUS
<1>2. c1 \in Seq(S) BY <1>1, ConcatProperties
<1>3. Associates(s, x, a) BY <1>1, ConcatThree
<1> HIDE DEF c1
<1>4. c2 \in Seq(S) BY <1>1, <1>2, ConcatProperties
<1>5. Associates(s, c1, y) BY <1>1, <1>2, ConcatThree
<1> HIDE DEF c2
<1>6. c3 \in Seq(S) BY <1>1, <1>4, ConcatProperties
<1>7. Associates(s, c2, b) BY <1>1, <1>4, ConcatThree
<1> HIDE DEF c3
<1>8. Associates(s, c3, z) BY <1>1, <1>6, ConcatThree
<1>9. s \o c1 = (s \o x) \o a BY <1>3, Zenon DEF c1, Associates
<1>10. s \o c2 = ((s \o x) \o a) \o y BY <1>5, <1>9, Zenon DEF c2, Associates
<1>11. s \o c3 = (((s \o x) \o a) \o y) \o b BY <1>7, <1>10, Zenon DEF c3, Associates
<1>12. s \o (c3 \o z) = s \o x \o a \o y \o b \o z BY <1>8, <1>11, Zenon DEF Associates
<1> QED BY <1>12, Zenon DEF InFront, c3, c2, c1

\* The reader keeps one half of a conflict.
LEMMA ConflictIsRead ==
    ASSUME NEW text \in Seq(Output), NEW a \in Seq(Line), NEW b \in Seq(Line),
           NEW side \in Sides, Resolution(text, side).within = "both"
    PROVE  Resolution(text \o Conflicting(a, b), side) =
             [within |-> "both", kept |-> Resolution(text, side).kept \o Half(a, b, side)]
<1> DEFINE x == <<"<<< HEAD">>
           y == <<"===">>
           z == <<">>> MERGE_HEAD">>
           t1 == text \o x
           t2 == t1 \o a
           t3 == t2 \o y
           t4 == t3 \o b
           t5 == t4 \o z
           kept == Resolution(text, side).kept
<1>1. x \in Seq(Output) /\ y \in Seq(Output) /\ z \in Seq(Output)
  <2>1. "<<< HEAD" \in Output /\ "===" \in Output /\ ">>> MERGE_HEAD" \in Output
    BY DEF Output, Markers
  <2>2. \A l \in Output : <<l>> \in Seq(Output) OBVIOUS
  <2> QED BY <2>1, <2>2, Zenon
<1>2. a \in Seq(Output) /\ b \in Seq(Output) BY LinesAreOutput
<1>3. "<<< HEAD" \in Markers /\ "===" \in Markers /\ ">>> MERGE_HEAD" \in Markers
  BY DEF Markers
<1>4. t1 \in Seq(Output) /\ Resolution(t1, side) = [within |-> "ours", kept |-> kept]
  <2>1. ReadsMark(text, "<<< HEAD", side) BY <1>3, MarkIsRead
  <2>2. Within("<<< HEAD") = "ours" BY DEF Within
  <2> QED BY <2>1, <2>2, Zenon DEF ReadsMark
<1>5. kept \in Seq(Line)
  <2>1. Resolution(text, side) \in Readings BY ResolutionType
  <2> QED BY <2>1 DEF Readings
<1>6. text \o Conflicting(a, b) = t5
  <2>1. Conflicting(a, b) = x \o a \o y \o b \o z BY DEF Conflicting
  <2> HIDE DEF x, y, z
  <2>2. InFront(text, x, a, y, b, z) BY <1>1, <1>2, ConcatFive
  <2> QED BY <2>1, <2>2, Zenon DEF InFront
<1> HIDE DEF t1, kept
<1> DEFINE ka == IF side = "ours" THEN kept \o a ELSE kept
           kb == IF side = "theirs" THEN ka \o b ELSE ka
<1>7. t2 \in Seq(Output) /\ Resolution(t2, side) = [within |-> "ours", kept |-> ka]
  <2>1. t2 \in Seq(Output) BY <1>2, <1>4, ConcatProperties
  <2>2. Resolution(t2, side) = After(Resolution(t1, side), a, side)
    BY <1>4, LinesAreRead DEF ReadsLines
  <2> HIDE DEF t2
  <2>3. After(Resolution(t1, side), a, side) = [within |-> "ours", kept |-> ka]
    <3>1. CASE side = "ours" BY <1>4, <3>1 DEF After, ka
    <3>2. CASE side = "theirs" BY <1>4, <3>2 DEF After, ka
    <3> QED BY <3>1, <3>2 DEF Sides
  <2> QED BY <2>1, <2>2, <2>3
<1> HIDE DEF t2, ka
<1>8. t3 \in Seq(Output) /\ Resolution(t3, side) = [within |-> "theirs", kept |-> ka]
  <2>1. Resolution(t2, side).kept = ka BY <1>7
  <2>2. ReadsMark(t2, "===", side) BY <1>3, <1>7, MarkIsRead
  <2>3. Within("===") = "theirs" BY DEF Within
  <2> QED BY <2>1, <2>2, <2>3, Zenon DEF ReadsMark
<1> HIDE DEF t3
<1>9. t4 \in Seq(Output) /\ Resolution(t4, side) = [within |-> "theirs", kept |-> kb]
  <2>1. t4 \in Seq(Output) BY <1>2, <1>8, ConcatProperties
  <2>2. Resolution(t4, side) = After(Resolution(t3, side), b, side)
    BY <1>8, LinesAreRead DEF ReadsLines
  <2> HIDE DEF t4
  <2>3. After(Resolution(t3, side), b, side) = [within |-> "theirs", kept |-> kb]
    <3>1. CASE side = "theirs" BY <1>8, <3>1 DEF After, kb
    <3>2. CASE side = "ours" BY <1>8, <3>2 DEF After, kb
    <3> QED BY <3>1, <3>2 DEF Sides
  <2> QED BY <2>1, <2>2, <2>3
<1> HIDE DEF t4, kb
<1>10. Resolution(t5, side) = [within |-> "both", kept |-> kb]
  <2>1. Resolution(t4, side).kept = kb BY <1>9
  <2>2. ReadsMark(t4, ">>> MERGE_HEAD", side) BY <1>3, <1>9, MarkIsRead
  <2>3. Within(">>> MERGE_HEAD") = "both" BY DEF Within
  <2> QED BY <2>1, <2>2, <2>3, Zenon DEF ReadsMark
<1>11. kb = kept \o Half(a, b, side) BY DEF kb, ka, Half, Sides
<1> QED BY <1>6, <1>10, <1>11 DEF kept

\* Two texts that resolve alike with the sides exchanged, no conflict being open.
TwinTexts(x, y) ==
    \A s \in Sides : /\ Resolution(x, s).within = "both"
                     /\ Resolution(y, Other(s)) = Resolution(x, s)

\* They stay so with the same lines at the end.
LEMMA TwinLines ==
    ASSUME NEW x \in Seq(Output), NEW y \in Seq(Output), TwinTexts(x, y),
           NEW part \in Seq(Line)
    PROVE  TwinTexts(x \o part, y \o part)
<1> SUFFICES ASSUME NEW s \in Sides
             PROVE  /\ Resolution(x \o part, s).within = "both"
                    /\ Resolution(y \o part, Other(s)) = Resolution(x \o part, s)
  BY DEF TwinTexts
<1> DEFINE acc == Resolution(x, s)
           more == Resolution(x \o part, s)
<1>1. Other(s) \in Sides /\ acc.within = "both" /\ Resolution(y, Other(s)) = acc
  BY OtherIs DEF TwinTexts
<1>2. more = After(acc, part, s) BY LinesAreRead DEF ReadsLines
<1>3. Resolution(y \o part, Other(s)) = After(acc, part, Other(s))
  BY <1>1, LinesAreRead DEF ReadsLines
<1> HIDE DEF acc, more
<1>4. After(acc, part, Other(s)) = After(acc, part, s) BY <1>1 DEF After
<1>5. more.within = "both" BY <1>1, <1>2 DEF After
<1> QED BY <1>2, <1>3, <1>4, <1>5 DEF more

\* And with a conflict and the one that has its halves exchanged.
LEMMA TwinConflicts ==
    ASSUME NEW x \in Seq(Output), NEW y \in Seq(Output), TwinTexts(x, y),
           NEW a \in Seq(Line), NEW b \in Seq(Line)
    PROVE  TwinTexts(x \o Conflicting(a, b), y \o Conflicting(b, a))
<1> SUFFICES ASSUME NEW s \in Sides
             PROVE  /\ Resolution(x \o Conflicting(a, b), s).within = "both"
                    /\ Resolution(y \o Conflicting(b, a), Other(s))
                         = Resolution(x \o Conflicting(a, b), s)
  BY DEF TwinTexts
<1> DEFINE acc == Resolution(x, s)
           more == Resolution(x \o Conflicting(a, b), s)
           kept == acc.kept \o Half(a, b, s)
<1>1. Other(s) \in Sides /\ acc.within = "both" /\ Resolution(y, Other(s)) = acc
  BY OtherIs DEF TwinTexts
<1>2. more = [within |-> "both", kept |-> kept] BY <1>1, ConflictIsRead
<1> HIDE DEF acc
<1>3. Resolution(y \o Conflicting(b, a), Other(s)) =
        [within |-> "both", kept |-> acc.kept \o Half(b, a, Other(s))]
  BY <1>1, ConflictIsRead
<1>4. Half(b, a, Other(s)) = Half(a, b, s) BY DEF Half, Other, Sides
<1> HIDE DEF kept, more
<1>5. more.within = "both" BY <1>2
<1> QED BY <1>2, <1>3, <1>4, <1>5 DEF kept, more

-------------------------------------------------------------------------------
\* What a region contributes to a merge and to the one with the sides exchanged:
\* the same lines, or a conflict with its halves exchanged.
TwinPieces(x, y) ==
    \E o \in Seq(Line), t \in Seq(Line) :
       \/ /\ x = [text |-> o, conflict |-> FALSE]
          /\ y = [text |-> o, conflict |-> FALSE]
       \/ /\ x = [text |-> Conflicting(o, t), conflict |-> TRUE]
          /\ y = [text |-> Conflicting(t, o), conflict |-> TRUE]

\* A region is resolved alike.
LEMMA ResolveMirrors ==
    ASSUME NEW n \in Nat, NEW b \in Seq(Line), Len(b) = n,
           NEW r, NEW q, q.start = r.start, q.end = r.end,
           r.start \in 0 .. n, r.end \in 0 .. n, NEW group, NEW twin,
           \A s \in Sides : group[s] \in Seq(Edit(n)) /\ twin[s] = group[Other(s)]
    PROVE  TwinPieces(Resolve(b, r, group), Resolve(b, q, twin))
<1> DEFINE g == group["ours"]
           h == group["theirs"]
           o == BuildRegion(b, r.start, r.end, g)
           t == BuildRegion(b, r.start, r.end, h)
           io == Inserted(g)
           it == Inserted(h)
           x == Resolve(b, r, group)
           y == Resolve(b, q, twin)
<1>1. g \in Seq(Edit(n)) /\ h \in Seq(Edit(n)) BY DEF Sides
<1>2. twin["ours"] = h /\ twin["theirs"] = g BY OtherIs DEF Sides
<1>3. o \in Seq(Line) /\ t \in Seq(Line) BY <1>1, BuildType
<1>4. io \in Seq(Line) /\ it \in Seq(Line) BY <1>1, InsertedType
<1>5. \/ h = <<>> /\ x = [text |-> io, conflict |-> FALSE]
      \/ h # <<>> /\ g = <<>> /\ x = [text |-> it, conflict |-> FALSE]
      \/ h # <<>> /\ g # <<>> /\ o = t /\ x = [text |-> o, conflict |-> FALSE]
      \/ h # <<>> /\ g # <<>> /\ o # t /\ x = [text |-> Conflicting(o, t), conflict |-> TRUE]
  BY ResolveCases, Zenon DEF Resolves
<1>6. \/ g = <<>> /\ y = [text |-> it, conflict |-> FALSE]
      \/ g # <<>> /\ h = <<>> /\ y = [text |-> io, conflict |-> FALSE]
      \/ g # <<>> /\ h # <<>> /\ t = o /\ y = [text |-> t, conflict |-> FALSE]
      \/ g # <<>> /\ h # <<>> /\ t # o /\ y = [text |-> Conflicting(t, o), conflict |-> TRUE]
  <2>1. Resolves(b, q, twin) BY ResolveCases
  <2> QED BY <1>2, <2>1, Zenon DEF Resolves
<1>7. g = <<>> /\ h = <<>> => io = it OBVIOUS
<1> HIDE DEF g, h, o, t, io, it, x, y
<1>8. CASE g = <<>> \/ h = <<>>
  <2>1. \/ x = [text |-> io, conflict |-> FALSE] /\ y = [text |-> io, conflict |-> FALSE]
        \/ x = [text |-> it, conflict |-> FALSE] /\ y = [text |-> it, conflict |-> FALSE]
    BY <1>5, <1>6, <1>7, <1>8, Zenon
  <2>2. TwinPieces(x, y) BY <1>4, <2>1, Zenon DEF TwinPieces
  <2> QED BY <2>2 DEF x, y
<1>9. CASE g # <<>> /\ h # <<>> /\ o = t
  <2>1. x = [text |-> o, conflict |-> FALSE] /\ y = [text |-> o, conflict |-> FALSE]
    BY <1>5, <1>6, <1>9, Zenon
  <2>2. TwinPieces(x, y) BY <1>3, <2>1, Zenon DEF TwinPieces
  <2> QED BY <2>2 DEF x, y
<1>10. CASE g # <<>> /\ h # <<>> /\ o # t
  <2>1. /\ x = [text |-> Conflicting(o, t), conflict |-> TRUE]
        /\ y = [text |-> Conflicting(t, o), conflict |-> TRUE]
    BY <1>5, <1>6, <1>10, Zenon
  <2>2. TwinPieces(x, y) BY <1>3, <2>1, Zenon DEF TwinPieces
  <2> QED BY <2>2 DEF x, y
<1> QED BY <1>8, <1>9, <1>10

\* The same numbers of edits done, with the sides exchanged.
Exchanged(idx, jdx) == \A s \in Sides : jdx[s] = idx[Other(s)]

\* The next region is opened at the same line.
LEMMA OpenedMirrors ==
    ASSUME NEW edits, NEW flip, Mirror(edits, flip),
           NEW idx \in [Sides -> Nat], NEW jdx \in [Sides -> Nat], Exchanged(idx, jdx)
    PROVE  Opened(flip, jdx) = Flipped(Opened(edits, idx))
<1> DEFINE S == {edits[s][idx[s] + 1].from : s \in {x \in Sides : idx[x] < Len(edits[x])}}
           T == {flip[s][jdx[s] + 1].from : s \in {x \in Sides : jdx[x] < Len(flip[x])}}
           k == Start(edits, idx)
<1>1. \A s \in Sides : jdx[s] = idx[Other(s)] /\ flip[s] = edits[Other(s)]
  BY DEF Exchanged, Mirror
<1>2. \A s \in Sides : /\ Other(s) \in Sides
                       /\ idx[s] = jdx[Other(s)] /\ edits[s] = flip[Other(s)]
  <2>1. \A s \in Sides : Other(s) \in Sides /\ Other(Other(s)) = s BY OtherIs
  <2> QED BY <1>1, <2>1, Zenon
<1>3. S \subseteq T
  <2> SUFFICES ASSUME NEW s \in Sides, idx[s] < Len(edits[s])
               PROVE  edits[s][idx[s] + 1].from \in T
    OBVIOUS
  <2> DEFINE t == Other(s)
  <2>1. t \in Sides /\ idx[s] = jdx[t] /\ edits[s] = flip[t] BY <1>2
  <2> HIDE DEF t
  <2> QED BY <2>1
<1>4. T \subseteq S
  <2> SUFFICES ASSUME NEW s \in Sides, jdx[s] < Len(flip[s])
               PROVE  flip[s][jdx[s] + 1].from \in S
    OBVIOUS
  <2> DEFINE t == Other(s)
  <2>1. t \in Sides /\ jdx[s] = idx[t] /\ flip[s] = edits[t] BY <1>1, <1>2
  <2> HIDE DEF t
  <2> QED BY <2>1
<1>5. S = T BY <1>3, <1>4
<1>6. Start(flip, jdx) = k BY <1>5, Zenon DEF Start
<1>7. jdx = [s \in Sides |-> idx[Other(s)]] BY <1>1
<1>8. Opened(flip, jdx) = [start |-> k, end |-> k, idx |-> jdx] BY <1>6 DEF Opened
<1>9. Opened(edits, idx) = [start |-> k, end |-> k, idx |-> idx] BY DEF Opened
<1> HIDE DEF k
<1> QED BY <1>7, <1>8, <1>9 DEF Flipped

\* Two walks at the same line, with the sides exchanged.
Twins(w, v) ==
    /\ v.at = w.at /\ Exchanged(w.idx, v.idx)
    /\ v.conflict = w.conflict
    /\ TwinTexts(w.text, v.text)

\* They have the same edits left, and come to the same region.
LEMMA TwinRegions ==
    ASSUME NEW n \in Nat, NEW edits, NEW flip, EditLists(n, edits), EditLists(n, flip),
           Mirror(edits, flip), NEW w \in WalkStates(n, edits), NEW v \in WalkStates(n, flip),
           Twins(w, v)
    PROVE  /\ AllDone(edits, w) <=> AllDone(flip, v)
           /\ ~AllDone(edits, w) => NextRegion(flip, v) = Flipped(NextRegion(edits, w))
<1> DEFINE idx == w.idx
           jdx == v.idx
<1>1. idx \in [Sides -> Nat] /\ jdx \in [Sides -> Nat] BY DEF WalkStates
<1>2. Exchanged(idx, jdx) BY DEF Twins
<1> HIDE DEF idx, jdx
<1>3. (\A s \in Sides : idx[s] = Len(edits[s])) <=> (\A s \in Sides : jdx[s] = Len(flip[s]))
  <2>1. \A s \in Sides : jdx[s] = idx[Other(s)] /\ flip[s] = edits[Other(s)]
    BY <1>2 DEF Exchanged, Mirror
  <2>2. Other("ours") = "theirs" /\ Other("theirs") = "ours" BY OtherIs
  <2>3. /\ jdx["ours"] = idx["theirs"] /\ flip["ours"] = edits["theirs"]
        /\ jdx["theirs"] = idx["ours"] /\ flip["theirs"] = edits["ours"]
    BY <2>1, <2>2 DEF Sides
  <2> QED BY <2>3 DEF Sides
<1>4. AllDone(edits, w) <=> AllDone(flip, v) BY <1>3 DEF AllDone, idx, jdx
<1>5. ASSUME ~AllDone(edits, w) PROVE NextRegion(flip, v) = Flipped(NextRegion(edits, w))
  <2> DEFINE r == Opened(edits, idx)
  <2>1. r \in Regions(n, edits) BY <1>5, NextRegionType DEF idx
  <2>2. Opened(flip, jdx) = Flipped(r) BY <1>1, <1>2, OpenedMirrors
  <2> HIDE DEF r
  <2>3. Grow(flip, Flipped(r)) = Flipped(Grow(edits, r)) BY <2>1, GrowMirrors
  <2> QED BY <2>2, <2>3 DEF NextRegion, r, idx, jdx
<1> QED BY <1>4, <1>5

\* They find twin pieces there.
LEMMA TwinContributions ==
    ASSUME NEW n \in Nat, NEW b \in Seq(Line), Len(b) = n, NEW edits, NEW flip,
           EditLists(n, edits), EditLists(n, flip), Mirror(edits, flip),
           NEW w \in WalkStates(n, edits), NEW v \in WalkStates(n, flip),
           Twins(w, v), ~AllDone(edits, w)
    PROVE  TwinPieces(Contribution(b, edits, w), Contribution(b, flip, v))
<1> DEFINE r == NextRegion(edits, w)
           q == NextRegion(flip, v)
           idx == w.idx
           jdx == v.idx
           group == Groups(edits, idx, r)
           twin == Groups(flip, jdx, q)
<1>1. r \in Regions(n, edits) BY NextRegionType
<1>2. q = Flipped(r) BY TwinRegions
<1>3. idx \in [Sides -> Nat] /\ Exchanged(idx, jdx) BY DEF WalkStates, Twins
<1>4. Contribution(b, edits, w) = Resolve(b, r, group) BY DEF Contribution
<1>5. Contribution(b, flip, v) = Resolve(b, q, twin) BY DEF Contribution
<1> HIDE DEF r, q, idx, jdx
<1>6. /\ q.start = r.start /\ q.end = r.end
      /\ \A s \in Sides : q.idx[s] = r.idx[Other(s)]
  BY <1>1, <1>2, FlippedType
<1>7. r.start \in 0 .. n /\ r.end \in 0 .. n BY <1>1, RegionFields
<1>8. \A s \in Sides : group[s] \in Seq(Edit(n)) BY <1>1, <1>3, GroupsType
<1>9. \A s \in Sides : twin[s] = group[Other(s)]
  <2> SUFFICES ASSUME NEW s \in Sides PROVE twin[s] = group[Other(s)] OBVIOUS
  <2> DEFINE t == Other(s)
  <2>1. t \in Sides BY OtherIs
  <2>2. flip[s] = edits[t] /\ jdx[s] = idx[t] /\ q.idx[s] = r.idx[t]
    BY <1>3, <1>6 DEF Exchanged, Mirror
  <2> HIDE DEF t
  <2>3. twin[s] = SubSeq(flip[s], jdx[s] + 1, q.idx[s]) BY DEF Groups
  <2>4. group[t] = SubSeq(edits[t], idx[t] + 1, r.idx[t]) BY <2>1 DEF Groups
  <2>5. twin[s] = group[t] BY <2>2, <2>3, <2>4
  <2> QED BY <2>5 DEF t
<1> HIDE DEF group, twin
<1>10. TwinPieces(Resolve(b, r, group), Resolve(b, q, twin))
  BY <1>6, <1>7, <1>8, <1>9, ResolveMirrors
<1> QED BY <1>4, <1>5, <1>10

\* Twin texts stay so with twin pieces at the end.
LEMMA TwinsGrow ==
    ASSUME NEW x \in Seq(Output), NEW y \in Seq(Output), TwinTexts(x, y),
           NEW here, NEW there, TwinPieces(here, there)
    PROVE  TwinTexts(x \o here.text, y \o there.text) /\ here.conflict = there.conflict
<1>1. PICK o \in Seq(Line), t \in Seq(Line) :
        \/ /\ here = [text |-> o, conflict |-> FALSE]
           /\ there = [text |-> o, conflict |-> FALSE]
        \/ /\ here = [text |-> Conflicting(o, t), conflict |-> TRUE]
           /\ there = [text |-> Conflicting(t, o), conflict |-> TRUE]
  BY DEF TwinPieces
<1>2. CASE /\ here = [text |-> o, conflict |-> FALSE]
           /\ there = [text |-> o, conflict |-> FALSE]
  <2>1. TwinTexts(x \o o, y \o o) BY TwinLines
  <2>2. here.text = o /\ there.text = o /\ here.conflict = there.conflict BY <1>2
  <2> QED BY <2>1, <2>2
<1>3. CASE /\ here = [text |-> Conflicting(o, t), conflict |-> TRUE]
           /\ there = [text |-> Conflicting(t, o), conflict |-> TRUE]
  <2> DEFINE c == Conflicting(o, t)
             d == Conflicting(t, o)
  <2>1. TwinTexts(x \o c, y \o d) BY TwinConflicts
  <2> HIDE DEF c, d
  <2>2. here.text = c /\ there.text = d /\ here.conflict = there.conflict BY <1>3 DEF c, d
  <2> QED BY <2>1, <2>2
<1> QED BY <1>1, <1>2, <1>3

\* A round of the walk keeps twins.
LEMMA WalkTwins ==
    ASSUME NEW n \in Nat, NEW b \in Seq(Line), Len(b) = n, NEW edits, NEW flip,
           EditLists(n, edits), EditLists(n, flip), Mirror(edits, flip),
           NEW w \in WalkStates(n, edits), NEW v \in WalkStates(n, flip), Twins(w, v)
    PROVE  Twins(Walk(b, edits, w), Walk(b, flip, v))
<1>1. AllDone(edits, w) <=> AllDone(flip, v) BY TwinRegions
<1>2. CASE AllDone(edits, w) BY <1>1, <1>2, WalkIs
<1>3. CASE ~AllDone(edits, w)
  <2> DEFINE r == NextRegion(edits, w)
             q == NextRegion(flip, v)
             here == Contribution(b, edits, w)
             there == Contribution(b, flip, v)
             part == SubSeq(b, w.at + 1, r.start)
             x == w.text \o part
             y == v.text \o part
             c == w.conflict
             d == v.conflict
  <2>1. /\ w.at \in 0 .. n /\ w.text \in Seq(Output) /\ v.text \in Seq(Output)
        /\ v.at = w.at /\ d = c /\ TwinTexts(w.text, v.text)
    BY DEF WalkStates, Twins
  <2>2. r \in Regions(n, edits) BY <1>3, NextRegionType
  <2>3. q = Flipped(r) BY <1>3, TwinRegions
  <2>4. TwinPieces(here, there) BY <1>3, TwinContributions
  <2>5. Walk(b, edits, w) = [at |-> r.end, idx |-> r.idx, text |-> x \o here.text,
                             conflict |-> c \/ here.conflict]
    BY <1>3, WalkIs
  <2>6. Walk(b, flip, v) = [at |-> q.end, idx |-> q.idx,
                            text |-> v.text \o SubSeq(b, v.at + 1, q.start) \o there.text,
                            conflict |-> d \/ there.conflict]
    BY <1>1, <1>3, WalkIs
  <2> HIDE DEF r, q, here, there, c, d
  <2>7. q.start = r.start /\ q.end = r.end /\ Exchanged(r.idx, q.idx)
    BY <2>2, <2>3, FlippedType DEF Exchanged
  <2>8. r.start \in 0 .. n BY <2>2, RegionFields
  <2>9. part \in Seq(Line) BY <2>1, <2>8, BasePart
  <2>10. v.text \o SubSeq(b, v.at + 1, q.start) = y BY <2>1, <2>7
  <2> HIDE DEF part
  <2>11. part \in Seq(Output) BY <2>9, LinesAreOutput
  <2>12. x \in Seq(Output) /\ y \in Seq(Output) BY <2>1, <2>11, ConcatProperties
  <2>13. TwinTexts(x, y) BY <2>1, <2>9, TwinLines
  <2> HIDE DEF x, y
  <2>14. TwinTexts(x \o here.text, y \o there.text) /\ here.conflict = there.conflict
    BY <2>4, <2>12, <2>13, TwinsGrow
  <2> DEFINE t == x \o here.text
             u == y \o there.text
             e == c \/ here.conflict
             f == d \/ there.conflict
  <2>15. Walk(b, edits, w) = [at |-> r.end, idx |-> r.idx, text |-> t, conflict |-> e]
    BY <2>5
  <2>16. Walk(b, flip, v) = [at |-> q.end, idx |-> q.idx, text |-> u, conflict |-> f]
    BY <2>6, <2>10
  <2>17. f = e BY <2>1, <2>14, Zenon
  <2>18. TwinTexts(t, u) BY <2>14
  <2> HIDE DEF t, u, e, f
  <2> QED BY <2>7, <2>15, <2>16, <2>17, <2>18 DEF Twins
<1> QED BY <1>2, <1>3

\* The walks over exchanged edits.
TwinWalks(w, v, m) == \A i \in 0 .. m : Twins(w[i], v[i])

\* They are twins all along.
LEMMA WalksAreTwins ==
    ASSUME NEW n \in Nat, NEW b \in Seq(Line), Len(b) = n, NEW edits, NEW flip,
           EditLists(n, edits), EditLists(n, flip), Mirror(edits, flip),
           NEW walk, Walked(n, b, edits, walk), NEW twin, Walked(n, b, flip, twin)
    PROVE  Total(flip) = Total(edits) /\ TwinWalks(walk, twin, Total(edits))
<1> DEFINE m == Total(edits)
           T == {i \in 0 .. m : Twins(walk[i], twin[i])}
<1>1. Total(flip) = m
  <2> DEFINE x == Len(edits["ours"])
             y == Len(edits["theirs"])
  <2>1. flip["ours"] = edits["theirs"] /\ flip["theirs"] = edits["ours"]
    BY OtherIs DEF Mirror, Sides
  <2>2. x \in Nat /\ y \in Nat
    <3>1. edits["ours"] \in Seq(Edit(n)) /\ edits["theirs"] \in Seq(Edit(n))
      BY DEF EditLists, EditList, Sides
    <3> QED BY <3>1, LenProperties
  <2>3. m = x + y /\ Total(flip) = y + x BY <2>1 DEF Total
  <2> HIDE DEF x, y
  <2> QED BY <2>2, <2>3
<1>2. /\ m \in Nat /\ walk[0] = WalkStart
      /\ \A i \in 1 .. m : walk[i] = Walk(b, edits, walk[i - 1])
      /\ \A i \in 0 .. m : walk[i] \in WalkStates(n, edits)
  BY Zenon DEF Walked
<1>3. /\ twin[0] = WalkStart
      /\ \A i \in 1 .. m : twin[i] = Walk(b, flip, twin[i - 1])
      /\ \A i \in 0 .. m : twin[i] \in WalkStates(n, flip)
  BY <1>1, Zenon DEF Walked
<1> HIDE DEF m
<1>4. Twins(WalkStart, WalkStart)
  <2>1. Exchanged(WalkStart.idx, WalkStart.idx) BY OtherIs DEF Exchanged, WalkStart
  <2>2. TwinTexts(<<>>, <<>>)
    <3>1. <<>> \in Seq(Output) BY EmptySeq
    <3>2. \A s \in Sides : Resolution(<<>>, s) = Unread0 /\ Other(s) \in Sides
      BY <3>1, OtherIs, ResolutionType
    <3>3. Unread0.within = "both" BY DEF Unread0
    <3> QED BY <3>2, <3>3 DEF TwinTexts
  <2>3. WalkStart.text = <<>> BY DEF WalkStart
  <2> QED BY <2>1, <2>2, <2>3 DEF Twins
<1>5. 0 \in T BY <1>2, <1>3, <1>4
<1>6. ASSUME NEW i \in 1 .. m, i - 1 \in T PROVE i \in T
  <2> DEFINE w == walk[i - 1]
             v == twin[i - 1]
  <2>1. i - 1 \in 0 .. m /\ i \in 0 .. m BY <1>2
  <2>2. w \in WalkStates(n, edits) /\ v \in WalkStates(n, flip) BY <1>2, <1>3, <2>1
  <2>3. Twins(w, v) BY <1>6
  <2>4. walk[i] = Walk(b, edits, w) /\ twin[i] = Walk(b, flip, v) BY <1>2, <1>3
  <2> HIDE DEF w, v
  <2>5. Twins(Walk(b, edits, w), Walk(b, flip, v)) BY <2>2, <2>3, WalkTwins
  <2>6. Twins(walk[i], twin[i]) BY <2>4, <2>5
  <2> QED BY <2>1, <2>6
<1> HIDE DEF T
<1>7. 0 .. m \subseteq T BY <1>2, <1>5, <1>6, UpTo0
<1>8. TwinWalks(walk, twin, m) BY <1>7 DEF T, TwinWalks
<1> QED BY <1>1, <1>8 DEF m

\* Merges that report a conflict alike and resolve alike with the sides exchanged.
TwinMerges(x, y) == y.conflict = x.conflict /\ TwinTexts(x.text, y.text)

\* The walks over a base.
LEMMA WalkBaseTwins ==
    ASSUME NEW n \in Nat, NEW b \in Seq(Line), Len(b) = n, NEW edits, NEW flip,
           EditLists(n, edits), EditLists(n, flip), Mirror(edits, flip)
    PROVE  TwinMerges(WalkBase(b, edits), WalkBase(b, flip))
<1>1. PICK walk : Walked(n, b, edits, walk) BY WalkBaseIs
<1>2. PICK twin : Walked(n, b, flip, twin) BY WalkBaseIs
<1> DEFINE m == Total(edits)
           w == walk[m]
           v == twin[m]
           part == From(b, w.at + 1)
           x == w.text \o part
           y == v.text \o part
           c == w.conflict
           d == v.conflict
<1>3. Total(flip) = m /\ TwinWalks(walk, twin, m) BY <1>1, <1>2, WalksAreTwins
<1>4. m \in 0 .. m BY <1>1 DEF Walked
<1>5. w \in WalkStates(n, edits) /\ v \in WalkStates(n, flip)
  <2>1. w \in WalkStates(n, edits) BY <1>1, <1>4, Zenon DEF Walked
  <2>2. v \in WalkStates(n, flip) BY <1>2, <1>3, <1>4, Zenon DEF Walked
  <2> QED BY <2>1, <2>2
<1>6. Twins(w, v) BY <1>3, <1>4 DEF TwinWalks
<1>7. WalkBase(b, edits) = [text |-> x, conflict |-> c] BY <1>1, Zenon DEF Walked
<1>8. WalkBase(b, flip) = [text |-> v.text \o From(b, v.at + 1), conflict |-> d]
  BY <1>2, <1>3, Zenon DEF Walked
<1> HIDE DEF w, v
<1>9. /\ w.at \in 0 .. n /\ w.text \in Seq(Output) /\ v.text \in Seq(Output)
      /\ v.at = w.at /\ d = c /\ TwinTexts(w.text, v.text)
  BY <1>5, <1>6 DEF WalkStates, Twins
<1>10. part \in Seq(Line)
  <2>1. n \in 0 .. n OBVIOUS
  <2> QED BY <1>9, <2>1, BasePart DEF From
<1>11. TwinTexts(x, y) BY <1>9, <1>10, TwinLines
<1>12. WalkBase(b, flip) = [text |-> y, conflict |-> d] BY <1>8, <1>9
<1> HIDE DEF x, y, c, d
<1> QED BY <1>7, <1>9, <1>11, <1>12 DEF TwinMerges

\* A text without markers is the same for both sides.
LEMMA SelfTwins ==
    ASSUME NEW text \in Texts
    PROVE  TwinMerges([text |-> text, conflict |-> FALSE], [text |-> text, conflict |-> FALSE])
<1>1. text \in Seq(Line) BY TextIs
<1>2. TwinTexts(<<>>, <<>>) /\ <<>> \in Seq(Output)
  <2>1. <<>> \in Seq(Output) BY EmptySeq
  <2>2. \A s \in Sides : Resolution(<<>>, s) = Unread0 /\ Other(s) \in Sides
    BY <2>1, OtherIs, ResolutionType
  <2>3. Unread0.within = "both" BY DEF Unread0
  <2> QED BY <2>1, <2>2, <2>3 DEF TwinTexts
<1>3. <<>> \o text = text BY <1>1, ConcatEmptySeq
<1>4. TwinTexts(<<>> \o text, <<>> \o text) BY <1>1, <1>2, TwinLines
<1>5. TwinTexts(text, text) BY <1>3, <1>4
<1> QED BY <1>5 DEF TwinMerges

\* A merge and the one with the sides exchanged.
LEMMA Merge3Twins ==
    ASSUME NEW b \in Texts, NEW o \in Texts, NEW t \in Texts
    PROVE  TwinMerges(Merge3(b, o, t), Merge3(b, t, o))
<1>1. CASE o = t \/ b = t \/ b = o
  <2>1. PICK text \in Texts : /\ Merge3(b, o, t) = [text |-> text, conflict |-> FALSE]
                              /\ Merge3(b, t, o) = [text |-> text, conflict |-> FALSE]
    <3>1. CASE o = t BY <3>1 DEF Merge3
    <3>2. CASE o # t /\ b = t BY <3>2 DEF Merge3
    <3>3. CASE o # t /\ b = o BY <3>3 DEF Merge3
    <3> QED BY <1>1, <3>1, <3>2, <3>3
  <2>2. TwinMerges([text |-> text, conflict |-> FALSE], [text |-> text, conflict |-> FALSE])
    BY SelfTwins
  <2> QED BY <2>1, <2>2
<1>2. CASE ~(o = t \/ b = t \/ b = o)
  <2> DEFINE n == Len(b)
             edits == BothEdits(b, o, t)
             flip == BothEdits(b, t, o)
  <2>1. Merge3(b, o, t) = WalkBase(b, edits) /\ Merge3(b, t, o) = WalkBase(b, flip)
    BY <1>2, Zenon DEF Merge3, BothEdits
  <2>2. b \in Seq(Line) /\ n \in Nat /\ EditLists(n, edits) /\ EditLists(n, flip)
    BY BothEditsAre
  <2>3. Mirror(edits, flip) BY DEF Mirror, BothEdits, Sides, Other
  <2> HIDE DEF n, edits, flip
  <2>4. Len(b) = n BY DEF n
  <2>5. TwinMerges(WalkBase(b, edits), WalkBase(b, flip))
    BY <2>2, <2>3, <2>4, WalkBaseTwins
  <2> QED BY <2>1, <2>5
<1> QED BY <1>1, <1>2

\* Merging A into B and B into A report a conflict alike and resolve alike, although
\* ours is always looked at first (merge3.go:88): whichever side draws its edits in
\* first, a region grows to the least one that nothing more joins.  For texts of any
\* length, and any diff that starts from the base.
THEOREM MergeIsSymmetric == TextSpec => []TextSymmetric
<1>1. TextInv => TextSymmetric
  <2> SUFFICES ASSUME TextInv, Finished PROVE TextSymmetric
    BY DEF TextSymmetric
  <2> DEFINE flip == Merge3(Base, Theirs, Ours)
  <2>1. Base \in Texts /\ Ours \in Texts /\ Theirs \in Texts
    BY DEF TextInv, Base, Ours, Theirs
  <2>2. merged = Merge3(Base, Ours, Theirs) BY DEF TextInv
  <2>3. TwinMerges(merged, flip) BY <2>1, <2>2, Merge3Twins
  <2> HIDE DEF flip
  <2>4. /\ flip.conflict = merged.conflict
        /\ \A s \in Sides : Resolution(flip.text, Other(s)) = Resolution(merged.text, s)
    BY <2>3 DEF TwinMerges, TwinTexts
  <2>5. /\ Resolution(flip.text, "theirs") = Resolution(merged.text, "ours")
        /\ Resolution(flip.text, "ours") = Resolution(merged.text, "theirs")
    BY <2>4, OtherIs DEF Sides
  <2> QED BY <2>4, <2>5 DEF TextSymmetric, Resolved, flip
<1> QED BY <1>1, TextInvariant, PTL
===============================================================================
