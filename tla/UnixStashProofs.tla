----------------------------- MODULE UnixStashProofs ---------------------------
(***************************************************************************)
(* The stash log keeps its order, and is the whole outcome of one command  *)
(* at every moment, for any number of commands, entries, lock files and    *)
(* crashes, as long as no two rewrites of the log overlap.  The argument   *)
(* does not need the lock: it is the clash that the lock is for.           *)
(***************************************************************************)
EXTENDS UnixStash, SequenceTheorems, TLAPS

Steps == {"idle", "push", "append", "clear", "list", "drop", "rewrite", "unlock"}

Sorted(s) == \A i, j \in DOMAIN s : i < j => s[i] < s[j]

\* A list of entries, oldest first.
Lines(s) == s \in Seq(1 .. pushed) /\ Sorted(s)

StashTypes ==
    /\ pushed \in Nat /\ clash \in BOOLEAN
    /\ step \in [Process -> Steps]
    /\ arg \in [Process -> Nat]
    /\ seen \in [Process -> Seq(Nat)]
    /\ file \in [Process -> {"log", "tmp", "gone", "none"}]
    /\ at \in [Process -> Nat]

\* What a drop keeps of its list stays ordered, however stale the list is.
KeepsLines == \A p \in Process : step[p] \in {"drop", "rewrite"} => Lines(Store!Kept(p))

\* The temporary file is what its one writer has copied of that so far.
Copies ==
    \A p \in Process :
        /\ step[p] = "rewrite" =>
              /\ file[p] = "tmp"
              /\ tmp \in Seq(Nat) /\ Len(tmp) = at[p] /\ at[p] <= Len(Store!Kept(p))
              /\ \A j \in 1 .. at[p] : tmp[j] = Store!Kept(p)[j]
        /\ step[p] # "rewrite" => file[p] # "tmp"
        /\ step[p] = "drop" => at[p] = 0
        /\ step[p] \in {"idle", "push", "append", "clear", "list"} => at[p] = 0

OneWriter ==
    \A p, q \in Process : step[p] = "rewrite" /\ step[q] = "rewrite" => p = q

Good == StashTypes /\ Lines(log) /\ KeepsLines /\ Copies /\ OneWriter

StashInv == clash \/ Good
-------------------------------------------------------------------------------
\* What the two operators on sequences return.
LEMMA Reversed ==
    ASSUME NEW S, NEW s \in Seq(S)
    PROVE  /\ Store!Reverse(s) \in Seq(S) /\ Len(Store!Reverse(s)) = Len(s)
           /\ \A i \in 1 .. Len(s) : Store!Reverse(s)[i] = s[(Len(s) - i) + 1]
<1>1. Len(s) \in Nat /\ \A i \in 1 .. Len(s) : (Len(s) - i) + 1 \in 1 .. Len(s)
  OBVIOUS
<1> QED BY <1>1 DEF Store!Reverse

\* A list without one of its entries: what is left, and where it came from.
LEMMA OneRemoved ==
    ASSUME NEW S, NEW s \in Seq(S), NEW k \in 1 .. Len(s)
    PROVE  /\ Store!RemoveAt(s, k) \in Seq(S) /\ Len(Store!RemoveAt(s, k)) = Len(s) - 1
           /\ \A j \in 1 .. Len(s) - 1 :
                 Store!RemoveAt(s, k)[j] = IF j < k THEN s[j] ELSE s[j + 1]
<1> DEFINE L == Len(s)
           a == SubSeq(s, 1, k - 1)
           b == SubSeq(s, k + 1, L)
<1>1. L \in Nat /\ k \in 1 .. L /\ k - 1 \in Nat /\ L - k \in Nat
  OBVIOUS
<1>2. a \in Seq(S) /\ Len(a) = k - 1 /\ \A j \in 1 .. k - 1 : a[j] = s[j]
  <2>1. \A i \in 1 .. k - 1 : s[i] \in S
    BY <1>1
  <2>2. a \in Seq(S) /\ Len(a) = IF 1 <= k - 1 THEN (k - 1) - 1 + 1 ELSE 0
    BY <1>1, <2>1, SubSeqProperties
  <2>3. \A i \in 1 .. (k - 1) - 1 + 1 : a[i] = s[1 + i - 1]
    BY <1>1, <2>1, SubSeqProperties
  <2> HIDE DEF a
  <2>4. Len(a) = k - 1
    BY <1>1, <2>2
  <2>5. ASSUME NEW j \in 1 .. k - 1 PROVE a[j] = s[j]
    <3>1. j \in 1 .. (k - 1) - 1 + 1 /\ 1 + j - 1 = j
      BY <1>1
    <3> QED BY <2>3, <3>1
  <2> QED BY <2>2, <2>4, <2>5
<1>3. b \in Seq(S) /\ Len(b) = L - k /\ \A j \in 1 .. L - k : b[j] = s[k + j]
  <2>1. \A i \in k + 1 .. L : s[i] \in S
    BY <1>1
  <2>2. b \in Seq(S) /\ Len(b) = IF k + 1 <= L THEN L - (k + 1) + 1 ELSE 0
    BY <1>1, <2>1, SubSeqProperties
  <2>3. \A i \in 1 .. L - (k + 1) + 1 : b[i] = s[(k + 1) + i - 1]
    BY <1>1, <2>1, SubSeqProperties
  <2> HIDE DEF b
  <2>4. Len(b) = L - k
    BY <1>1, <2>2
  <2>5. ASSUME NEW j \in 1 .. L - k PROVE b[j] = s[k + j]
    <3>1. j \in 1 .. L - (k + 1) + 1 /\ (k + 1) + j - 1 = k + j
      BY <1>1
    <3> QED BY <2>3, <3>1
  <2> QED BY <2>2, <2>4, <2>5
<1>4. Store!RemoveAt(s, k) = a \o b
  BY DEF Store!RemoveAt
<1> HIDE DEF a, b
<1>5. a \o b \in Seq(S) /\ Len(a \o b) = (k - 1) + (L - k)
  <2>1. a \o b \in Seq(S) /\ Len(a \o b) = Len(a) + Len(b)
    BY <1>2, <1>3, ConcatProperties
  <2> QED BY <1>2, <1>3, <2>1
<1>6. ASSUME NEW j \in 1 .. L - 1
      PROVE  (a \o b)[j] = IF j < k THEN s[j] ELSE s[j + 1]
  <2>1. (a \o b)[j] = IF j <= k - 1 THEN a[j] ELSE b[j - (k - 1)]
    <3>1. j \in 1 .. Len(a) + Len(b)
      BY <1>1, <1>2, <1>3
    <3>2. (a \o b)[j] = IF j <= Len(a) THEN a[j] ELSE b[j - Len(a)]
      BY <1>2, <1>3, <3>1, ConcatProperties
    <3> QED BY <1>2, <3>2
  <2>2. CASE j < k
    BY <1>1, <1>2, <2>1, <2>2
  <2>3. CASE ~(j < k)
    <3>1. j - (k - 1) \in 1 .. L - k /\ k + (j - (k - 1)) = j + 1 /\ ~(j <= k - 1)
      BY <1>1, <2>3
    <3> QED BY <1>3, <2>1, <2>3, <3>1
  <2> QED BY <2>2, <2>3
<1> QED BY <1>1, <1>4, <1>5, <1>6

\* A list of entries without one of them, copied in the order of the file.
LEMMA KeptInOrder ==
    ASSUME NEW n \in Nat, NEW s \in Seq(1 .. n), Sorted(s), NEW k \in 1 .. Len(s)
    PROVE  /\ Store!Reverse(Store!RemoveAt(Store!Reverse(s), k)) \in Seq(1 .. n)
           /\ Sorted(Store!Reverse(Store!RemoveAt(Store!Reverse(s), k)))
<1> DEFINE L == Len(s)
           r == Store!Reverse(s)
           d == Store!RemoveAt(r, k)
           t == Store!Reverse(d)
<1>1. L \in Nat /\ k \in 1 .. L /\ L - 1 \in Nat
  OBVIOUS
<1>2. r \in Seq(1 .. n) /\ Len(r) = L /\ \A i \in 1 .. L : r[i] = s[(L - i) + 1]
  BY Reversed
<1> HIDE DEF r
<1>3. /\ d \in Seq(1 .. n) /\ Len(d) = L - 1
      /\ \A j \in 1 .. L - 1 : d[j] = IF j < k THEN r[j] ELSE r[j + 1]
  BY <1>2, OneRemoved
<1> HIDE DEF d
<1>4. /\ t \in Seq(1 .. n) /\ Len(t) = L - 1
      /\ \A i \in 1 .. L - 1 : t[i] = d[((L - 1) - i) + 1]
  <2>1. /\ t \in Seq(1 .. n) /\ Len(t) = Len(d)
        /\ \A i \in 1 .. Len(d) : t[i] = d[(Len(d) - i) + 1]
    BY <1>3, Reversed
  <2> HIDE DEF t
  <2> QED BY <1>3, <2>1
<1> HIDE DEF t
<1>5. ASSUME NEW i \in 1 .. L - 1
      PROVE  t[i] = IF L - i < k THEN s[i + 1] ELSE s[i]
  <2>1. /\ ((L - 1) - i) + 1 = L - i /\ L - i \in 1 .. L - 1
        /\ L - i \in 1 .. L /\ (L - i) + 1 \in 1 .. L
        /\ (L - (L - i)) + 1 = i + 1 /\ (L - ((L - i) + 1)) + 1 = i
    BY <1>1
  <2>2. t[i] = IF L - i < k THEN r[L - i] ELSE r[(L - i) + 1]
    BY <1>3, <1>4, <2>1
  <2> QED BY <1>2, <2>1, <2>2
<1>6. ASSUME NEW i \in 1 .. L - 1, NEW j \in 1 .. L - 1, i < j
      PROVE  t[i] < t[j]
  <2>1. /\ i \in 1 .. L /\ j \in 1 .. L /\ i + 1 \in 1 .. L /\ j + 1 \in 1 .. L
        /\ i < j + 1 /\ i + 1 < j + 1 /\ (L - i < k => L - j < k)
    <3>1. L \in Nat /\ k \in Nat /\ i \in Nat /\ j \in Nat /\ 1 <= i /\ j <= L - 1
      BY <1>1
    <3> QED BY <1>6, <3>1
  <2>2. \A x, y \in 1 .. L : x < y => s[x] < s[y]
    <3>1. DOMAIN s = 1 .. L
      OBVIOUS
    <3> HIDE DEF L
    <3> QED BY <3>1 DEF Sorted
  <2>3. /\ t[i] = IF L - i < k THEN s[i + 1] ELSE s[i]
        /\ t[j] = IF L - j < k THEN s[j + 1] ELSE s[j]
    BY <1>5
  <2>4. s[i] < s[j] /\ s[i] < s[j + 1] /\ s[i + 1] < s[j + 1]
    BY <1>6, <2>1, <2>2
  <2> QED BY <2>1, <2>3, <2>4
<1>7. Sorted(t)
  <2>1. DOMAIN t = 1 .. L - 1
    BY <1>4
  <2> QED BY <1>6, <2>1 DEF Sorted
<1> QED BY <1>4, <1>7 DEF t, d, r
-------------------------------------------------------------------------------
\* A sequence of fewer values is one of more.
LEMMA Widened ==
    ASSUME NEW S, NEW T, S \subseteq T, NEW s \in Seq(S)
    PROVE  s \in Seq(T)
OBVIOUS

\* A command that does not go on to rewrite leaves the others' copies alone.
LEMMA Aside ==
    ASSUME Good, NEW p \in Process, StashTypes', Lines(log)', pushed <= pushed',
           step' = [step EXCEPT ![p] = step'[p]], step'[p] \notin {"drop", "rewrite"},
           step'[p] # "unlock" => at'[p] = 0,
           file'[p] # "tmp", step[p] = "rewrite" \/ tmp' = tmp,
           \A q \in Process \ {p} :
              /\ arg'[q] = arg[q] /\ seen'[q] = seen[q] /\ at'[q] = at[q]
              /\ step[q] = "rewrite" => file'[q] = file[q]
              /\ step[q] # "rewrite" => file'[q] # "tmp"
    PROVE  Good'
<1>1. /\ \A q \in Process \ {p} : step'[q] = step[q] /\ Store!Kept(q)' = Store!Kept(q)
      /\ step'[p] \in Steps
  BY DEF Good, StashTypes, Store!Kept
<1>2. 1 .. pushed \subseteq 1 .. pushed'
  BY DEF Good, StashTypes
<1>3. KeepsLines'
  <2>1. ASSUME NEW q \in Process, step'[q] \in {"drop", "rewrite"} PROVE Lines(Store!Kept(q))'
    <3>1. q # p /\ step[q] \in {"drop", "rewrite"} /\ Store!Kept(q)' = Store!Kept(q)
      BY <1>1, <2>1
    <3>2. Store!Kept(q) \in Seq(1 .. pushed) /\ Sorted(Store!Kept(q))
      BY <3>1 DEF Good, KeepsLines, Lines
    <3>3. Store!Kept(q) \in Seq(1 .. pushed')
      BY <1>2, <3>2, Widened
    <3>4. Sorted(Store!Kept(q)')
      BY <3>1, <3>2 DEF Sorted
    <3> QED BY <3>1, <3>3, <3>4 DEF Lines, Sorted
  <2> QED BY <2>1 DEF KeepsLines
<1>4. OneWriter'
  BY <1>1 DEF Good, OneWriter
<1>5. Copies'
  <2>1. ASSUME NEW q \in Process, q # p
        PROVE  /\ step'[q] = "rewrite" =>
                    /\ file'[q] = "tmp"
                    /\ tmp' \in Seq(Nat) /\ Len(tmp') = at'[q] /\ at'[q] <= Len(Store!Kept(q)')
                    /\ \A j \in 1 .. at'[q] : tmp'[j] = Store!Kept(q)'[j]
               /\ step'[q] # "rewrite" => file'[q] # "tmp"
               /\ step'[q] = "drop" => at'[q] = 0
               /\ step'[q] \in {"idle", "push", "append", "clear", "list"} => at'[q] = 0
    <3>1. step'[q] = step[q] /\ at'[q] = at[q] /\ Store!Kept(q)' = Store!Kept(q)
      BY <1>1, <2>1
    <3>2. step[q] = "rewrite" => file'[q] = file[q] /\ tmp' = tmp
      BY <2>1 DEF Good, OneWriter
    <3>3. step[q] # "rewrite" => file'[q] # "tmp"
      BY <2>1
    <3> QED BY <3>1, <3>2, <3>3 DEF Good, Copies
  <2>2. step'[p] # "rewrite" /\ step'[p] # "drop" /\ file'[p] # "tmp"
    OBVIOUS
  <2>3. step'[p] \in {"idle", "push", "append", "clear", "list"} => at'[p] = 0
    OBVIOUS
  <2> QED BY <2>1, <2>2, <2>3 DEF Copies
<1> QED BY <1>3, <1>4, <1>5 DEF Good

\* A command that returns or dies forgets its list.
LEMMA ReturnKeeps ==
    ASSUME Good, NEW p \in Process, Store!Return(p), UNCHANGED <<log, tmp, pushed, clash>>
    PROVE  Good'
<1>1. StashTypes'
  <2>1. <<>> \in Seq(Nat)
    OBVIOUS
  <2> QED BY <2>1 DEF Good, StashTypes, Steps, Store!Return, Store!Goto
<1>2. Lines(log)' /\ pushed <= pushed'
  BY DEF Good, StashTypes, Lines, Sorted
<1>3. /\ step' = [step EXCEPT ![p] = step'[p]] /\ step'[p] = "idle"
      /\ at'[p] = 0 /\ file'[p] = "none"
      /\ \A q \in Process \ {p} :
            arg'[q] = arg[q] /\ seen'[q] = seen[q] /\ at'[q] = at[q] /\ file'[q] = file[q]
  BY DEF Good, StashTypes, Store!Return, Store!Goto
<1>4. \A q \in Process : step[q] # "rewrite" => file[q] # "tmp"
  BY DEF Good, Copies
<1> QED BY <1>1, <1>2, <1>3, <1>4, Aside

\* Starting a command, and the steps under the lock that are no rewrite.
LEMMA StartKeeps ==
    ASSUME Good, NEW p \in Process, Store!Starting(p)
    PROVE  Good'
<1>1. /\ step[p] = "idle" /\ step' = [step EXCEPT ![p] = step'[p]]
      /\ step'[p] \in {"push", "clear", "list"}
      /\ arg' \in [Process -> Nat] /\ \A q \in Process \ {p} : arg'[q] = arg[q]
      /\ UNCHANGED <<log, tmp, pushed, seen, file, at, clash>>
  <2>1. \A k \in 1 .. MaxDrop : k \in Nat
    BY StashAssumption
  <2> QED BY <2>1 DEF Good, StashTypes, Store!Starting, Store!PushStart, Store!ClearStart,
                      Store!PopStart, Store!DropStart, Store!Goto
<1>2. StashTypes'
  BY <1>1 DEF Good, StashTypes, Steps
<1>3. Lines(log)' /\ pushed <= pushed' /\ at'[p] = 0
  BY <1>1 DEF Good, StashTypes, Lines, Sorted, Copies
<1>4. \A q \in Process : step[q] # "rewrite" => file[q] # "tmp"
  BY DEF Good, Copies
<1> QED BY <1>1, <1>2, <1>3, <1>4, Aside

\* ListStashes, before the lock: no such entry and the command returns, or the
\* list is good for the rewrite.
LEMMA ListKeeps ==
    ASSUME Good, NEW p \in Process, Store!List(p)
    PROVE  Good'
<1>1. step[p] = "list" /\ UNCHANGED <<log, tmp, pushed, clash>>
  BY DEF Store!List
<1>2. CASE arg[p] \notin DOMAIN log
  <2>1. Store!Return(p)
    BY <1>2 DEF Store!List
  <2> QED BY <1>1, <2>1, ReturnKeeps
<1>3. CASE arg[p] \in DOMAIN log
  <2>1. /\ step' = [step EXCEPT ![p] = "drop"] /\ seen' = [seen EXCEPT ![p] = Store!Reverse(log)]
        /\ UNCHANGED <<arg, file, at>>
    BY <1>3 DEF Store!List, Store!Goto
  <2>2. log \in Seq(1 .. pushed) /\ Sorted(log) /\ pushed \in Nat /\ arg[p] \in 1 .. Len(log)
    BY <1>3 DEF Good, StashTypes, Lines
  <2>3. Store!Reverse(log) \in Seq(Nat)
    <3>1. Store!Reverse(log) \in Seq(1 .. pushed) /\ 1 .. pushed \subseteq Nat
      BY <2>2, Reversed
    <3> QED BY <3>1, Widened
  <2>4. StashTypes'
    BY <1>1, <2>1, <2>3 DEF Good, StashTypes, Steps
  <2>5. Store!Kept(p)' = Store!Reverse(Store!RemoveAt(Store!Reverse(log), arg[p]))
    BY <2>1 DEF Good, StashTypes, Store!Kept
  <2>6. Lines(Store!Kept(p))'
    <3>1. Store!Kept(p)' \in Seq(1 .. pushed) /\ Sorted(Store!Kept(p)')
      BY <2>2, <2>5, KeptInOrder
    <3> QED BY <1>1, <3>1 DEF Lines, Sorted
  <2>7. \A q \in Process \ {p} : step'[q] = step[q] /\ Store!Kept(q)' = Store!Kept(q)
    BY <2>1 DEF Good, StashTypes, Store!Kept
  <2>8. KeepsLines'
    <3>1. ASSUME NEW q \in Process, q # p, step'[q] \in {"drop", "rewrite"}
          PROVE  Lines(Store!Kept(q))'
      BY <1>1, <2>7, <3>1 DEF Good, KeepsLines, Lines, Sorted
    <3> QED BY <2>6, <3>1 DEF KeepsLines
  <2>9. Lines(log)'
    BY <1>1, <2>2 DEF Lines, Sorted
  <2>10. step'[p] = "drop" /\ at[p] = 0 /\ file[p] # "tmp"
    BY <1>1, <2>1 DEF Good, StashTypes, Copies
  <2>11. Copies'
    BY <1>1, <2>1, <2>7, <2>10 DEF Good, Copies
  <2>12. OneWriter'
    BY <2>7, <2>10 DEF Good, OneWriter
  <2> QED BY <2>4, <2>8, <2>9, <2>11, <2>12 DEF Good
<1> QED BY <1>2, <1>3

\* An entry that is appended is newer than all that are there.
LEMMA AppendKeeps ==
    ASSUME Good, NEW p \in Process, Store!OpenLog(p) \/ Store!AppendEntry(p) \/ Store!Truncate(p)
    PROVE  Good'
<1>1. /\ step' = [step EXCEPT ![p] = step'[p]] /\ step'[p] \in {"append", "unlock"}
      /\ step[p] \in {"push", "append", "clear"}
      /\ pushed' \in {pushed, pushed + 1} /\ pushed \in Nat
      /\ file' = [file EXCEPT ![p] = file'[p]] /\ file'[p] \in {"log", "none", file[p]}
      /\ UNCHANGED <<tmp, arg, seen, at, clash>>
  BY DEF Good, StashTypes, Store!OpenLog, Store!AppendEntry, Store!Truncate, Store!Goto
<1>2. StashTypes'
  <2>1. pushed' \in Nat
    BY <1>1
  <2>3. step' \in [Process -> Steps]
    <3>1. step'[p] \in Steps
      BY <1>1 DEF Steps
    <3> QED BY <1>1, <3>1 DEF Good, StashTypes
  <2>2. file' \in [Process -> {"log", "tmp", "gone", "none"}]
    BY <1>1 DEF Good, StashTypes
  <2> QED BY <1>1, <2>1, <2>2, <2>3 DEF Good, StashTypes
<1>3. at[p] = 0 /\ file[p] # "tmp" /\ \A q \in Process : step[q] # "rewrite" => file[q] # "tmp"
  BY <1>1 DEF Good, Copies
<1>4. Lines(log)'
  <2>1. CASE log' = log /\ pushed' = pushed
    BY <2>1 DEF Good, Lines, Sorted
  <2>2. CASE log' = <<>>
    <3>1. <<>> \in Seq(1 .. pushed')
      OBVIOUS
    <3> QED BY <2>2, <3>1 DEF Lines, Sorted
  <2>3. CASE pushed' = pushed + 1 /\ log' \in {log, Append(log, pushed + 1)}
    <3>1. log \in Seq(1 .. pushed + 1) /\ pushed + 1 \in 1 .. pushed + 1
      <4>1. log \in Seq(1 .. pushed) /\ 1 .. pushed \subseteq 1 .. pushed + 1
        BY <1>1 DEF Good, Lines
      <4> QED BY <1>1, <4>1, Widened
    <3>2. \A i \in DOMAIN log : log[i] \in 1 .. pushed
      <4>1. log \in Seq(1 .. pushed)
        BY DEF Good, Lines
      <4>2. ASSUME NEW i \in DOMAIN log PROVE log[i] \in 1 .. pushed
        <5>1. i \in 1 .. Len(log)
          BY <4>1
        <5> QED BY <4>1, <5>1, ElementOfSeq
      <4> QED BY <4>2
    <3>3. Append(log, pushed + 1) \in Seq(1 .. pushed + 1)
      BY <3>1
    <3>4. Sorted(log) /\ Sorted(Append(log, pushed + 1))
      <4>1. Sorted(log)
        BY DEF Good, Lines
      <4>2. /\ DOMAIN Append(log, pushed + 1) = 1 .. Len(log) + 1 /\ Len(log) \in Nat
            /\ DOMAIN log = 1 .. Len(log)
            /\ \A i \in 1 .. Len(log) : Append(log, pushed + 1)[i] = log[i]
            /\ Append(log, pushed + 1)[Len(log) + 1] = pushed + 1
        BY <3>1
      <4>3. ASSUME NEW i \in 1 .. Len(log) + 1, NEW j \in 1 .. Len(log) + 1, i < j
            PROVE  Append(log, pushed + 1)[i] < Append(log, pushed + 1)[j]
        <5>1. i \in 1 .. Len(log) /\ Append(log, pushed + 1)[i] = log[i]
          BY <4>2, <4>3
        <5>2. CASE j = Len(log) + 1
          <6>1. log[i] \in 1 .. pushed
            BY <3>2, <4>2, <5>1
          <6>2. log[i] < pushed + 1
            BY <1>1, <6>1
          <6> QED BY <4>2, <5>1, <5>2, <6>2
        <5>3. CASE j # Len(log) + 1
          <6>1. j \in 1 .. Len(log)
            BY <4>2, <5>3
          <6> QED BY <4>1, <4>2, <4>3, <5>1, <6>1 DEF Sorted
        <5> QED BY <5>2, <5>3
      <4> QED BY <4>1, <4>2, <4>3 DEF Sorted
    <3> QED BY <2>3, <3>1, <3>3, <3>4 DEF Lines, Sorted
  <2> QED BY <2>1, <2>2, <2>3 DEF Store!OpenLog, Store!AppendEntry, Store!Truncate
<1>5. pushed <= pushed'
  BY <1>1
<1>6. \A q \in Process \ {p} : file'[q] = file[q]
  BY <1>1 DEF Good, StashTypes
<1> QED BY <1>1, <1>2, <1>3, <1>4, <1>5, <1>6, Aside
-------------------------------------------------------------------------------
\* A rewrite begins with an empty file; if another one runs, the two clash.
LEMMA CreateKeeps ==
    ASSUME Good, NEW p \in Process, Store!CreateTmp(p)
    PROVE  StashInv'
<1>1. CASE \E q \in Process : step[q] = "rewrite"
  BY <1>1 DEF Store!CreateTmp, StashInv
<1>2. CASE \A q \in Process : step[q] # "rewrite"
  <2>1. /\ step[p] = "drop" /\ tmp' = <<>> /\ clash' = clash
        /\ step' = [step EXCEPT ![p] = "rewrite"] /\ file' = [file EXCEPT ![p] = "tmp"]
        /\ UNCHANGED <<log, pushed, arg, seen, at>>
    BY <1>2 DEF Store!CreateTmp, Store!Goto, Good, StashTypes
  <2>2. StashTypes'
    BY <2>1 DEF Good, StashTypes, Steps
  <2>3. \A q \in Process : Store!Kept(q)' = Store!Kept(q)
    BY <2>1 DEF Store!Kept
  <2>4. Lines(log)'
    BY <2>1 DEF Good, Lines, Sorted
  <2>5. KeepsLines'
    <3>1. ASSUME NEW q \in Process, step'[q] \in {"drop", "rewrite"} PROVE Lines(Store!Kept(q))'
      <4>1. step[q] \in {"drop", "rewrite"}
        BY <2>1, <3>1 DEF Good, StashTypes
      <4> QED BY <2>1, <2>3, <4>1 DEF Good, KeepsLines, Lines, Sorted
    <3> QED BY <3>1 DEF KeepsLines
  <2>6. OneWriter'
    BY <1>2, <2>1 DEF Good, StashTypes, OneWriter
  <2>7. Copies'
    <3>1. Len(Store!Kept(p)) \in Nat /\ at[p] = 0
      BY <2>1 DEF Good, KeepsLines, Copies, Lines
    <3>2. tmp' \in Seq(Nat) /\ Len(tmp') = 0
      BY <2>1
    <3> QED BY <1>2, <2>1, <2>3, <3>1, <3>2 DEF Good, StashTypes, Copies
  <2> QED BY <2>2, <2>4, <2>5, <2>6, <2>7 DEF Good, StashInv
<1> QED BY <1>1, <1>2

\* A line goes to the end of the temporary file.
LEMMA WriteLineKeeps ==
    ASSUME Good, NEW p \in Process, Store!WriteLine(p)
    PROVE  Good'
<1> DEFINE k == Store!Kept(p)
           n == at[p] + 1
<1>1. /\ step[p] = "rewrite" /\ file[p] = "tmp" /\ at[p] \in Nat /\ at[p] < Len(k)
      /\ tmp \in Seq(Nat) /\ Len(tmp) = at[p] /\ \A j \in 1 .. at[p] : tmp[j] = k[j]
      /\ k \in Seq(1 .. pushed) /\ pushed \in Nat
  BY DEF Good, StashTypes, KeepsLines, Copies, Lines, Store!WriteLine
<1>2. /\ at' = [at EXCEPT ![p] = n] /\ at'[p] = n
      /\ tmp' = Store!WriteAt(tmp, n, k[n])
      /\ log' = log /\ UNCHANGED <<pushed, step, arg, seen, file, clash>>
  BY <1>1 DEF Store!WriteLine, Good, StashTypes
<1>3. Store!Max({Len(tmp), n}) = n
  BY <1>1 DEF Store!Max
<1>4. tmp' = [j \in 1 .. n |-> IF j = n THEN k[n] ELSE IF j <= Len(tmp) THEN tmp[j] ELSE 0]
  BY <1>2, <1>3 DEF Store!WriteAt
<1>5. n \in 1 .. Len(k) /\ Len(k) \in Nat /\ n \in Nat
  BY <1>1
<1>6. k[n] \in Nat
  <2>1. k[n] \in 1 .. pushed
    BY <1>1, <1>5, ElementOfSeq
  <2> QED BY <1>1, <2>1
<1> HIDE DEF k
<1>7. tmp' \in Seq(Nat) /\ Len(tmp') = n
  <2>1. \A j \in 1 .. n : (IF j = n THEN k[n] ELSE IF j <= Len(tmp) THEN tmp[j] ELSE 0) \in Nat
    BY <1>1, <1>6
  <2> QED BY <1>4, <1>5, <2>1
<1>8. \A j \in 1 .. n : tmp'[j] = k[j]
  BY <1>1, <1>4
<1>9. \A q \in Process : step'[q] = step[q] /\ Store!Kept(q)' = Store!Kept(q)
  BY <1>2 DEF Store!Kept
<1>10. StashTypes'
  BY <1>2, <1>5 DEF Good, StashTypes
<1>11. Lines(log)'
  BY <1>2 DEF Good, Lines, Sorted
<1>12. KeepsLines'
  BY <1>2, <1>9 DEF Good, KeepsLines, Lines, Sorted
<1>13. OneWriter'
  BY <1>9 DEF Good, OneWriter
<1>14. Copies'
  <2>1. ASSUME NEW q \in Process, q # p
        PROVE  step'[q] # "rewrite" /\ at'[q] = at[q] /\ file'[q] = file[q] /\ step'[q] = step[q]
    BY <1>1, <1>2, <2>1 DEF Good, StashTypes, OneWriter
  <2>2. /\ step'[p] = "rewrite" /\ file'[p] = "tmp" /\ Store!Kept(p)' = k
    BY <1>1, <1>2, <1>9 DEF k
  <2> QED BY <1>2, <1>5, <1>7, <1>8, <2>1, <2>2 DEF Good, Copies
<1> QED BY <1>10, <1>11, <1>12, <1>13, <1>14 DEF Good

\* A rewrite that no other one disturbed has copied the whole of its list.
LEMMA WholeCopy ==
    ASSUME Good, NEW p \in Process, step[p] = "rewrite", at[p] = Len(Store!Kept(p))
    PROVE  tmp = Store!Kept(p)
<1> DEFINE k == Store!Kept(p)
<1>1. /\ k \in Seq(1 .. pushed) /\ tmp \in Seq(Nat) /\ Len(tmp) = Len(k)
      /\ \A j \in 1 .. Len(k) : tmp[j] = k[j]
  BY DEF Good, KeepsLines, Copies, Lines
<1> HIDE DEF k
<1>2. tmp = k
  BY <1>1
<1> QED BY <1>2 DEF k

\* A rewrite ends: the copy is whole and takes the place of the log, or it is
\* thrown away.
LEMMA RewriteEnds ==
    ASSUME Good, NEW p \in Process, Store!Rename(p) \/ Store!WriteFails(p)
    PROVE  Good'
<1> DEFINE k == Store!Kept(p)
<1>1. /\ step[p] = "rewrite" /\ step' = [step EXCEPT ![p] = "unlock"]
      /\ file[p] = "tmp" /\ \A q \in Process \ {p} : step[q] # "rewrite" /\ file[q] # "tmp"
      /\ UNCHANGED <<pushed, arg, seen, at, clash>> /\ pushed \in Nat
  BY DEF Good, StashTypes, OneWriter, Copies, Store!Rename, Store!WriteFails, Store!Goto
<1>2. /\ file' \in [Process -> {"log", "tmp", "gone", "none"}] /\ file'[p] = "none"
      /\ \A q \in Process \ {p} : file'[q] # "tmp"
  BY <1>1 DEF Good, StashTypes, Store!Rename, Store!WriteFails
<1>3. StashTypes'
  BY <1>1, <1>2 DEF Good, StashTypes, Steps
<1>4. Lines(log)'
  <2>1. CASE log' = log
    BY <1>1, <2>1 DEF Good, Lines, Sorted
  <2>2. CASE log' = tmp /\ at[p] = Len(k)
    <3>1. k \in Seq(1 .. pushed) /\ Sorted(k)
      BY <1>1 DEF Good, KeepsLines, Lines
    <3>2. tmp = k
      BY <1>1, <2>2, WholeCopy
    <3> HIDE DEF k
    <3> QED BY <1>1, <2>2, <3>1, <3>2 DEF Lines, Sorted
  <2> QED BY <2>1, <2>2 DEF Store!Rename, Store!WriteFails
<1>5. pushed <= pushed'
  BY <1>1
<1> QED BY <1>1, <1>2, <1>3, <1>4, <1>5, Aside DEF Good, StashTypes
-------------------------------------------------------------------------------
\* Initially the log is empty.
LEMMA StashInitOK == ASSUME UInit PROVE StashInv
<1>1. <<>> \in Seq(Nat) /\ <<>> \in Seq(1 .. 0)
  OBVIOUS
<1>2. StashTypes
  BY <1>1 DEF UInit, Store!Init, StashTypes, Steps
<1>5. Lines(log)
  <2>1. log = <<>> /\ pushed = 0
    BY DEF UInit, Store!Init
  <2>2. Lines(<<>>)
    BY <1>1, <2>1 DEF Lines, Sorted
  <2> QED BY <2>1, <2>2
<1>3. \A p \in Process : step[p] = "idle" /\ file[p] = "none" /\ at[p] = 0
  BY DEF UInit, Store!Init
<1>4. KeepsLines /\ Copies /\ OneWriter
  BY <1>3 DEF KeepsLines, Copies, OneWriter
<1> QED BY <1>2, <1>4, <1>5 DEF Good, StashInv

\* What only moves the lock says nothing of the log.
LEMMA SameStash ==
    ASSUME UNCHANGED stashVars, Good
    PROVE  Good'
<1>1. \A q \in Process : Store!Kept(q)' = Store!Kept(q)
  BY DEF stashVars, Store!Kept
<1> QED BY <1>1 DEF stashVars, Good, StashTypes, Lines, Sorted, KeepsLines, Copies, OneWriter

\* A clash is never forgotten.
LEMMA ClashStays == ASSUME clash, [UNext]_uvars PROVE clash'
BY DEF UNext, Begin, Work, Fail, Locking, Locked, Unlock, Die, uvars, stashVars,
       Store!Starting, Store!PushStart, Store!ClearStart, Store!PopStart, Store!DropStart,
       Store!List, Store!Writing, Store!OpenLog, Store!AppendEntry, Store!Truncate,
       Store!CreateTmp, Store!WriteLine, Store!Rename, Store!WriteFails

\* Every step of the commands and of the lock keeps the invariant.
LEMMA StashStep == ASSUME StashInv, [UNext]_uvars PROVE StashInv'
<1>1. CASE clash
  BY <1>1, ClashStays DEF StashInv
<1>2. CASE Good
  <2>1. ASSUME NEW p \in Process, Begin(p) PROVE StashInv'
    BY <1>2, <2>1, StartKeeps DEF Begin, StashInv
  <2>2. ASSUME NEW p \in Process, Work(p) PROVE StashInv'
    BY <1>2, <2>2, ListKeeps, AppendKeeps, CreateKeeps, WriteLineKeeps, RewriteEnds
       DEF Work, Store!Writing, StashInv
  <2>3. ASSUME NEW p \in Process, Fail(p) PROVE StashInv'
    BY <1>2, <2>3, RewriteEnds DEF Fail, StashInv
  <2>4. ASSUME NEW p \in Process, Locking(p) \/ Locked(p) PROVE StashInv'
    BY <1>2, <2>4, SameStash DEF Locking, Locked, StashInv
  <2>5. ASSUME NEW p \in Process, Unlock(p) PROVE StashInv'
    BY <1>2, <2>5, SameStash, ReturnKeeps DEF Unlock, StashInv
  <2>6. ASSUME NEW p \in Process, Die(p) PROVE StashInv'
    BY <1>2, <2>6, ReturnKeeps DEF Die, StashInv
  <2>7. CASE UNCHANGED uvars
    BY <1>2, <2>7, SameStash DEF uvars, StashInv
  <2> QED BY <2>1, <2>2, <2>3, <2>4, <2>5, <2>6, <2>7 DEF UNext
<1> QED BY <1>1, <1>2 DEF StashInv

\* The stash is listed in the order it was pushed, and no entry twice, for any
\* number of commands that race, fail or die, unless two rewrites overlap.
THEOREM StashStaysOrdered == USpec => []Ordered
<1>1. UInit => StashInv
  BY StashInitOK
<1>2. StashInv /\ [UNext]_uvars => StashInv'
  BY StashStep
<1>3. StashInv => Ordered
  BY DEF StashInv, Good, Lines, Sorted, Ordered, Store!Ordered
<1> QED BY <1>1, <1>2, <1>3, PTL DEF USpec

\* The log is the whole outcome of one command: nobody reads a rewrite that is
\* not finished, whoever fails or dies, unless two rewrites overlap.
THEOREM LogAlwaysWhole == USpec => WholeOutcome
<1>1. StashInv /\ [UNext]_uvars => [Store!WritesWhole]_(Store!vars)
  <2> SUFFICES ASSUME Good, [UNext]_uvars PROVE Store!WritesWhole
    BY DEF StashInv, Store!WritesWhole
  <2>1. ASSUME NEW p \in Process, Store!List(p) \/ Store!Writing(p) \/ Store!WriteFails(p)
        PROVE  Store!WritesWhole
    <3>1. CASE Store!Rename(p)
      <4>1. log' \in {log, tmp} /\ step[p] = "rewrite" /\ at[p] = Len(Store!Kept(p))
        BY <3>1 DEF Store!Rename
      <4> QED BY <4>1, WholeCopy DEF Store!WritesWhole
    <3>2. CASE Store!WriteLine(p)
      <4>1. file[p] = "tmp"
        BY <3>2 DEF Store!WriteLine, Good, Copies
      <4> QED BY <3>2, <4>1 DEF Store!WriteLine, Store!WritesWhole
    <3>3. CASE Store!AppendEntry(p) \/ Store!Truncate(p)
      <4>1. log' \in {log, Append(log, pushed'), <<>>}
        BY <3>3 DEF Store!AppendEntry, Store!Truncate
      <4> QED BY <4>1 DEF Store!WritesWhole
    <3>4. CASE Store!List(p) \/ Store!WriteFails(p) \/ Store!OpenLog(p) \/ Store!CreateTmp(p)
      <4>1. log' = log
        BY <3>4 DEF Store!List, Store!WriteFails, Store!OpenLog, Store!CreateTmp
      <4> QED BY <4>1 DEF Store!WritesWhole
    <3> QED BY <2>1, <3>1, <3>2, <3>3, <3>4 DEF Store!Writing
  <2>2. ASSUME NEW p \in Process, Begin(p) \/ Locking(p) \/ Locked(p) \/ Unlock(p) \/ Die(p)
        PROVE  log' = log
    BY <2>2 DEF Begin, Store!Starting, Store!PushStart, Store!ClearStart, Store!PopStart,
                Store!DropStart, Locking, Locked, Unlock, Die, stashVars
  <2>3. CASE UNCHANGED uvars
    BY <2>3 DEF uvars, stashVars, Store!WritesWhole
  <2>4. ASSUME NEW p \in Process, Work(p) \/ Fail(p) PROVE Store!WritesWhole
    BY <2>1, <2>4 DEF Work, Fail
  <2>5. log' = log => Store!WritesWhole
    BY DEF Store!WritesWhole
  <2> QED BY <2>2, <2>3, <2>4, <2>5 DEF UNext
<1> QED BY <1>1, StashInitOK, StashStep, PTL DEF USpec, WholeOutcome, Store!WholeOutcome
===============================================================================
