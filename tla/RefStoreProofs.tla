------------------------------ MODULE RefStoreProofs ---------------------------
(***************************************************************************)
(* The ref files for any number of processes, commands, objects and        *)
(* crashes.  TypeOK speaks of the files; a process that has read ids and   *)
(* not written them yet holds more of them, so the invariant follows each  *)
(* command through its program: what it has found out by which step.       *)
(*                                                                         *)
(* The other properties hold unless files change under a command that uses *)
(* them, so the invariants say what a process relies on while they do not: *)
(* that HEAD and the names are as it read them (Fresh), that no process is *)
(* about to take a name off a commit (Firm), that a log is written back as *)
(* it was read (Sure).                                                     *)
(***************************************************************************)
EXTENDS RefStore, CommitGraphProofs, TLAPS

Cmds == {"commit", "amend", "reset", "checkout", "create", "rename",
         "delete", "tag", "annotate", "untag"}

Object == [type : {"commit", "tag"}, links : Seq(Nat \cup {Nowhere})]

Entry(I) == [old : I \cup {None}, new : I]

ObjectsOK ==
    /\ objects \in Seq(Object)
    /\ \A i \in Ids : \A k \in DOMAIN objects[i].links :
            IF objects[i].links[k] = Nowhere THEN objects[i].type = "tag"
            ELSE objects[i].links[k] \in 1 .. i - 1
RefsOK ==
    /\ refs \in [Name -> Ids \cup {None, Nowhere}]
    /\ \A b \in Branch : refs[b] \in Ids \cup {None}
HeadOK  == head \in Branch \cup Ids
MergeOK == mergeHead \in Ids \cup {None}
LogsOK  == logs \in [Branch \cup {HEAD} -> Seq(Entry(Ids))]

FilesOK == ObjectsOK /\ RefsOK /\ HeadOK /\ MergeOK /\ LogsOK

\* What a process holds, of objects I ...
Holding(r, I) ==
    /\ r \in [cmd : Cmds \cup {"none"}, pc : Nat, arg : Name \cup I \cup {None},
              head : Branch \cup I \cup {None}, old : I \cup {None},
              new : I \cup {None, Nowhere}, merge : I \cup {None},
              log : Seq(Entry(I)), uses : {r.uses}]
    /\ r.cmd # "none" => r.pc \in 1 .. Len(Program[r.cmd])

\* ... and what it must have found out by step k.
Knowing(r, k, I) ==
    /\ r.cmd = "reset" \/ r.cmd = "checkout" => r.arg \in Branch \cup I
    /\ r.cmd = "create" \/ r.cmd = "rename" => r.arg \in Branch
    /\ r.cmd = "tag" \/ r.cmd = "annotate" => r.arg \in Tag
    /\ r.cmd = "commit" /\ k > 5 => r.new \in I
    /\ r.cmd = "amend" /\ k > 3 => r.old \in I
    /\ r.cmd = "amend" /\ k > 4 => r.new \in I
    /\ r.cmd = "reset" /\ k > 1 => r.new \in I
    /\ r.cmd = "checkout" /\ k > 3 => r.new \in I
    /\ (r.cmd = "create" \/ r.cmd = "rename") /\ k > 3 => r.old \in I
    /\ r.cmd = "tag" \/ r.cmd = "annotate" => r.new \in I \cup {Nowhere}

ProcOK(r, I) == Holding(r, I) /\ Knowing(r, r.pc, I)

ProcsOK == /\ proc = [p \in Process |-> proc[p]]
           /\ \A p \in Process : ProcOK(proc[p], Ids)

IInv == FilesOK /\ ProcsOK
-------------------------------------------------------------------------------
\* Object ids are positions; None and Nowhere are none of them.
LEMMA IdsAreNaturals ==
    ASSUME ObjectsOK
    PROVE  /\ Len(objects) \in Nat /\ Ids = 1 .. Len(objects)
           /\ None \notin Ids /\ Nowhere \notin Ids /\ Nowhere # None
BY RefAssumption DEF ObjectsOK, Ids

\* The files that satisfy the invariant satisfy TypeOK.
LEMMA FilesTypeOK == FilesOK => TypeOK
<1> SUFFICES ASSUME FilesOK PROVE TypeOK
  OBVIOUS
<1>1. ASSUME NEW i \in Ids
      PROVE  /\ objects[i].type \in {"commit", "tag"}
             /\ ToSet(objects[i].links) \ {Nowhere} \subseteq 1 .. i - 1
             /\ Nowhere \in ToSet(objects[i].links) => objects[i].type = "tag"
  <2>1. objects[i] \in Object
    BY <1>1 DEF FilesOK, ObjectsOK, Ids
  <2>2. \A k \in DOMAIN objects[i].links :
            IF objects[i].links[k] = Nowhere THEN objects[i].type = "tag"
            ELSE objects[i].links[k] \in 1 .. i - 1
    BY <1>1 DEF FilesOK, ObjectsOK
  <2> QED BY <2>1, <2>2 DEF Object, ToSet
<1>2. ASSUME NEW n \in Branch \cup {HEAD}, NEW e \in ToSet(logs[n])
      PROVE  e.old \in Ids \cup {None} /\ e.new \in Ids
  <2>1. logs[n] \in Seq(Entry(Ids))
    BY DEF FilesOK, LogsOK
  <2>2. PICK k \in DOMAIN logs[n] : e = logs[n][k]
    BY <1>2 DEF ToSet
  <2>3. e \in Entry(Ids)
    BY <2>1, <2>2
  <2> QED BY <2>3 DEF Entry
<1>3. \A b \in Branch : refs[b] # Nowhere
  BY IdsAreNaturals DEF FilesOK, RefsOK
<1> QED BY <1>1, <1>2, <1>3 DEF FilesOK, RefsOK, HeadOK, MergeOK, TypeOK

\* Where every step of every program is: s is step k of program c.
Order(s, c, k) ==
    /\ s = "readMergeHead" <=> c = "commit" /\ k = 1
    /\ s = "takeMergeHead" <=> c = "commit" /\ k = 4
    /\ s = "removeMergeHead" <=> c = "commit" /\ k = 8
    /\ s = "refuseMerge" <=> c = "amend" /\ k = 1
    /\ s = "readHead" <=> \/ c = "commit" /\ (k = 2 \/ k = 6 \/ k = 9)
                          \/ c = "amend" /\ (k = 2 \/ k = 5 \/ k = 7)
                          \/ (c = "reset" \/ c = "create") /\ k = 2
                          \/ (c = "checkout" \/ c = "rename" \/ c = "delete") /\ k = 1
    /\ s = "readRef" <=> \/ (c = "commit" \/ c = "amend" \/ c = "reset") /\ k = 3
                         \/ (c = "create" \/ c = "rename") /\ k = 3
                         \/ c = "checkout" /\ k = 2
    /\ s = "readTarget" <=> (c = "reset" /\ k = 1) \/ (c = "checkout" /\ k = 3)
    /\ s = "statName" <=> \/ (c = "create" \/ c = "tag" \/ c = "annotate") /\ k = 1
                          \/ c = "rename" /\ k = 2
    /\ s = "writeObject" <=> \/ (c = "commit" /\ k = 5) \/ (c = "amend" /\ k = 4)
                             \/ c = "annotate" /\ k = 2
    /\ s = "writeRef" <=> \/ (c = "commit" /\ k = 7) \/ (c = "amend" /\ k = 6)
                          \/ c = "reset" /\ k = 6
    /\ s = "writeHead" <=> (c = "checkout" /\ k = 4) \/ (c = "rename" /\ k = 5)
    /\ s = "writeName" <=> \/ (c = "create" \/ c = "rename") /\ k = 4
                           \/ (c = "tag" /\ k = 2) \/ (c = "annotate" /\ k = 3)
    /\ s = "removeName" <=> (c = "delete" /\ k = 2) \/ (c = "untag" /\ k = 1)
    /\ s = "removeRef" <=> c = "rename" /\ k = 10
    /\ s = "readRefLog" <=> \/ (c = "commit" /\ k = 10) \/ (c = "amend" /\ k = 8)
                            \/ c = "reset" /\ k = 4
    /\ s = "writeRefLog" <=> \/ (c = "commit" /\ k = 11) \/ (c = "amend" /\ k = 9)
                             \/ c = "reset" /\ k = 5
    /\ s = "readNameLog" <=> (c = "create" /\ k = 5) \/ (c = "rename" /\ k = 6)
    /\ s = "writeNameLog" <=> (c = "create" /\ k = 6) \/ (c = "rename" /\ k = 7)
    /\ s = "readHeadLog" <=> \/ (c = "commit" /\ k = 12) \/ (c = "amend" /\ k = 10)
                             \/ (c = "reset" /\ k = 7) \/ (c = "checkout" /\ k = 5)
                             \/ c = "rename" /\ k = 8
    /\ s = "writeHeadLog" <=> \/ (c = "commit" /\ k = 13) \/ (c = "amend" /\ k = 11)
                              \/ (c = "reset" /\ k = 8) \/ (c = "checkout" /\ k = 6)
                              \/ c = "rename" /\ k = 9

\* The programs say so.
LEMMA Ordered ==
    ASSUME NEW c \in Cmds, NEW k \in 1 .. Len(Program[c])
    PROVE  Order(Program[c][k], c, k)
<1>1. \A j \in 1 .. Len(CommitSteps) : Order(CommitSteps[j], "commit", j)
  BY SMTT(60) DEF CommitSteps, Order
<1>2. \A j \in 1 .. Len(AmendSteps) : Order(AmendSteps[j], "amend", j)
  BY SMTT(60) DEF AmendSteps, Order
<1>3. \A j \in 1 .. Len(ResetSteps) : Order(ResetSteps[j], "reset", j)
  BY SMTT(60) DEF ResetSteps, Order
<1>4. \A j \in 1 .. Len(CheckoutSteps) : Order(CheckoutSteps[j], "checkout", j)
  BY SMTT(60) DEF CheckoutSteps, Order
<1>5. \A j \in 1 .. Len(CreateSteps) : Order(CreateSteps[j], "create", j)
  BY SMTT(60) DEF CreateSteps, Order
<1>6. \A j \in 1 .. Len(RenameSteps) : Order(RenameSteps[j], "rename", j)
  BY SMTT(60) DEF RenameSteps, Order
<1>7. \A j \in 1 .. Len(<<"readHead", "removeName">>) :
          Order(<<"readHead", "removeName">>[j], "delete", j)
  BY SMTT(30) DEF Order
<1>8. \A j \in 1 .. Len(<<"statName", "writeName">>) :
          Order(<<"statName", "writeName">>[j], "tag", j)
  BY SMTT(30) DEF Order
<1>9. \A j \in 1 .. Len(<<"statName", "writeObject", "writeName">>) :
          Order(<<"statName", "writeObject", "writeName">>[j], "annotate", j)
  BY SMTT(30) DEF Order
<1>10. \A j \in 1 .. Len(<<"removeName">>) : Order(<<"removeName">>[j], "untag", j)
  BY SMTT(30) DEF Order
<1> QED
  BY <1>1, <1>2, <1>3, <1>4, <1>5, <1>6, <1>7, <1>8, <1>9, <1>10 DEF Cmds, Program

\* No program is empty.
LEMMA ProgramLength ==
    ASSUME NEW c \in Cmds
    PROVE  Len(Program[c]) \in Nat /\ 1 \in 1 .. Len(Program[c])
<1> DEFINE Long(s) == Len(s) \in Nat /\ 1 \in 1 .. Len(s)
<1>1. /\ Long(CommitSteps) /\ Long(AmendSteps) /\ Long(ResetSteps)
      /\ Long(CheckoutSteps) /\ Long(CreateSteps) /\ Long(RenameSteps)
  BY DEF CommitSteps, AmendSteps, ResetSteps, CheckoutSteps, CreateSteps, RenameSteps
<1>2. /\ Long(<<"readHead", "removeName">>) /\ Long(<<"statName", "writeName">>)
      /\ Long(<<"statName", "writeObject", "writeName">>) /\ Long(<<"removeName">>)
  OBVIOUS
<1> HIDE DEF Long
<1>3. Long(Program[c])
  BY <1>1, <1>2 DEF Cmds, Program
<1> QED BY <1>3 DEF Long

\* A process that is at a step is where its program has that step.
LEMMA AtOrder ==
    ASSUME ProcsOK, NEW p \in Process, NEW s, At(p, s)
    PROVE  /\ Holding(proc[p], Ids) /\ Knowing(proc[p], proc[p].pc, Ids)
           /\ proc[p].cmd \in Cmds /\ proc[p].pc \in Nat
           /\ Order(s, proc[p].cmd, proc[p].pc)
<1>1. Holding(proc[p], Ids) /\ Knowing(proc[p], proc[p].pc, Ids)
  BY DEF ProcsOK, ProcOK
<1>2. /\ proc[p].cmd \in Cmds /\ proc[p].pc \in 1 .. Len(Program[proc[p].cmd])
      /\ proc[p].pc \in Nat
  BY <1>1 DEF Holding, At
<1> QED BY <1>1, <1>2, Ordered DEF At

\* Most steps need nothing new: a command learns of an id by writing the
\* object, or by reading a ref.
LEMMA Quiet ==
    ASSUME NEW r, NEW I, NEW s, Order(s, r.cmd, r.pc), r.pc \in Nat,
           s # "writeObject", s # "readRef", s # "readTarget", Knowing(r, r.pc, I)
    PROVE  Knowing(r, r.pc + 1, I)
BY DEF Order, Knowing

\* An idle process holds nothing.
LEMMA IdleOK == ASSUME NEW I PROVE ProcOK(Idle, I)
<1>1. <<>> \in Seq(Entry(I))
  OBVIOUS
<1> QED BY <1>1 DEF ProcOK, Holding, Knowing, Idle

\* More objects do no harm to a process.
LEMMA Grows ==
    ASSUME NEW I, NEW I2, I \subseteq I2,
           NEW r, ProcOK(r, I)
    PROVE  ProcOK(r, I2)
<1>1. r.log \in Seq(Entry(I2))
  <2>1. Entry(I) \subseteq Entry(I2)
    BY DEF Entry
  <2>2. r.log \in Seq(Entry(I))
    BY DEF ProcOK, Holding
  <2> QED BY <2>1, <2>2
<1>2. Holding(r, I2)
  BY <1>1 DEF ProcOK, Holding
<1>3. Knowing(r, r.pc, I2)
  BY DEF ProcOK, Knowing
<1> QED BY <1>2, <1>3 DEF ProcOK

\* A step to the next position keeps the processes in order if the process
\* knows what it needs there; a command that ends or fails always does.
LEMMA GoOK ==
    ASSUME ProcsOK, Ids \subseteq Ids',
           NEW p \in Process, NEW r, Go(p, r), r.cmd # "none",
           Holding(r, Ids'), Knowing(r, r.pc + 1, Ids')
    PROVE  ProcsOK'
<1> DEFINE next == [r EXCEPT !.pc = @ + 1]
<1>1. ASSUME r.pc # Len(Program[r.cmd]) PROVE ProcOK(next, Ids')
  <2>1. r.pc \in 1 .. Len(Program[r.cmd]) /\ Len(Program[r.cmd]) \in Nat
    BY DEF Holding, Program, CommitSteps, AmendSteps, ResetSteps, CheckoutSteps,
           CreateSteps, RenameSteps, Cmds
  <2>2. r.pc + 1 \in 1 .. Len(Program[r.cmd])
    BY <1>1, <2>1
  <2>3. Holding(next, Ids')
    BY <2>2 DEF Holding
  <2>4. Knowing(next, next.pc, Ids')
    BY DEF Knowing, Holding
  <2> QED BY <2>3, <2>4 DEF ProcOK
<1>2. /\ proc' = [proc EXCEPT ![p] = proc'[p]]
      /\ ProcOK(proc'[p], Ids')
  BY <1>1, IdleOK DEF Go, ProcsOK
<1>3. ASSUME NEW q \in Process PROVE ProcOK(proc'[q], Ids')
  BY <1>2, Grows DEF ProcsOK
<1>4. proc' = [q \in Process |-> proc'[q]]
  BY <1>2 DEF ProcsOK
<1> QED BY <1>3, <1>4 DEF ProcsOK

\* A command that fails or dies forgets what it holds.
LEMMA FailOK ==
    ASSUME ProcsOK, Ids' = Ids, NEW p \in Process, Fail(p)
    PROVE  ProcsOK'
BY IdleOK DEF ProcsOK, Fail

\* The invariant of the files looks at the files only.
LEMMA SameFiles ==
    ASSUME UNCHANGED fileVars
    PROVE  Ids' = Ids /\ (FilesOK => FilesOK')
BY DEF fileVars, Ids, FilesOK, ObjectsOK, RefsOK, HeadOK, MergeOK, LogsOK
-------------------------------------------------------------------------------
\* A command that begins holds its argument.
LEMMA BeginKeeps ==
    ASSUME IInv, NEW p \in Process, Begin(p)
    PROVE  IInv'
<1>1. UNCHANGED fileVars
  BY DEF Begin, Start
<1> SUFFICES ProcsOK'
  BY <1>1, SameFiles DEF IInv
<1>2. ASSUME NEW c \in Cmds, NEW a \in Name \cup Ids \cup {None},
             NEW n \in Ids \cup {None, Nowhere}, Start(p, c, a, n),
             (c = "reset" \/ c = "checkout") => a \in Branch \cup Ids,
             (c = "create" \/ c = "rename") => a \in Branch,
             (c = "tag" \/ c = "annotate") => a \in Tag /\ n \in Ids \cup {Nowhere}
      PROVE  ProcsOK'
  <2> DEFINE r == [Idle EXCEPT !.cmd = c, !.arg = a, !.new = n]
  <2>1. <<>> \in Seq(Entry(Ids))
    OBVIOUS
  <2>2. 1 \in 1 .. Len(Program[c])
    BY ProgramLength
  <2>3. Holding(r, Ids) /\ r.pc = 1 /\ r.cmd = c /\ r.arg = a /\ r.new = n
    BY <2>1, <2>2 DEF Holding, Idle
  <2>4. Knowing(r, r.pc, Ids)
    <3> HIDE DEF r
    <3> QED BY <1>2, <2>3 DEF Knowing
  <2>5. proc' = [proc EXCEPT ![p] = r]
    BY <1>2 DEF Start
  <2> HIDE DEF r
  <2>6. ProcOK(r, Ids)
    BY <2>3, <2>4 DEF ProcOK
  <2> QED BY <1>1, <2>5, <2>6, SameFiles DEF IInv, ProcsOK
<1>4. CASE \E c \in {"commit", "amend"} : Start(p, c, None, None)
  BY <1>2, <1>4 DEF Cmds
<1>5. CASE \E c \in {"reset", "checkout"}, t \in Branch \cup Ids : Start(p, c, t, None)
  BY <1>2, <1>5 DEF Cmds, Name
<1>6. CASE \E c \in {"create", "rename", "delete"}, b \in Branch : Start(p, c, b, None)
  BY <1>2, <1>6 DEF Cmds, Name
<1>7. CASE \E c \in {"tag", "annotate"}, t \in Tag, id \in Ids \cup {Nowhere} : Start(p, c, t, id)
  BY <1>2, <1>7 DEF Cmds, Name
<1>8. CASE \E t \in Tag : refs[t] # None /\ Start(p, "untag", t, None)
  BY <1>2, <1>8 DEF Cmds, Name
<1> QED BY <1>4, <1>5, <1>6, <1>7, <1>8 DEF Begin

\* Reading: what was read names objects that are there.
LEMMA ReadKeeps ==
    ASSUME IInv, NEW p \in Process, Read(p)
    PROVE  IInv'
<1> DEFINE r == proc[p]
<1>1. UNCHANGED fileVars
  BY DEF Read, ReadMergeHead, RefuseMerge, TakeMergeHead, ReadHead, ReadRef, ReadTarget,
         StatName, ReadRefLog, ReadNameLog, ReadHeadLog, ReadLog
<1>2. /\ ProcsOK /\ FilesOK /\ Ids' = Ids
      /\ FilesOK'
  BY <1>1, SameFiles DEF IInv
<1> SUFFICES ProcsOK'
  BY <1>2 DEF IInv
<1>3. Fail(p) => ProcsOK'
  BY <1>2, FailOK
<1>4. ASSUME NEW q, Go(p, q), q.cmd # "none", Holding(q, Ids),
             Knowing(q, q.pc + 1, Ids)
      PROVE  ProcsOK'
  BY <1>2, <1>4, GoOK
\* A step that needs nothing new, and what it may read on the way.
<1>5. ASSUME NEW s, At(p, s), s # "writeObject", s # "readRef", s # "readTarget"
      PROVE  /\ Continue(p) => ProcsOK'
             /\ \A m \in Ids \cup {None} : Go(p, [r EXCEPT !.merge = m]) => ProcsOK'
             /\ \A U : \A h \in Branch \cup Ids :
                    Go(p, [r EXCEPT !.head = h, !.uses = U]) => ProcsOK'
             /\ \A U : Go(p, [r EXCEPT !.uses = U]) => ProcsOK'
             /\ \A U : \A l \in Seq(Entry(Ids)) :
                    Go(p, [r EXCEPT !.log = l, !.uses = U]) => ProcsOK'
  <2>1. /\ Holding(r, Ids) /\ Knowing(r, r.pc, Ids)
        /\ r.cmd \in Cmds /\ r.pc \in Nat /\ Order(s, r.cmd, r.pc)
    BY <1>2, <1>5, AtOrder
  <2>2. Knowing(r, r.pc + 1, Ids)
    BY <1>5, <2>1, Quiet
  <2>3. r.cmd # "none"
    BY <2>1 DEF Cmds
  <2>4. Continue(p) => ProcsOK'
    BY <1>4, <2>1, <2>2, <2>3 DEF Continue
  <2>5. ASSUME NEW m \in Ids \cup {None}, Go(p, [r EXCEPT !.merge = m])
        PROVE  ProcsOK'
    <3> DEFINE q == [r EXCEPT !.merge = m]
    <3>1. Holding(q, Ids) /\ q.cmd # "none"
      BY <2>1, <2>3 DEF Holding
    <3>2. Knowing(q, q.pc + 1, Ids)
      BY <2>1, <2>2 DEF Knowing, Holding
    <3> QED BY <1>4, <2>5, <3>1, <3>2
  <2>6. ASSUME NEW h \in Branch \cup Ids, NEW U, Go(p, [r EXCEPT !.head = h, !.uses = U])
        PROVE  ProcsOK'
    <3> DEFINE q == [r EXCEPT !.head = h, !.uses = U]
    <3>1. Holding(q, Ids) /\ q.cmd # "none"
      BY <2>1, <2>3 DEF Holding
    <3>2. Knowing(q, q.pc + 1, Ids)
      BY <2>1, <2>2 DEF Knowing, Holding
    <3> QED BY <1>4, <2>6, <3>1, <3>2
  <2>7. ASSUME NEW U, Go(p, [r EXCEPT !.uses = U])
        PROVE  ProcsOK'
    <3> DEFINE q == [r EXCEPT !.uses = U]
    <3>1. Holding(q, Ids) /\ q.cmd # "none"
      BY <2>1, <2>3 DEF Holding
    <3>2. Knowing(q, q.pc + 1, Ids)
      BY <2>1, <2>2 DEF Knowing, Holding
    <3> QED BY <1>4, <2>7, <3>1, <3>2
  <2>8. ASSUME NEW l \in Seq(Entry(Ids)), NEW U, Go(p, [r EXCEPT !.log = l, !.uses = U])
        PROVE  ProcsOK'
    <3> DEFINE q == [r EXCEPT !.log = l, !.uses = U]
    <3>1. Holding(q, Ids) /\ q.cmd # "none"
      BY <2>1, <2>3 DEF Holding
    <3>2. Knowing(q, q.pc + 1, Ids)
      BY <2>1, <2>2 DEF Knowing, Holding
    <3> QED BY <1>4, <2>8, <3>1, <3>2
  <2> QED BY <2>4, <2>5, <2>6, <2>7, <2>8
<1>6. mergeHead \in Ids \cup {None} /\ head \in Branch \cup Ids
  BY <1>2 DEF FilesOK, MergeOK, HeadOK
<1>7. \A n \in Branch \cup {HEAD} : logs[n] \in Seq(Entry(Ids))
  BY <1>2 DEF FilesOK, LogsOK
<1>8. ASSUME NEW b \in Branch \cup Ids \cup {None}
      PROVE  (IF b \in Branch THEN refs[b] ELSE b) \in Ids \cup {None}
  BY <1>2 DEF FilesOK, RefsOK
<1>9. CASE ReadMergeHead(p)
  BY <1>5, <1>6, <1>9 DEF ReadMergeHead
<1>10. CASE RefuseMerge(p)
  BY <1>3, <1>5, <1>10 DEF RefuseMerge
<1>11. CASE TakeMergeHead(p)
  BY <1>3, <1>5, <1>6, <1>11 DEF TakeMergeHead
<1>12. CASE ReadHead(p)
  BY <1>3, <1>5, <1>6, <1>12 DEF ReadHead
<1>13. CASE ReadRef(p)
  <2> DEFINE h == r.head
             id == IF h \in Branch THEN refs[h] ELSE h
             U == r.uses \cup {Ref(IF h \in Branch THEN h ELSE HEAD)}
             q == [r EXCEPT !.old = id, !.uses = U]
  <2>1. /\ Holding(r, Ids) /\ Knowing(r, r.pc, Ids)
        /\ r.cmd \in Cmds /\ r.pc \in Nat /\ Order("readRef", r.cmd, r.pc)
    BY <1>2, <1>13, AtOrder DEF ReadRef
  <2>2. id \in Ids \cup {None}
    BY <1>8, <2>1 DEF Holding
  <2>3. Fail(p) \/ (Go(p, q) /\ (r.cmd \in {"amend", "create", "rename"} => id # None))
    BY <1>13 DEF ReadRef
  <2>4. Holding(q, Ids) /\ q.cmd # "none" /\ q.pc = r.pc /\ q.cmd = r.cmd
        /\ q.old = id /\ q.new = r.new /\ q.arg = r.arg
    <3>1. r.cmd # "none"
      BY <2>1 DEF Cmds
    <3> HIDE DEF id, U
    <3> QED BY <2>1, <2>2, <3>1 DEF Holding
  <2>5. ASSUME r.cmd \in {"amend", "create", "rename"} => id # None
        PROVE  Knowing(q, q.pc + 1, Ids)
    <3>1. r.cmd \in {"amend", "create", "rename"} => q.old \in Ids
      BY <2>2, <2>4, <2>5
    <3> HIDE DEF q, id
    <3> QED BY <2>1, <2>4, <3>1 DEF Knowing, Order
  <2> QED BY <1>3, <1>4, <2>3, <2>4, <2>5
<1>14. CASE ReadTarget(p)
  <2> DEFINE t == r.arg
             id == IF t \in Branch THEN refs[t] ELSE t
             U == r.uses \cup {Ref(t) : b \in {t} \cap Branch}
             q == [r EXCEPT !.new = id, !.uses = U]
  <2>1. /\ Holding(r, Ids) /\ Knowing(r, r.pc, Ids)
        /\ r.pc \in Nat /\ (r.cmd = "reset" \/ r.cmd = "checkout")
    BY <1>2, <1>14, AtOrder DEF ReadTarget, Order
  <2>2. id \in Ids \cup {None}
    BY <1>8, <2>1 DEF Knowing
  <2>3. Fail(p) \/ (Go(p, q) /\ id \in Ids)
    BY <1>14 DEF ReadTarget, Commits
  <2>4. ASSUME id \in Ids
        PROVE  /\ Holding(q, Ids) /\ q.pc = r.pc /\ q.cmd = r.cmd
               /\ q.new \in Ids /\ q.arg = r.arg
    <3> HIDE DEF id, U
    <3> QED BY <2>1, <2>4 DEF Holding
  <2>5. ASSUME id \in Ids PROVE Knowing(q, q.pc + 1, Ids) /\ q.cmd # "none"
    <3> HIDE DEF q, id
    <3> QED BY <2>1, <2>4, <2>5 DEF Knowing
  <2> QED BY <1>3, <1>4, <2>3, <2>4, <2>5
<1>15. CASE StatName(p)
  BY <1>3, <1>5, <1>15 DEF StatName
<1>16. CASE ReadRefLog(p)
  BY <1>5, <1>7, <1>16 DEF ReadRefLog, ReadLog
<1>17. CASE ReadNameLog(p)
  <2>1. r.arg \in Branch
    BY <1>2, <1>17, AtOrder DEF ReadNameLog, Order, Knowing
  <2> QED BY <1>5, <1>7, <1>17, <2>1 DEF ReadNameLog, ReadLog
<1>18. CASE ReadHeadLog(p)
  BY <1>5, <1>7, <1>18 DEF ReadHeadLog, ReadLog
<1> QED BY <1>9, <1>10, <1>11, <1>12, <1>13, <1>14, <1>15, <1>16, <1>17, <1>18 DEF Read

\* A write that leaves the objects alone, at a step that needs nothing new.
LEMMA ContinueOK ==
    ASSUME ProcsOK, UNCHANGED objects, NEW p \in Process, Continue(p), NEW s, At(p, s),
           s # "writeObject", s # "readRef", s # "readTarget"
    PROVE  ProcsOK'
<1>1. Ids' = Ids
  BY DEF Ids
<1>2. /\ Holding(proc[p], Ids) /\ Knowing(proc[p], proc[p].pc, Ids)
      /\ proc[p].cmd # "none" /\ proc[p].pc \in Nat
      /\ Order(s, proc[p].cmd, proc[p].pc)
  BY AtOrder DEF At
<1>3. Knowing(proc[p], proc[p].pc + 1, Ids)
  BY <1>2, Quiet
<1> QED BY <1>1, <1>2, <1>3, GoOK DEF Continue

\* A sequence of members of S is one of members of any larger set.
LEMMA Widened ==
    ASSUME NEW S, NEW T, S \subseteq T, NEW s \in Seq(S)
    PROVE  s \in Seq(T)
OBVIOUS

\* Two sequences of members of S joined are one.
LEMMA Joined ==
    ASSUME NEW S, NEW s \in Seq(S), NEW t \in Seq(S)
    PROVE  s \o t \in Seq(S)
OBVIOUS

\* A commit or a tag that is written links to commits that are there, and is
\* there before anything names it.
LEMMA WriteObjectKeeps ==
    ASSUME IInv, NEW p \in Process, WriteObject(p)
    PROVE  IInv'
<1> DEFINE r == proc[p]
           n == Len(objects) + 1
           one(id) == IF id = None THEN <<>> ELSE <<id>>
           q == [r EXCEPT !.new = n]
<1>1. /\ Holding(r, Ids) /\ Knowing(r, r.pc, Ids)
      /\ r.pc \in Nat
      /\ \/ r.cmd = "commit" /\ r.pc = 5
         \/ r.cmd = "amend" /\ r.pc = 4
         \/ r.cmd = "annotate" /\ r.pc = 2
  BY AtOrder DEF IInv, WriteObject, Order
<1>2. /\ Len(objects) \in Nat /\ Ids = 1 .. Len(objects)
      /\ None \notin Ids /\ Nowhere \notin Ids /\ objects \in Seq(Object)
  BY IdsAreNaturals DEF IInv, FilesOK, ObjectsOK
<1> HIDE DEF r
<1>11. \A i \in Ids : i \in Nat /\ i \in 1 .. n - 1 /\ objects[i] \in Object
  BY <1>2
<1> DEFINE twice == IF r.old \notin Commits THEN <<>>
                    ELSE objects[r.old].links \o objects[r.old].links
<1>3. PICK links : /\ \/ r.cmd = "commit" /\ links = one(r.old) \o one(r.merge)
                      \/ r.cmd = "amend" /\ links = twice
                      \/ r.cmd = "annotate" /\ links = one(r.new)
                   /\ objects' = Append(objects,
                        [type |-> IF r.cmd = "annotate" THEN "tag" ELSE "commit",
                         links |-> links])
                   /\ Go(p, [r EXCEPT !.new = Len(objects')])
                   /\ UNCHANGED <<refs, head, mergeHead, logs>>
  BY <1>1 DEF WriteObject, r
<1> HIDE DEF twice
<1> DEFINE o == [type |-> IF r.cmd = "annotate" THEN "tag" ELSE "commit", links |-> links]
<1>4. links \in Seq(IF r.cmd = "annotate" THEN Ids \cup {Nowhere} ELSE Ids)
  <2>1. ASSUME NEW S, NEW id \in S \cup {None} PROVE one(id) \in Seq(S)
    BY <2>1
  <2>2. CASE r.cmd = "commit"
    <3>1. r.old \in Ids \cup {None} /\ r.merge \in Ids \cup {None}
      BY <1>1 DEF Holding
    <3>2. one(r.old) \in Seq(Ids) /\ one(r.merge) \in Seq(Ids)
      BY <2>1, <3>1
    <3>3. links = one(r.old) \o one(r.merge)
      BY <1>3, <2>2
    <3> HIDE DEF one
    <3> QED BY <2>2, <3>2, <3>3, Joined
  <2>3. CASE r.cmd = "amend" /\ r.old \in Commits
    <3>1. r.old \in Ids /\ objects[r.old].type = "commit"
      BY <2>3 DEF Commits
    <3>2. objects[r.old].links \in Seq(Nat \cup {Nowhere})
      BY <1>11, <3>1 DEF Object
    <3>3. \A k \in DOMAIN objects[r.old].links : objects[r.old].links[k] \in 1 .. r.old - 1
      BY <3>1 DEF IInv, FilesOK, ObjectsOK
    <3>4. 1 .. r.old - 1 \subseteq Ids
      BY <1>2, <1>11, <3>1
    <3>5. objects[r.old].links \in Seq(Ids)
      BY <3>2, <3>3, <3>4
    <3>6. links = objects[r.old].links \o objects[r.old].links
      BY <1>3, <2>3 DEF twice
    <3> QED BY <2>3, <3>5, <3>6, Joined
  <2>4. CASE r.cmd = "amend" /\ r.old \notin Commits
    BY <1>3, <2>4 DEF twice
  <2>5. CASE r.cmd = "annotate"
    <3>1. r.new \in Ids \cup {Nowhere}
      BY <1>1, <2>5 DEF Knowing
    <3> QED BY <1>3, <2>1, <2>5, <3>1
  <2> QED BY <1>1, <2>2, <2>3, <2>4, <2>5
<1>5. /\ o \in Object /\ objects' \in Seq(Object) /\ Len(objects') = n /\ Ids' = 1 .. n
      /\ objects'[n] = o /\ \A i \in Ids : objects'[i] = objects[i]
  <2>1. links \in Seq(Nat \cup {Nowhere})
    <3>1. Ids \subseteq Nat \cup {Nowhere} /\ Ids \cup {Nowhere} \subseteq Nat \cup {Nowhere}
      BY <1>11
    <3> QED BY <1>4, <3>1, Widened
  <2>2. o \in Object
    BY <2>1 DEF Object
  <2> HIDE DEF o
  <2>3. objects' = Append(objects, o)
    BY <1>3 DEF o
  <2> QED BY <1>2, <2>2, <2>3 DEF Ids
<1>6. Ids \subseteq Ids' /\ n \in Ids'
  BY <1>2, <1>5
<1>7. ObjectsOK'
  <2>1. ASSUME NEW i \in Ids', NEW k \in DOMAIN objects'[i].links
        PROVE  IF objects'[i].links[k] = Nowhere THEN objects'[i].type = "tag"
               ELSE objects'[i].links[k] \in 1 .. i - 1
    <3>1. CASE i = n
      <4>1. /\ objects'[i].links = links
            /\ objects'[i].type = IF r.cmd = "annotate" THEN "tag" ELSE "commit"
        BY <1>5, <3>1
      <4>2. links[k] \in IF r.cmd = "annotate" THEN Ids \cup {Nowhere} ELSE Ids
        BY <1>4, <2>1, <4>1
      <4>3. links[k] = Nowhere => r.cmd = "annotate"
        BY <1>2, <4>2
      <4>4. links[k] # Nowhere => links[k] \in 1 .. n - 1
        BY <1>11, <4>2
      <4> QED BY <3>1, <4>1, <4>3, <4>4
    <3>2. CASE i # n
      <4>1. i \in Ids /\ objects'[i] = objects[i]
        BY <1>2, <1>5, <2>1, <3>2
      <4> QED BY <2>1, <4>1 DEF IInv, FilesOK, ObjectsOK
    <3> QED BY <3>1, <3>2
  <2> QED BY <1>5, <2>1 DEF ObjectsOK
<1>8. LogsOK'
  <2>1. Entry(Ids) \subseteq Entry(Ids')
    BY <1>6 DEF Entry
  <2>2. \A m \in Branch \cup {HEAD} : logs[m] \in Seq(Entry(Ids'))
    BY <2>1 DEF IInv, FilesOK, LogsOK
  <2> QED BY <1>3, <2>2 DEF IInv, FilesOK, LogsOK
<1>9. FilesOK'
  BY <1>3, <1>6, <1>7, <1>8 DEF IInv, FilesOK, RefsOK, HeadOK, MergeOK
<1>10. ProcsOK'
  <2>1. ProcOK(r, Ids')
    BY <1>1, <1>6, Grows DEF ProcOK
  <2>2. /\ Holding(q, Ids') /\ q.pc = r.pc /\ q.cmd = r.cmd
        /\ q.arg = r.arg /\ q.old = r.old /\ q.new = n
    BY <1>6, <2>1 DEF ProcOK, Holding
  <2>3. Go(p, q)
    BY <1>3, <1>5
  <2> HIDE DEF q
  <2>4. Knowing(q, q.pc + 1, Ids')
    BY <1>1, <1>6, <2>1, <2>2 DEF ProcOK, Knowing
  <2>5. q.cmd # "none"
    BY <1>1, <2>2
  <2> QED BY <1>6, <2>2, <2>3, <2>4, <2>5, GoOK DEF IInv
<1> QED BY <1>9, <1>10 DEF IInv

\* The other writes put ids into files that the process knows to be there.
LEMMA WriteKeeps ==
    ASSUME IInv, NEW p \in Process, Write(p)
    PROVE  IInv'
<1> DEFINE r == proc[p]
<1>1. /\ FilesOK /\ ObjectsOK /\ RefsOK /\ HeadOK /\ MergeOK /\ LogsOK /\ ProcsOK
  BY DEF IInv, FilesOK
<1>2. ASSUME UNCHANGED objects
      PROVE  Ids' = Ids /\ ObjectsOK'
  BY <1>1, <1>2 DEF Ids, ObjectsOK
<1>3. ASSUME NEW s, At(p, s), s # "writeObject", s # "readRef", s # "readTarget",
             Continue(p), UNCHANGED objects, RefsOK', HeadOK', MergeOK', LogsOK'
      PROVE  IInv'
  BY <1>1, <1>2, <1>3, ContinueOK DEF IInv, FilesOK
<1>4. ASSUME UNCHANGED objects
      PROVE  /\ UNCHANGED refs => RefsOK'
             /\ UNCHANGED head => HeadOK'
             /\ UNCHANGED mergeHead => MergeOK'
             /\ UNCHANGED logs => LogsOK'
  BY <1>1, <1>2, <1>4 DEF RefsOK, HeadOK, MergeOK, LogsOK
<1>5. ASSUME NEW s, At(p, s)
      PROVE  /\ Holding(r, Ids) /\ Knowing(r, r.pc, Ids)
             /\ r.cmd \in Cmds /\ r.pc \in Nat /\ Order(s, r.cmd, r.pc)
  BY <1>1, <1>5, AtOrder
\* A ref that is set to a commit, or a tag to an object, or one that is removed.
<1>6. ASSUME UNCHANGED objects, NEW n, NEW id \in Ids \cup {None, Nowhere},
             refs' = [refs EXCEPT ![n] = id], n \in Branch => id \in Ids \cup {None}
      PROVE  RefsOK'
  BY <1>1, <1>2, <1>6 DEF RefsOK, Name
\* A log that gets one entry more.
<1>7. ASSUME UNCHANGED objects, NEW n \in Branch \cup {HEAD},
             NEW l \in Seq(Entry(Ids)), NEW e \in Entry(Ids),
             logs' = [logs EXCEPT ![n] = Append(l, e)]
      PROVE  LogsOK'
  <2>1. Append(l, e) \in Seq(Entry(Ids))
    OBVIOUS
  <2> QED BY <1>1, <1>2, <1>7, <2>1 DEF LogsOK
<1>8. None \notin Ids
  BY <1>1, IdsAreNaturals
<1>9. CASE WriteObject(p)
  BY <1>9, WriteObjectKeeps
<1>10. CASE WriteRef(p)
  <2>1. r.new \in Ids
    BY <1>5, <1>10 DEF WriteRef, Order, Knowing
  <2>2. RefsOK' /\ HeadOK'
    <3>1. CASE r.head \in Branch
      BY <1>4, <1>6, <1>8, <1>10, <2>1, <3>1 DEF WriteRef
    <3>2. CASE r.head \notin Branch
      BY <1>2, <1>4, <1>10, <2>1, <3>2 DEF WriteRef, HeadOK
    <3> QED BY <3>1, <3>2
  <2> QED BY <1>3, <1>4, <1>10, <2>2 DEF WriteRef
<1>11. CASE WriteHead(p)
  <2>1. r.arg \in Branch \cup Ids
    BY <1>5, <1>11 DEF WriteHead, Order, Knowing
  <2>2. HeadOK'
    BY <1>2, <1>11, <2>1 DEF WriteHead, HeadOK
  <2> QED BY <1>3, <1>4, <1>11, <2>2 DEF WriteHead
<1>12. CASE WriteName(p)
  <2> DEFINE id == IF r.arg \in Tag THEN r.new ELSE r.old
  <2>1. /\ r.arg \in Tag => r.new \in Ids \cup {Nowhere}
        /\ r.arg \notin Tag => r.old \in Ids
        /\ r.arg \in Branch => r.arg \notin Tag
    <3>1. /\ Knowing(r, r.pc, Ids)
          /\ \/ (r.cmd = "create" /\ r.pc = 4) \/ (r.cmd = "rename" /\ r.pc = 4)
             \/ (r.cmd = "tag" /\ r.pc = 2) \/ (r.cmd = "annotate" /\ r.pc = 3)
      BY <1>5, <1>12 DEF WriteName, Order
    <3> QED BY <1>8, <3>1, RefAssumption DEF Knowing
  <2>2. id \in Ids \cup {None, Nowhere} /\ (r.arg \in Branch => id \in Ids \cup {None})
    BY <1>8, <2>1
  <2>3. RefsOK'
    BY <1>6, <1>12, <2>2 DEF WriteName
  <2> QED BY <1>3, <1>4, <1>12, <2>3 DEF WriteName
<1>13. CASE RemoveName(p)
  <2>1. RefsOK'
    BY <1>6, <1>13 DEF RemoveName
  <2> QED BY <1>3, <1>4, <1>13, <2>1 DEF RemoveName
<1>14. CASE RemoveRef(p)
  <2>1. RefsOK'
    BY <1>6, <1>14 DEF RemoveRef
  <2> QED BY <1>3, <1>4, <1>14, <2>1 DEF RemoveRef
<1>15. CASE RemoveMergeHead(p)
  <2>1. MergeOK'
    BY <1>1, <1>2, <1>15 DEF RemoveMergeHead, MergeOK
  <2> QED BY <1>3, <1>4, <1>15, <2>1 DEF RemoveMergeHead
<1>16. CASE WriteRefLog(p)
  <2>1. r.log \in Seq(Entry(Ids)) /\ [old |-> r.old, new |-> r.new] \in Entry(Ids)
    <3>1. r.log \in Seq(Entry(Ids)) /\ r.old \in Ids \cup {None}
      BY <1>5, <1>16 DEF WriteRefLog, Holding
    <3>2. r.new \in Ids
      BY <1>5, <1>16 DEF WriteRefLog, Order, Knowing
    <3> QED BY <3>1, <3>2 DEF Entry
  <2>2. LogsOK'
    BY <1>4, <1>7, <1>16, <2>1 DEF WriteRefLog, WriteLog, fileVars
  <2> QED BY <1>3, <1>4, <1>16, <2>2 DEF WriteRefLog, WriteLog, fileVars
<1>17. CASE WriteNameLog(p)
  <2>1. r.log \in Seq(Entry(Ids)) /\ [old |-> None, new |-> r.old] \in Entry(Ids)
    <3>1. r.log \in Seq(Entry(Ids))
      BY <1>5, <1>17 DEF WriteNameLog, Holding
    <3>2. r.old \in Ids
      BY <1>5, <1>17 DEF WriteNameLog, Order, Knowing
    <3> QED BY <3>1, <3>2 DEF Entry
  <2>2. r.arg \in Branch
    BY <1>5, <1>17 DEF WriteNameLog, Order, Knowing
  <2>3. LogsOK'
    BY <1>7, <1>17, <2>1, <2>2 DEF WriteNameLog, WriteLog
  <2> QED BY <1>3, <1>4, <1>17, <2>3 DEF WriteNameLog, WriteLog
<1>18. CASE WriteHeadLog(p)
  <2> DEFINE new == IF r.cmd = "rename" THEN r.old ELSE r.new
  <2>1. r.log \in Seq(Entry(Ids)) /\ [old |-> r.old, new |-> new] \in Entry(Ids)
    <3>1. r.log \in Seq(Entry(Ids)) /\ r.old \in Ids \cup {None}
      BY <1>5, <1>18 DEF WriteHeadLog, Holding
    <3>2. new \in Ids
      BY <1>5, <1>18 DEF WriteHeadLog, Order, Knowing
    <3> QED BY <3>1, <3>2 DEF Entry
  <2>2. LogsOK'
    BY <1>7, <1>18, <2>1 DEF WriteHeadLog, WriteLog
  <2> QED BY <1>3, <1>4, <1>18, <2>2 DEF WriteHeadLog, WriteLog
<1> QED BY <1>9, <1>10, <1>11, <1>12, <1>13, <1>14, <1>15, <1>16, <1>17, <1>18 DEF Write

\* A log that could be read in part holds what the whole one held.
LEMMA ShortenedLog ==
    ASSUME NEW S, NEW l \in Seq(S), NEW k \in 0 .. Len(l) - 1
    PROVE  SubSeq(l, 1, k) \in Seq(S)
<1>1. k \in Nat /\ \A i \in 1 .. k : l[i] \in S OBVIOUS
<1> QED BY <1>1

\* A process that takes a file for missing or short knows no id for it.
LEMMA MissKeeps ==
    ASSUME IInv, NEW p \in Process, Miss(p)
    PROVE  IInv'
<1> DEFINE r == proc[p]
<1>1. UNCHANGED fileVars BY DEF Miss, MissRef, MisreadLog, MissLog
<1>2. ProcsOK /\ FilesOK /\ Ids' = Ids /\ FilesOK' BY <1>1, SameFiles DEF IInv
<1> SUFFICES ProcsOK' BY <1>2 DEF IInv
<1>3. ASSUME NEW s, At(p, s)
      PROVE  /\ Holding(r, Ids) /\ Knowing(r, r.pc, Ids) /\ r.cmd # "none"
             /\ r.cmd \in Cmds /\ r.pc \in Nat /\ Order(s, r.cmd, r.pc)
  BY <1>2, <1>3, AtOrder DEF Cmds
<1>4. ASSUME NEW s, At(p, s), s # "writeObject", s # "readRef", s # "readTarget", Continue(p)
      PROVE  ProcsOK'
  BY <1>1, <1>2, <1>4, ContinueOK DEF fileVars
<1>5. CASE MissRef(p)
  <2>1. CASE At(p, "readHead") /\ Go(p, [r EXCEPT !.head = None])
    <3> DEFINE q == [r EXCEPT !.head = None]
    <3>1. /\ Holding(r, Ids) /\ r.cmd # "none" /\ Knowing(r, r.pc + 1, Ids)
      BY <1>3, <2>1, Quiet
    <3>2. Holding(q, Ids) /\ q.cmd # "none" BY <3>1 DEF Holding
    <3>3. Knowing(q, q.pc + 1, Ids) BY <3>1 DEF Knowing, Holding
    <3> HIDE DEF q
    <3> QED BY <1>2, <2>1, <3>2, <3>3, GoOK DEF q
  <2>2. CASE At(p, "readRef") /\ r.cmd \in {"commit", "reset", "checkout"} /\ Continue(p)
    <3>1. /\ Holding(r, Ids) /\ r.cmd # "none" /\ Knowing(r, r.pc, Ids)
          /\ Order("readRef", r.cmd, r.pc) /\ r.pc \in Nat
      BY <1>3, <2>2
    <3>2. Knowing(r, r.pc + 1, Ids) BY <2>2, <3>1 DEF Knowing, Order
    <3> QED BY <1>2, <2>2, <3>1, <3>2, GoOK DEF Continue
  <2> QED BY <1>4, <1>5, <2>1, <2>2 DEF MissRef
<1>6. CASE MisreadLog(p)
  <2>1. PICK n \in Branch \cup {HEAD} :
          /\ \E s \in {"readRefLog", "readNameLog", "readHeadLog"} : At(p, s)
          /\ \E k \in 0 .. Len(logs[n]) - 1 :
                Go(p, [r EXCEPT !.log = SubSeq(logs[n], 1, k), !.uses = @ \cup {Log(n)}])
    BY <1>6 DEF MisreadLog
  <2>2. PICK k \in 0 .. Len(logs[n]) - 1 :
                Go(p, [r EXCEPT !.log = SubSeq(logs[n], 1, k), !.uses = @ \cup {Log(n)}])
    BY <2>1
  <2>3. SubSeq(logs[n], 1, k) \in Seq(Entry(Ids))
    <3>1. logs[n] \in Seq(Entry(Ids)) BY <1>2 DEF FilesOK, LogsOK
    <3> QED BY <3>1, ShortenedLog
  <2>4. PICK l \in Seq(Entry(Ids)) : l = SubSeq(logs[n], 1, k) BY <2>3
  <2> DEFINE U == {Log(n)}
             q == [r EXCEPT !.log = l, !.uses = @ \cup U]
  <2>5. Holding(r, Ids) /\ r.cmd # "none" /\ Knowing(r, r.pc + 1, Ids)
    BY <1>3, <2>1, Quiet
  <2>6. Holding(q, Ids) /\ q.cmd # "none" BY <2>5 DEF Holding
  <2>7. Knowing(q, q.pc + 1, Ids) BY <2>5 DEF Knowing, Holding
  <2>8. Go(p, q) BY <2>2, <2>4
  <2> HIDE DEF q
  <2> QED BY <1>2, <2>6, <2>7, <2>8, GoOK
<1>7. CASE MissLog(p) BY <1>4, <1>7 DEF MissLog
<1> QED BY <1>5, <1>6, <1>7 DEF Miss

\* The invariant holds in the empty repository.
LEMMA InitOK == ASSUME Init PROVE IInv
<1>1. Ids = {}
  BY DEF Init, Ids
<1>2. ObjectsOK
  BY <1>1 DEF Init, ObjectsOK
<1>3. RefsOK /\ HeadOK /\ MergeOK
  BY RefAssumption DEF Init, RefsOK, HeadOK, MergeOK, Name
<1>4. LogsOK
  <2>1. <<>> \in Seq(Entry(Ids))
    OBVIOUS
  <2> QED BY <2>1 DEF Init, LogsOK
<1>5. ProcsOK
  BY IdleOK DEF Init, ProcsOK
<1> QED BY <1>2, <1>3, <1>4, <1>5 DEF IInv, FilesOK

\* Every step keeps it, that of a command that dies included.
LEMMA NextKeeps == ASSUME IInv, [Next]_vars PROVE IInv'
<1>1. CASE UNCHANGED vars
  <2>1. UNCHANGED fileVars /\ UNCHANGED proc
    BY <1>1 DEF vars, fileVars
  <2> QED BY <2>1, SameFiles DEF IInv, ProcsOK
<1>2. ASSUME NEW p \in Process, Crash(p) PROVE IInv'
  BY <1>2, SameFiles, FailOK DEF Crash, IInv
<1> QED BY <1>1, <1>2, BeginKeeps, ReadKeeps, WriteKeeps, MissKeeps DEF Next

\* No branch, HEAD, MERGE_HEAD, reflog entry or commit names an object that is
\* not there, for any number of commands, wherever they overlap, fail or die; a
\* tag may, for it takes any string.
THEOREM RefsNeverDangle == Spec => []TypeOK
<1>1. Init => IInv
  BY InitOK
<1>2. IInv /\ [Next]_vars => IInv'
  BY NextKeeps
<1>3. IInv => TypeOK
  BY FilesTypeOK DEF IInv
<1> QED BY <1>1, <1>2, <1>3, PTL DEF Spec
-------------------------------------------------------------------------------
(* What a command relies on while others run *)

\* No command had HEAD moved, or a branch created or removed, under it, or took
\* a ref that it could not read for missing.
Calm == "ref" \notin missed /\ raced \cap ({Ref(HEAD)} \cup UNION {{Gone(b), Taken(b)} : b \in Branch}) = {}

\* From the reading of HEAD that counts to the write that relies on it.
HeadHeld(c, k) ==
    \/ c = "commit" /\ k \in 3 .. 7
    \/ c = "amend" /\ k \in 3 .. 6
    \/ c = "reset" /\ k \in 3 .. 6
    \/ c = "checkout" /\ k \in 2 .. 4
    \/ c = "create" /\ k \in 3 .. 4
    \/ c = "rename" /\ k \in 2 .. 5
    \/ c = "delete" /\ k = 2

\* What process r found out is still so, with HEAD at h and the refs at f.
Fresh(r, h, f) ==
    /\ HeadHeld(r.cmd, r.pc) => Ref(HEAD) \in r.uses /\ r.head = h
    /\ r.cmd = "create" /\ r.pc > 2 => r.head \in Branch
    /\ r.cmd = "rename" /\ r.pc > 1 => r.head \in Branch
    /\ r.cmd = "delete" => r.arg \in Branch /\ (r.pc > 1 => r.arg # r.head)
    /\ r.cmd = "untag" => r.arg \in Tag
    /\ r.cmd = "checkout" /\ r.pc = 4 /\ r.arg \in Branch =>
           Ref(r.arg) \in r.uses /\ f[r.arg] # None
    /\ (r.cmd = "create" /\ r.pc = 4) \/ (r.cmd = "rename" /\ r.pc > 3) =>
           Ref(r.head) \in r.uses /\ f[r.head] # None
    /\ (r.cmd = "create" /\ r.pc \in 2 .. 4) \/ (r.cmd = "rename" /\ r.pc \in 3 .. 4) =>
           Ref(r.arg) \in r.uses /\ f[r.arg] = None
    /\ r.cmd = "rename" /\ r.pc > 3 => r.arg # r.head
    /\ r.cmd = "rename" /\ r.pc > 4 => Ref(r.arg) \in r.uses /\ f[r.arg] # None
    /\ r.cmd = "rename" /\ r.pc > 5 => Ref(HEAD) \in r.uses /\ h = r.arg
    /\ r.cmd = "commit" /\ r.pc \in 4 .. 7 =>
           IF r.head \in Branch
           THEN Ref(r.head) \in r.uses /\ (r.old = None <=> f[r.head] = None)
           ELSE r.old = r.head

HeadThere == (\E b \in Branch : refs[b] # None) => HeadId # None

CalmInv == Calm => HeadThere /\ \A p \in Process : Fresh(proc[p], head, refs)

\* An idle process relies on nothing.
LEMMA FreshIdle == ASSUME NEW h, NEW f PROVE Fresh(Idle, h, f)
BY DEF Fresh, Idle, HeadHeld

\* What a step leaves of the processes.
LEMMA GoStep ==
    ASSUME ProcsOK, NEW p \in Process, NEW r, Go(p, r)
    PROVE  /\ \A q \in Process \ {p} : proc'[q] = proc[q]
           /\ proc'[p] = Idle \/ proc'[p] = [r EXCEPT !.pc = @ + 1]
BY DEF Go, ProcsOK

\* What a process does, beside the history.
Moves(p) ==
    \/ Begin(p)
    \/ (Read(p) \/ Write(p)) /\ UNCHANGED <<begun, crashes, missed>>
    \/ Miss(p) /\ UNCHANGED <<begun, crashes>>
    \/ Crash(p)

\* A failure that was ignored stays so.
LEMMA StillMissed ==
    ASSUME NEW p \in Process, Moves(p)
    PROVE  missed \subseteq missed' /\ (MissRef(p) => "ref" \in missed')
                                   /\ (Miss(p) => missed' # {})
BY DEF Moves, Begin, Start, Crash, Miss, MissRef, MisreadLog, MissLog

\* A step of p under which no other process had what it relies on changed.
LEMMA RaceFree ==
    ASSUME NEW p \in Process, NEW q \in Process \ {p}, Remember(p), Moves(p), Calm'
    PROVE  /\ Calm /\ (Ref(HEAD) \in proc[q].uses => head' = head)
           /\ \A b \in Branch : Ref(b) \in proc[q].uses =>
                  (refs'[b] = None <=> refs[b] = None)
<1> DEFINE Guarded == {Ref(HEAD)} \cup UNION {{Gone(b), Taken(b)} : b \in Branch}
<1>1. raced \subseteq raced' /\ \A f \in Changed : Uses(q, f) => f \in raced'
  BY DEF Remember
<1>2. raced' \cap Guarded = {} BY DEF Calm
<1>3. Calm BY <1>1, <1>2, StillMissed DEF Calm
<1>4. ASSUME Ref(HEAD) \in proc[q].uses, head' # head PROVE FALSE
  <2>1. Ref(HEAD) \in Changed BY <1>4 DEF Changed
  <2>2. Uses(q, Ref(HEAD)) BY <1>4 DEF Uses, Ref
  <2> QED BY <1>1, <1>2, <2>1, <2>2
<1>5. ASSUME NEW b \in Branch, Ref(b) \in proc[q].uses, refs[b] = None, refs'[b] # None
      PROVE  FALSE
  <2>1. Taken(b) \in Changed BY <1>5 DEF Changed, Name
  <2>2. Uses(q, Taken(b)) BY <1>5 DEF Uses, Taken, Ref
  <2> QED BY <1>1, <1>2, <2>1, <2>2
<1>6. ASSUME NEW b \in Branch, Ref(b) \in proc[q].uses, refs[b] # None, refs'[b] = None
      PROVE  FALSE
  <2>1. Gone(b) \in Changed BY <1>6 DEF Changed, Name
  <2>2. Uses(q, Gone(b)) BY <1>6 DEF Uses, Gone, Ref
  <2> QED BY <1>1, <1>2, <2>1, <2>2
<1> QED BY <1>3, <1>4, <1>5, <1>6

\* So what that process found out is still so.
LEMMA FreshStays ==
    ASSUME NEW I, NEW r, ProcOK(r, I), NEW h, NEW f, NEW h2, NEW f2, Fresh(r, h, f),
           Ref(HEAD) \in r.uses => h2 = h,
           \A b \in Branch : Ref(b) \in r.uses => (f2[b] = None <=> f[b] = None)
    PROVE  Fresh(r, h2, f2)
<1>1. r.cmd = "create" \/ r.cmd = "rename" => r.arg \in Branch BY DEF ProcOK, Knowing
<1>2. r.arg \in Branch /\ Ref(r.arg) \in r.uses => (f2[r.arg] = None <=> f[r.arg] = None)
  OBVIOUS
<1>3. r.head \in Branch /\ Ref(r.head) \in r.uses => (f2[r.head] = None <=> f[r.head] = None)
  OBVIOUS
<1>4. r.pc \in Nat BY DEF ProcOK, Holding
<1> QED BY <1>1, <1>2, <1>3, <1>4 DEF Fresh

\* A step that reads nothing a process relies on, and writes none of it.
LEMMA FreshGoes ==
    ASSUME NEW r, NEW r2, NEW h, NEW f, NEW s, Fresh(r, h, f), Order(s, r.cmd, r.pc),
           r.pc \in Nat, r2.cmd = r.cmd, r2.pc = r.pc + 1, r2.arg = r.arg, r2.head = r.head,
           r2.old = r.old, r.uses \subseteq r2.uses,
           s \notin {"readHead", "readRef", "readTarget", "statName", "writeName", "writeHead"}
    PROVE  Fresh(r2, h, f)
<1>1. /\ r.cmd = "commit" => r.pc # 2 /\ r.pc # 3 /\ r.pc # 6
      /\ r.cmd = "amend" => r.pc # 2 /\ r.pc # 3 /\ r.pc # 5
      /\ r.cmd = "reset" => r.pc # 2 /\ r.pc # 1
      /\ r.cmd = "checkout" => r.pc # 1 /\ r.pc # 2 /\ r.pc # 3
      /\ r.cmd = "create" => r.pc # 1 /\ r.pc # 2 /\ r.pc # 3 /\ r.pc # 4
      /\ r.cmd = "rename" => r.pc # 1 /\ r.pc # 2 /\ r.pc # 3 /\ r.pc # 4 /\ r.pc # 5
      /\ r.cmd = "delete" => r.pc # 1
  BY DEF Order
<1>2. HeadHeld(r2.cmd, r2.pc) => HeadHeld(r.cmd, r.pc) BY <1>1 DEF HeadHeld
<1> QED BY <1>1, <1>2 DEF Fresh

\* A command that begins or ends relies on nothing yet.
LEMMA BeginFresh ==
    ASSUME IInv, NEW p \in Process, Begin(p)
    PROVE  Fresh(proc'[p], head, refs) /\ \A q \in Process \ {p} : proc'[q] = proc[q]
<1>1. ASSUME NEW c, NEW a, NEW n, Start(p, c, a, n),
             c = "delete" => a \in Branch, c = "untag" => a \in Tag
      PROVE  Fresh(proc'[p], head, refs) /\ \A q \in Process \ {p} : proc'[q] = proc[q]
  <2> DEFINE r == [Idle EXCEPT !.cmd = c, !.arg = a, !.new = n]
  <2>1. proc' = [proc EXCEPT ![p] = r] BY <1>1 DEF Start
  <2>2. r.cmd = c /\ r.pc = 1 /\ r.arg = a BY DEF Idle
  <2> HIDE DEF r
  <2>3. Fresh(r, head, refs) BY <1>1, <2>2 DEF Fresh, HeadHeld
  <2> QED BY <2>1, <2>3 DEF IInv, ProcsOK
<1> QED BY <1>1 DEF Begin

\* Reading leaves a process with what is so.
LEMMA ReadFresh ==
    ASSUME IInv, NEW p \in Process, Fresh(proc[p], head, refs), Read(p)
    PROVE  Fresh(proc'[p], head, refs) /\ \A q \in Process \ {p} : proc'[q] = proc[q]
<1> DEFINE r == proc[p]
           Done == Fresh(proc'[p], head, refs) /\ \A q \in Process \ {p} : proc'[q] = proc[q]
<1>0. ProcsOK BY DEF IInv
<1>1. ASSUME Fail(p) PROVE Done BY <1>0, <1>1, FreshIdle DEF Fail, ProcsOK
<1>2. ASSUME NEW q, Go(p, q), Fresh([q EXCEPT !.pc = @ + 1], head, refs) PROVE Done
  BY <1>0, <1>2, FreshIdle, GoStep
<1>3. ASSUME NEW s, At(p, s)
      PROVE  /\ Holding(r, Ids) /\ Knowing(r, r.pc, Ids)
             /\ r.cmd \in Cmds /\ r.pc \in Nat /\ Order(s, r.cmd, r.pc)
  BY <1>0, <1>3, AtOrder
<1> SUFFICES Done OBVIOUS
<1> HIDE DEF Done
<1>4. ASSUME NEW s, At(p, s), s \notin {"readHead", "readRef", "readTarget", "statName",
                                       "writeName", "writeHead"}
      PROVE  /\ Go(p, r) => Done
             /\ \A m : Go(p, [r EXCEPT !.merge = m]) => Done
             /\ \A l, U : Go(p, [r EXCEPT !.log = l, !.uses = @ \cup U]) => Done
  <2>1. /\ Holding(r, Ids) /\ r.pc \in Nat /\ Order(s, r.cmd, r.pc)
    BY <1>3, <1>4
  <2> DEFINE Fields(q) == /\ q.cmd = r.cmd /\ q.pc = r.pc + 1 /\ q.arg = r.arg
                          /\ q.head = r.head /\ q.old = r.old /\ r.uses \subseteq q.uses
  <2>2. ASSUME NEW q, Fields(q) PROVE Fresh(q, head, refs)
    BY <1>4, <2>1, <2>2, FreshGoes
  <2>3. ASSUME Go(p, r) PROVE Done
    <3>1. Fields([r EXCEPT !.pc = @ + 1]) BY <2>1 DEF Holding
    <3> HIDE DEF Fields
    <3> QED BY <1>2, <2>2, <2>3, <3>1
  <2>4. ASSUME NEW m, Go(p, [r EXCEPT !.merge = m]) PROVE Done
    <3>1. Fields([[r EXCEPT !.merge = m] EXCEPT !.pc = @ + 1]) BY <2>1 DEF Holding
    <3> HIDE DEF Fields
    <3> QED BY <1>2, <2>2, <2>4, <3>1
  <2>5. ASSUME NEW l, NEW U, Go(p, [r EXCEPT !.log = l, !.uses = @ \cup U]) PROVE Done
    <3>1. Fields([[r EXCEPT !.log = l, !.uses = @ \cup U] EXCEPT !.pc = @ + 1])
      BY <2>1 DEF Holding
    <3> HIDE DEF Fields
    <3> QED BY <1>2, <2>2, <2>5, <3>1
  <2> QED BY <2>3, <2>4, <2>5
<1>5. CASE ReadMergeHead(p) BY <1>4, <1>5 DEF ReadMergeHead
<1>6. CASE RefuseMerge(p) BY <1>1, <1>4, <1>6 DEF RefuseMerge, Continue
<1>7. CASE TakeMergeHead(p) BY <1>1, <1>4, <1>7 DEF TakeMergeHead, Continue
<1>8. CASE ReadRefLog(p) BY <1>4, <1>8 DEF ReadRefLog, ReadLog, Continue
<1>9. CASE ReadNameLog(p) BY <1>4, <1>9 DEF ReadNameLog, ReadLog
<1>10. CASE ReadHeadLog(p) BY <1>4, <1>10 DEF ReadHeadLog, ReadLog
<1>11. CASE ReadHead(p)
  <2> DEFINE q == [r EXCEPT !.head = head, !.uses = @ \cup {Ref(HEAD)}]
             q2 == [q EXCEPT !.pc = @ + 1]
  <2>1. /\ Holding(r, Ids) /\ r.pc \in Nat /\ Order("readHead", r.cmd, r.pc)
    BY <1>3, <1>11 DEF ReadHead
  <2>2. CASE Fail(p) BY <1>1, <2>2
  <2>3. CASE /\ Go(p, q)
             /\ r.cmd \in {"create", "rename", "delete"} => head \in Branch
             /\ r.cmd = "delete" => head # r.arg
    <3>1. /\ q2.cmd = r.cmd /\ q2.pc = r.pc + 1 /\ q2.arg = r.arg /\ q2.head = head
          /\ q2.old = r.old /\ q2.uses = r.uses \cup {Ref(HEAD)}
      BY <2>1 DEF Holding
    <3> HIDE DEF q2
    <3>2. Fresh(q2, head, refs) BY <2>1, <2>3, <3>1 DEF Order, Fresh, HeadHeld
    <3> QED BY <1>2, <2>3, <3>2 DEF q2
  <2> QED BY <1>11, <2>2, <2>3 DEF ReadHead
<1>12. CASE ReadRef(p)
  <2> DEFINE h == r.head
             id == IF h \in Branch THEN refs[h] ELSE h
             U == {Ref(IF h \in Branch THEN h ELSE HEAD)}
             q == [r EXCEPT !.old = id, !.uses = @ \cup U]
             q2 == [q EXCEPT !.pc = @ + 1]
  <2>1. /\ Holding(r, Ids) /\ r.pc \in Nat /\ Order("readRef", r.cmd, r.pc)
    BY <1>3, <1>12 DEF ReadRef
  <2>2. CASE Fail(p) BY <1>1, <2>2
  <2>3. CASE Go(p, q) /\ (r.cmd \in {"amend", "create", "rename"} => id # None)
    <3>1. /\ q2.cmd = r.cmd /\ q2.pc = r.pc + 1 /\ q2.arg = r.arg /\ q2.head = r.head
          /\ q2.old = id /\ q2.uses = r.uses \cup U
      BY <2>1 DEF Holding
    <3>2. h \in Branch => Ref(h) \in q2.uses BY <3>1
    <3> HIDE DEF q2, U
    <3>3. Fresh(q2, head, refs)
      BY <2>1, <2>3, <3>1, <3>2 DEF Order, Fresh, HeadHeld
    <3> QED BY <1>2, <2>3, <3>3 DEF q2
  <2> QED BY <1>12, <2>2, <2>3 DEF ReadRef
<1>13. CASE ReadTarget(p)
  <2> DEFINE t == r.arg
             id == IF t \in Branch THEN refs[t] ELSE t
             U == {Ref(t) : b \in {t} \cap Branch}
             q == [r EXCEPT !.new = id, !.uses = @ \cup U]
             q2 == [q EXCEPT !.pc = @ + 1]
  <2>1. /\ Holding(r, Ids) /\ r.pc \in Nat /\ Order("readTarget", r.cmd, r.pc)
    BY <1>3, <1>13 DEF ReadTarget
  <2>2. CASE Fail(p) BY <1>1, <2>2
  <2>3. CASE Go(p, q) /\ id # None
    <3>1. /\ q2.cmd = r.cmd /\ q2.pc = r.pc + 1 /\ q2.arg = r.arg /\ q2.head = r.head
          /\ q2.old = r.old /\ q2.uses = r.uses \cup U
      BY <2>1 DEF Holding
    <3>2. t \in Branch => Ref(t) \in q2.uses BY <3>1
    <3> HIDE DEF q2, U
    <3>3. Fresh(q2, head, refs)
      BY <2>1, <2>3, <3>1, <3>2 DEF Order, Fresh, HeadHeld
    <3> QED BY <1>2, <2>3, <3>3 DEF q2
  <2>4. None \notin Ids BY IdsAreNaturals DEF IInv, FilesOK
  <2> QED BY <1>13, <2>2, <2>3, <2>4 DEF ReadTarget, Commits
<1>14. CASE StatName(p)
  <2> DEFINE q == [r EXCEPT !.uses = @ \cup {Ref(r.arg)}]
             q2 == [q EXCEPT !.pc = @ + 1]
  <2>1. /\ Holding(r, Ids) /\ r.pc \in Nat /\ Order("statName", r.cmd, r.pc)
        /\ Knowing(r, r.pc, Ids)
    BY <1>3, <1>14 DEF StatName
  <2>2. CASE Fail(p) BY <1>1, <2>2
  <2>3. CASE Go(p, q) /\ (refs[r.arg] = None \/ r.arg \in Tag)
    <3>1. /\ q2.cmd = r.cmd /\ q2.pc = r.pc + 1 /\ q2.arg = r.arg /\ q2.head = r.head
          /\ q2.old = r.old /\ q2.uses = r.uses \cup {Ref(r.arg)}
      BY <2>1 DEF Holding
    <3>2. r.cmd = "create" \/ r.cmd = "rename" => refs[r.arg] = None
      BY <2>1, <2>3, RefAssumption DEF Knowing
    <3> HIDE DEF q2
    <3>3. Fresh(q2, head, refs)
      BY <2>1, <2>3, <3>1, <3>2 DEF Order, Fresh, HeadHeld
    <3> QED BY <1>2, <2>3, <3>3 DEF q2
  <2> QED BY <1>14, <2>2, <2>3 DEF StatName
<1> QED
  BY <1>5, <1>6, <1>7, <1>8, <1>9, <1>10, <1>11, <1>12, <1>13, <1>14 DEF Read, Done

\* A write finds what its process relies on, leaves HEAD with a commit, and the
\* process with what is so.
LEMMA WriteFresh ==
    ASSUME IInv, HeadThere, NEW p \in Process, Fresh(proc[p], head, refs), Write(p)
    PROVE  /\ HeadThere' /\ Fresh(proc'[p], head', refs')
           /\ \A q \in Process \ {p} : proc'[q] = proc[q]
<1> DEFINE r == proc[p]
           r2 == [r EXCEPT !.pc = @ + 1]
           Done == /\ HeadThere' /\ Fresh(proc'[p], head', refs')
                   /\ \A q \in Process \ {p} : proc'[q] = proc[q]
<1>1. /\ ProcsOK /\ HeadOK /\ RefsOK /\ None \notin Ids
      /\ Ids \cap (Branch \cup Tag) = {}
  <2>1. ProcsOK /\ HeadOK /\ RefsOK /\ ObjectsOK BY DEF IInv, FilesOK
  <2>2. Ids \subseteq Nat BY <2>1, IdsAreNaturals
  <2> QED BY <2>1, <2>2, RefAssumption
<1>2. ASSUME NEW s, At(p, s)
      PROVE  /\ Holding(r, Ids) /\ Knowing(r, r.pc, Ids)
             /\ r.cmd \in Cmds /\ r.pc \in Nat /\ Order(s, r.cmd, r.pc)
             /\ r2.cmd = r.cmd /\ r2.pc = r.pc + 1 /\ r2.arg = r.arg /\ r2.head = r.head
             /\ r2.old = r.old /\ r2.uses = r.uses
  <2>1. /\ Holding(r, Ids) /\ Knowing(r, r.pc, Ids)
        /\ r.cmd \in Cmds /\ r.pc \in Nat /\ Order(s, r.cmd, r.pc)
    BY <1>1, <1>2, AtOrder
  <2> QED BY <2>1 DEF Holding
<1> SUFFICES Done OBVIOUS
<1>3. ASSUME Continue(p), Fresh(r2, head', refs'), HeadThere' PROVE Done
  BY <1>1, <1>3, FreshIdle, GoStep DEF Continue
<1> HIDE DEF Done, r2
\* A write to another file.
<1>4. ASSUME UNCHANGED <<refs, head>> PROVE HeadThere' BY <1>4 DEF HeadThere, HeadId
<1> DEFINE Fields(x) == /\ x.cmd = r.cmd /\ x.pc = r.pc + 1 /\ x.arg = r.arg
                        /\ x.head = r.head /\ x.old = r.old /\ r.uses \subseteq x.uses
<1>0. ASSUME NEW s, At(p, s), NEW x, Fields(x),
              s \notin {"readHead", "readRef", "readTarget", "statName", "writeName", "writeHead"}
       PROVE  Fresh(x, head, refs)
  BY <1>2, <1>0, FreshGoes
<1> HIDE DEF Fields
<1>5. ASSUME NEW s, At(p, s), Continue(p), UNCHANGED <<refs, head>>,
             s \notin {"readHead", "readRef", "readTarget", "statName", "writeName", "writeHead"}
      PROVE  Done
  <2>1. Fresh(r2, head, refs) BY <1>2, <1>5, FreshGoes
  <2> QED BY <1>3, <1>4, <1>5, <2>1
<1>6. CASE WriteObject(p)
  <2> DEFINE q == [r EXCEPT !.new = Len(objects')]
             q2 == [q EXCEPT !.pc = @ + 1]
  <2>1. /\ Holding(r, Ids) /\ r.pc \in Nat /\ Order("writeObject", r.cmd, r.pc)
        /\ Go(p, q) /\ UNCHANGED <<refs, head>>
    BY <1>2, <1>6 DEF WriteObject
  <2>2. /\ q2.cmd = r.cmd /\ q2.pc = r.pc + 1 /\ q2.arg = r.arg /\ q2.head = r.head
        /\ q2.old = r.old /\ q2.uses = r.uses
    BY <2>1 DEF Holding
  <2>3. At(p, "writeObject") BY <1>6 DEF WriteObject
  <2>4. Fresh(q2, head, refs)
    <3>1. Fields(q2) BY <2>2 DEF Fields
    <3> QED BY <1>0, <2>3, <3>1
  <2>5. Fresh(proc'[p], head, refs) /\ \A x \in Process \ {p} : proc'[x] = proc[x]
    <3>1. proc'[p] = Idle \/ proc'[p] = q2 BY <1>1, <2>1, GoStep
    <3>2. \A x \in Process \ {p} : proc'[x] = proc[x] BY <1>1, <2>1, GoStep
    <3> HIDE DEF q2
    <3> QED BY <2>4, <3>1, <3>2, FreshIdle
  <2>6. head' = head /\ refs' = refs BY <2>1
  <2>7. Fresh(proc'[p], head', refs') BY <2>5, <2>6
  <2> QED BY <1>4, <2>1, <2>5, <2>7 DEF Done
<1>7. CASE WriteRef(p)
  <2>1. /\ r.new \in Ids /\ HeadHeld(r.cmd, r.pc) /\ Order("writeRef", r.cmd, r.pc)
        /\ Continue(p)
    BY <1>2, <1>7 DEF WriteRef, Order, Knowing, HeadHeld
  <2>2. r.head = head BY <2>1 DEF Fresh
  <2>3. HeadThere' BY <1>1, <1>7, <2>1, <2>2 DEF WriteRef, HeadThere, HeadId, RefsOK, Name
  <2>4. Fresh(r2, head', refs') BY <1>2, <1>7, <2>1 DEF WriteRef, Order, Fresh, HeadHeld
  <2> QED BY <1>3, <2>1, <2>3, <2>4
<1>8. CASE WriteHead(p)
  <2>1. /\ Order("writeHead", r.cmd, r.pc) /\ Continue(p) /\ head' = r.arg
        /\ UNCHANGED refs /\ r.arg \in Branch \cup Ids
    BY <1>2, <1>8 DEF WriteHead, Order, Knowing
  <2>2. r.arg \in Branch => refs[r.arg] # None BY <2>1 DEF Order, Fresh
  <2>3. HeadThere' BY <1>1, <2>1, <2>2 DEF HeadThere, HeadId
  <2>4. Fresh(r2, head', refs')
    <3>1. r.cmd = "rename" => Ref(HEAD) \in r.uses BY <2>1 DEF Order, Fresh, HeadHeld
    <3> QED BY <1>2, <1>8, <2>1, <3>1 DEF WriteHead, Order, Fresh, HeadHeld
  <2> QED BY <1>3, <2>1, <2>3, <2>4
<1>9. CASE WriteName(p)
  <2> DEFINE id == IF r.arg \in Tag THEN r.new ELSE r.old
  <2>1. /\ Order("writeName", r.cmd, r.pc) /\ Knowing(r, r.pc, Ids)
        /\ Continue(p) /\ refs' = [refs EXCEPT ![r.arg] = id] /\ UNCHANGED head
    BY <1>2, <1>9 DEF WriteName
  <2>2. CASE r.cmd = "create" \/ r.cmd = "rename"
    <3>1. r.arg \in Branch /\ r.arg \notin Tag /\ r.old # None /\ id = r.old
      BY <1>1, <2>1, <2>2, RefAssumption DEF Order, Knowing
    <3>2. /\ r.head = head /\ refs[head] # None /\ r.head \in Branch /\ refs[r.arg] = None
      BY <2>1, <2>2 DEF Order, Fresh, HeadHeld
    <3>3. refs'[r.arg] = r.old /\ \A b \in Branch \ {r.arg} : refs'[b] = refs[b]
      BY <1>1, <2>1, <3>1 DEF RefsOK, Name
    <3>4. HeadThere' BY <2>1, <3>1, <3>2, <3>3 DEF HeadThere, HeadId
    <3>5. Fresh(r2, head', refs')
      <4>1. r.pc = 4 BY <2>1, <2>2 DEF Order
      <4>2. /\ r2.cmd = r.cmd /\ r2.pc = 5 /\ r2.arg = r.arg /\ r2.head = r.head
            /\ r2.uses = r.uses
        BY <1>2, <1>9, <4>1 DEF WriteName
      <4>3. /\ Ref(r.head) \in r.uses /\ Ref(r.arg) \in r.uses
            /\ r.cmd = "rename" => Ref(HEAD) \in r.uses /\ r.arg # r.head
        BY <2>2, <4>1 DEF Fresh, HeadHeld
      <4>4. /\ refs'[r.head] # None /\ refs'[r.arg] # None /\ head' = head
        BY <2>1, <3>1, <3>2, <3>3
      <4>5. HeadHeld(r2.cmd, r2.pc) => r.cmd = "rename" BY <2>2, <4>2 DEF HeadHeld
      <4> QED BY <2>2, <3>1, <3>2, <4>2, <4>3, <4>4, <4>5 DEF Fresh
    <3> QED BY <1>3, <2>1, <3>4, <3>5
  <2>3. CASE r.cmd = "tag" \/ r.cmd = "annotate"
    <3>1. r.arg \in Tag /\ r.arg \notin Branch BY <2>1, <2>3, RefAssumption DEF Knowing
    <3>2. \A b \in Branch : refs'[b] = refs[b] BY <1>1, <2>1, <3>1 DEF RefsOK, Name
    <3>3. HeadThere' BY <1>1, <2>1, <3>2 DEF HeadThere, HeadId, HeadOK
    <3>4. Fresh(r2, head', refs')
      BY <1>2, <1>9, <2>3 DEF WriteName, Fresh, HeadHeld
    <3> QED BY <1>3, <2>1, <3>3, <3>4
  <2> QED BY <2>1, <2>2, <2>3 DEF Order
<1>10. CASE RemoveName(p)
  <2>1. /\ Order("removeName", r.cmd, r.pc) /\ Continue(p) /\ UNCHANGED head
        /\ refs' = [refs EXCEPT ![r.arg] = None]
    BY <1>2, <1>10 DEF RemoveName
  <2>2. r.arg # head /\ r.arg \in Name
    <3>1. \/ r.cmd = "delete" /\ r.pc = 2 /\ r.arg \in Branch /\ r.arg # head
          \/ r.cmd = "untag" /\ r.arg \in Tag
      BY <2>1 DEF Order, Fresh, HeadHeld
    <3> QED BY <1>1, <3>1, RefAssumption DEF HeadOK, Name
  <2>3. \A b \in Branch : refs'[b] # None => refs[b] # None
    BY <1>1, <2>1, <2>2 DEF RefsOK, Name
  <2>4. HeadThere' BY <1>1, <2>1, <2>2, <2>3 DEF HeadThere, HeadId, RefsOK, Name
  <2>5. Fresh(r2, head', refs')
    <3>1. \/ r.cmd = "delete" /\ r.arg \in Branch /\ r.arg # r.head
          \/ r.cmd = "untag" /\ r.arg \in Tag
      BY <2>1 DEF Order, Fresh
    <3>2. r2.cmd = r.cmd /\ r2.arg = r.arg /\ r2.head = r.head /\ r2.pc = r.pc + 1 /\ r.pc \in Nat
      BY <1>2, <1>10 DEF RemoveName
    <3>3. ~HeadHeld(r2.cmd, r2.pc)
      <4>1. r.cmd = "delete" => r.pc = 2 BY <2>1 DEF Order
      <4> QED BY <3>1, <3>2, <4>1 DEF HeadHeld
    <3> QED BY <3>1, <3>2, <3>3 DEF Fresh
  <2> QED BY <1>3, <2>1, <2>4, <2>5
<1>11. CASE RemoveRef(p)
  <2>1. /\ Order("removeRef", r.cmd, r.pc) /\ Continue(p) /\ UNCHANGED head
        /\ refs' = [refs EXCEPT ![r.head] = None]
    BY <1>2, <1>11 DEF RemoveRef
  <2>2. r.arg = head /\ r.arg # r.head /\ refs[r.arg] # None BY <2>1 DEF Order, Fresh
  <2>3. HeadThere' BY <1>1, <2>1, <2>2 DEF HeadThere, HeadId, RefsOK, Name
  \* It is the last step of its program.
  <2>4. proc'[p] = Idle
    <3>1. r.cmd = "rename" /\ r.pc = 10 BY <2>1 DEF Order
    <3>2. Len(Program["rename"]) = 10 BY DEF Program, RenameSteps
    <3>3. r.pc = Len(Program[r.cmd]) BY <3>1, <3>2
    <3> QED BY <1>1, <2>1, <3>3 DEF Continue, Go, ProcsOK
  <2>5. \A q \in Process \ {p} : proc'[q] = proc[q] BY <1>1, <2>1, GoStep DEF Continue
  <2> QED BY <2>3, <2>4, <2>5, FreshIdle DEF Done
<1>12. CASE RemoveMergeHead(p) BY <1>5, <1>12 DEF RemoveMergeHead
<1>13. CASE WriteRefLog(p) BY <1>5, <1>13 DEF WriteRefLog, WriteLog, fileVars
<1>14. CASE WriteNameLog(p) BY <1>5, <1>14 DEF WriteNameLog, WriteLog
<1>15. CASE WriteHeadLog(p) BY <1>5, <1>15 DEF WriteHeadLog, WriteLog
<1> QED BY <1>6, <1>7, <1>8, <1>9, <1>10, <1>11, <1>12, <1>13, <1>14, <1>15 DEF Write

\* What was raced once stays so.
LEMMA StillCalm == ASSUME NEW p \in Process, Remember(p), Moves(p), Calm' PROVE Calm
BY StillMissed DEF Remember, Calm

\* A process goes on from a ref that it could not read with what it has ...
LEMMA RefMissOf ==
    ASSUME IInv, NEW p \in Process, MissRef(p)
    PROVE  /\ \A q \in Process \ {p} : proc'[q] = proc[q]
           /\ UNCHANGED fileVars
           /\ \/ proc'[p] = Idle
              \/ /\ proc'[p].cmd = proc[p].cmd /\ proc'[p].pc = proc[p].pc + 1
                 /\ proc[p].pc \in Nat /\ proc'[p].merge = proc[p].merge
                 /\ proc'[p].new = proc[p].new /\ proc'[p].old = proc[p].old
                 /\ \E s : At(p, s) /\ s # "writeObject"
<1> DEFINE r == proc[p]
<1>1. ProcsOK /\ ProcOK(r, Ids) BY DEF IInv, ProcsOK
<1>2. UNCHANGED fileVars /\ \E s : At(p, s) /\ s # "writeObject" BY DEF MissRef
<1> DEFINE Same(q) == /\ q.cmd = r.cmd /\ q.pc = r.pc + 1 /\ q.merge = r.merge
                      /\ q.new = r.new /\ q.old = r.old
<1>3. \E q : Go(p, q) /\ Same([q EXCEPT !.pc = @ + 1])
  <2>1. CASE Continue(p)
    <3>1. Same([r EXCEPT !.pc = @ + 1]) BY <1>1 DEF ProcOK, Holding
    <3> HIDE DEF Same
    <3> QED BY <2>1, <3>1 DEF Continue
  <2>2. CASE Go(p, [r EXCEPT !.head = None])
    <3>1. Same([[r EXCEPT !.head = None] EXCEPT !.pc = @ + 1]) BY <1>1 DEF ProcOK, Holding
    <3> HIDE DEF Same
    <3> QED BY <2>2, <3>1
  <2> QED BY <2>1, <2>2 DEF MissRef
<1>4. PICK q : Go(p, q) /\ Same([q EXCEPT !.pc = @ + 1]) BY <1>3
<1>5. /\ \A x \in Process \ {p} : proc'[x] = proc[x]
      /\ proc'[p] = Idle \/ Same(proc'[p])
  <2> HIDE DEF Same
  <2> QED BY <1>1, <1>4, GoStep
<1>6. r.pc \in Nat BY <1>1 DEF ProcOK, Holding
<1> QED BY <1>2, <1>5, <1>6

\* ... and from a log with all that it knows of the refs.
LogSteps == {"readRefLog", "readNameLog", "readHeadLog", "writeRefLog", "writeHeadLog"}

LEMMA LogMissOf ==
    ASSUME IInv, NEW p \in Process, MisreadLog(p) \/ MissLog(p)
    PROVE  /\ \A q \in Process \ {p} : proc'[q] = proc[q]
           /\ UNCHANGED fileVars
           /\ \E s \in LogSteps : At(p, s) /\ Order(s, proc[p].cmd, proc[p].pc)
           /\ \/ proc'[p] = Idle
              \/ /\ proc'[p].cmd = proc[p].cmd /\ proc'[p].pc = proc[p].pc + 1
                 /\ proc[p].pc \in Nat /\ proc'[p].arg = proc[p].arg
                 /\ proc'[p].merge = proc[p].merge /\ proc'[p].head = proc[p].head
                 /\ proc'[p].new = proc[p].new /\ proc'[p].old = proc[p].old
                 /\ proc[p].uses \subseteq proc'[p].uses
<1> DEFINE r == proc[p]
<1>1. ProcsOK /\ ProcOK(r, Ids) BY DEF IInv, ProcsOK
<1>2. UNCHANGED fileVars /\ \E s \in LogSteps : At(p, s) BY DEF MisreadLog, MissLog, LogSteps
<1> DEFINE Same(q) == /\ q.cmd = r.cmd /\ q.pc = r.pc + 1 /\ q.arg = r.arg
                      /\ q.merge = r.merge /\ q.head = r.head
                      /\ q.new = r.new /\ q.old = r.old /\ r.uses \subseteq q.uses
<1>3. \E q : Go(p, q) /\ Same([q EXCEPT !.pc = @ + 1])
  <2>1. CASE Continue(p)
    <3>1. Same([r EXCEPT !.pc = @ + 1]) BY <1>1 DEF ProcOK, Holding
    <3> HIDE DEF Same
    <3> QED BY <2>1, <3>1 DEF Continue
  <2>2. ASSUME NEW l, NEW U, Go(p, [r EXCEPT !.log = l, !.uses = @ \cup U])
        PROVE  \E q : Go(p, q) /\ Same([q EXCEPT !.pc = @ + 1])
    <3>1. Same([[r EXCEPT !.log = l, !.uses = @ \cup U] EXCEPT !.pc = @ + 1])
      BY <1>1 DEF ProcOK, Holding
    <3> HIDE DEF Same
    <3> QED BY <2>2, <3>1
  <2>3. CASE MisreadLog(p)
    <3>1. PICK n, k : Go(p, [r EXCEPT !.log = SubSeq(logs[n], 1, k), !.uses = @ \cup {Log(n)}])
      BY <2>3 DEF MisreadLog
    <3> HIDE DEF Same
    <3> QED BY <2>2, <3>1
  <2> HIDE DEF Same
  <2> QED BY <2>1, <2>3 DEF MissLog
<1>4. PICK q : Go(p, q) /\ Same([q EXCEPT !.pc = @ + 1]) BY <1>3
<1>5. /\ \A x \in Process \ {p} : proc'[x] = proc[x]
      /\ proc'[p] = Idle \/ Same(proc'[p])
  <2> HIDE DEF Same
  <2> QED BY <1>1, <1>4, GoStep
<1>6. r.pc \in Nat BY <1>1 DEF ProcOK, Holding
<1>7. \A s : At(p, s) => Order(s, r.cmd, r.pc) BY <1>1, AtOrder
<1> QED BY <1>2, <1>5, <1>6, <1>7

\* While no command had HEAD or a name change under it, HEAD leads to a commit
\* and every process is right about what it has read.
LEMMA CalmStep == ASSUME IInv, CalmInv, [Next]_vars PROVE CalmInv'
<1>1. CASE UNCHANGED vars
  BY <1>1 DEF vars, fileVars, history, CalmInv, Calm, HeadThere, HeadId
<1>2. ASSUME NEW p \in Process, Remember(p), Moves(p), Calm',
             HeadThere', Fresh(proc'[p], head', refs'),
             \A q \in Process \ {p} : proc'[q] = proc[q]
      PROVE  CalmInv'
  <2>1. ASSUME NEW q \in Process \ {p} PROVE Fresh(proc'[q], head', refs')
    <3>1. Calm BY <1>2, StillCalm
    <3>2. Fresh(proc[q], head, refs) /\ ProcOK(proc[q], Ids)
      BY <3>1 DEF CalmInv, IInv, ProcsOK
    <3>3. /\ Ref(HEAD) \in proc[q].uses => head' = head
          /\ \A b \in Branch : Ref(b) \in proc[q].uses =>
                 (refs'[b] = None <=> refs[b] = None)
      BY <1>2, RaceFree
    <3>4. Fresh(proc[q], head', refs') BY <3>2, <3>3, FreshStays
    <3> QED BY <1>2, <3>4
  <2> QED BY <1>2, <2>1 DEF CalmInv
<1>3. ASSUME NEW p \in Process, Remember(p), Moves(p)
      PROVE  CalmInv'
  <2> SUFFICES ASSUME Calm' PROVE CalmInv' BY DEF CalmInv
  <2>1. HeadThere /\ Fresh(proc[p], head, refs) BY <1>3, StillCalm DEF CalmInv
  <2>2. CASE Begin(p)
    <3>1. UNCHANGED fileVars BY <2>2 DEF Begin, Start
    <3>2. HeadThere' /\ Fresh(proc'[p], head', refs')
      BY <2>1, <2>2, <3>1, BeginFresh DEF fileVars, HeadThere, HeadId
    <3> QED BY <1>2, <1>3, <2>2, <3>2, BeginFresh
  <2>3. CASE Read(p)
    <3>1. UNCHANGED fileVars
      BY <2>3 DEF Read, ReadMergeHead, RefuseMerge, TakeMergeHead, ReadHead, ReadRef,
             ReadTarget, StatName, ReadRefLog, ReadNameLog, ReadHeadLog, ReadLog
    <3>2. HeadThere' /\ Fresh(proc'[p], head', refs')
      BY <2>1, <2>3, <3>1, ReadFresh DEF fileVars, HeadThere, HeadId
    <3> QED BY <1>2, <1>3, <2>1, <2>3, <3>2, ReadFresh
  <2>4. CASE Write(p) BY <1>2, <1>3, <2>1, <2>4, WriteFresh
  <2>5. CASE Crash(p)
    <3>1. UNCHANGED fileVars /\ proc' = [proc EXCEPT ![p] = Idle]
      BY <2>5 DEF Crash, Fail
    <3>2. proc'[p] = Idle /\ \A q \in Process \ {p} : proc'[q] = proc[q]
      BY <3>1 DEF IInv, ProcsOK
    <3>3. HeadThere' BY <2>1, <3>1 DEF fileVars, HeadThere, HeadId
    <3>4. Fresh(proc'[p], head', refs') BY <3>2, FreshIdle
    <3> QED BY <1>2, <1>3, <3>2, <3>3, <3>4
  <2>6. CASE Miss(p)
    <3>1. MisreadLog(p) \/ MissLog(p) BY <1>3, <2>6, StillMissed DEF Miss, Calm
    <3>2. UNCHANGED fileVars BY <3>1, LogMissOf
    <3>3. ASSUME proc'[p] # Idle PROVE Fresh(proc'[p], head, refs)
      <4>1. PICK s \in LogSteps : Order(s, proc[p].cmd, proc[p].pc) BY <3>1, LogMissOf
      <4>2. /\ proc'[p].cmd = proc[p].cmd /\ proc'[p].pc = proc[p].pc + 1
            /\ proc[p].pc \in Nat /\ proc'[p].arg = proc[p].arg
            /\ proc'[p].head = proc[p].head /\ proc'[p].old = proc[p].old
            /\ proc[p].uses \subseteq proc'[p].uses
        BY <3>1, <3>3, LogMissOf
      <4>3. s \notin {"readHead", "readRef", "readTarget", "statName", "writeName", "writeHead"}
        BY DEF LogSteps
      <4> QED BY <2>1, <4>1, <4>2, <4>3, FreshGoes
    <3>4. HeadThere' /\ Fresh(proc'[p], head', refs')
      BY <2>1, <3>2, <3>3, FreshIdle DEF fileVars, HeadThere, HeadId
    <3> QED BY <1>2, <1>3, <3>1, <3>4, LogMissOf
  <2> QED BY <1>3, <2>2, <2>3, <2>4, <2>5, <2>6 DEF Moves
<1> QED BY <1>1, <1>3 DEF Next, Moves
-------------------------------------------------------------------------------
(* Any repository at rest *)

\* Nothing runs, no id dangles, and HEAD leads to a commit once a branch does;
\* a merge may be under way.
AtRest ==
    /\ FilesOK /\ HeadThere
    /\ proc = [p \in Process |-> Idle]
    /\ raced = {} /\ missed = {} /\ settled \subseteq Reachable /\ discarded = {}

Running == AtRest /\ [][Next]_vars

\* The empty repository is one.
LEMMA InitAtRest == Init => AtRest
<1> SUFFICES ASSUME Init PROVE AtRest OBVIOUS
<1>1. FilesOK BY InitOK DEF IInv
<1>2. HeadThere BY DEF Init, HeadThere, Name
<1> QED BY <1>1, <1>2 DEF Init, AtRest

\* Its processes hold nothing.
LEMMA AtRestOK == AtRest => IInv /\ CalmInv
<1> SUFFICES ASSUME AtRest PROVE IInv /\ CalmInv OBVIOUS
<1>1. IInv BY IdleOK DEF AtRest, IInv, ProcsOK
<1>2. CalmInv BY FreshIdle DEF AtRest, CalmInv
<1> QED BY <1>1, <1>2

\* Whatever commands then run, overlap or die: HEAD leads to a commit at every
\* step, unless a file changed under a command that had read or written it, or
\* one that could not be read was taken for missing.
THEOREM HeadAlwaysResolves == Running => []HeadResolves
<1>1. AtRest => IInv /\ CalmInv
  BY AtRestOK
<1>2. IInv /\ CalmInv /\ [Next]_vars => IInv' /\ CalmInv'
  BY NextKeeps, CalmStep
<1>3. CalmInv => HeadResolves
  BY DEF CalmInv, Calm, HeadThere, HeadResolves
<1> QED BY <1>1, <1>2, <1>3, PTL DEF Running

\* The empty repository to begin with is one case of it.
LEMMA SpecRuns == Spec => Running
BY InitAtRest, PTL DEF Spec, Running
-------------------------------------------------------------------------------
(* What stays in reach *)

\* The objects from which s is reached.
Above(s) == {i \in Ids : s \in Ancestors(i)}

\* Objects link to older ones.
LEMMA ParentGraph == ASSUME ObjectsOK PROVE Graph(Parentage, Len(objects))
<1>1. /\ Len(objects) \in Nat /\ Ids = 1 .. Len(objects)
  BY IdsAreNaturals
<1>2. ASSUME NEW i \in Ids PROVE Parentage[i] \subseteq 1 .. i - 1
  <2>1. \A k \in DOMAIN objects[i].links :
            objects[i].links[k] # Nowhere => objects[i].links[k] \in 1 .. i - 1
    BY DEF ObjectsOK
  <2> QED BY <2>1 DEF Parentage, ToSet
<1>3. DOMAIN Parentage = 1 .. Len(objects) BY <1>1 DEF Parentage
<1> QED BY <1>1, <1>2, <1>3 DEF Graph

\* Objects are only added ...
LEMMA ObjectsGrow ==
    ASSUME [Next]_vars PROVE objects' = objects \/ \E o : objects' = Append(objects, o)
<1>1. CASE UNCHANGED vars BY <1>1 DEF vars, fileVars
<1>2. ASSUME NEW p \in Process, Begin(p) \/ Crash(p) \/ Read(p) \/ Miss(p)
      PROVE  objects' = objects
  BY <1>2 DEF Miss, MissRef, MisreadLog, MissLog, Begin, Start, Crash, Read, ReadMergeHead, RefuseMerge, TakeMergeHead, ReadHead,
         ReadRef, ReadTarget, StatName, ReadRefLog, ReadNameLog, ReadHeadLog, ReadLog, fileVars
<1>3. ASSUME NEW p \in Process, Write(p)
      PROVE  objects' = objects \/ \E o : objects' = Append(objects, o)
  <2>1. CASE WriteObject(p) BY <2>1 DEF WriteObject
  <2>2. CASE ~WriteObject(p)
    BY <1>3, <2>2 DEF Write, WriteRef, WriteHead, WriteName, RemoveName, RemoveRef,
           RemoveMergeHead, WriteRefLog, WriteNameLog, WriteHeadLog, WriteLog, fileVars
  <2> QED BY <2>1, <2>2
<1> QED BY <1>1, <1>2, <1>3 DEF Next

\* ... so what an object leads to, it leads to for good.
LEMMA Higher ==
    ASSUME IInv, [Next]_vars
    PROVE  Ids \subseteq Ids' /\ \A s : Above(s) \subseteq Above(s)'
<1>1. IInv' BY NextKeeps
<1>2. Graph(Parentage, Len(objects)) BY ParentGraph DEF IInv, FilesOK
<1>3. Graph(Parentage', Len(objects'))
  <2>1. (ObjectsOK => Graph(Parentage, Len(objects)))' BY ParentGraph, PTL
  <2> QED BY <1>1, <2>1 DEF IInv, FilesOK
<1>4. /\ Len(objects) \in Nat /\ Ids = 1 .. Len(objects)
      /\ Len(objects') \in Nat /\ Ids' = 1 .. Len(objects')
  BY <1>1 DEF IInv, FilesOK, ObjectsOK, Ids
<1>5. Len(objects) <= Len(objects') /\ \A i \in Ids : objects'[i] = objects[i]
  <2>1. objects \in Seq(Object) BY DEF IInv, FilesOK, ObjectsOK
  <2> QED BY <1>4, <2>1, ObjectsGrow
<1>6. Ids \subseteq Ids' BY <1>4, <1>5
<1>7. \A i \in 1 .. Len(objects) : Parentage'[i] = Parentage[i]
  BY <1>4, <1>5, <1>6 DEF Parentage
<1>8. ASSUME NEW i \in Ids PROVE AncestorsIn(Parentage', i) = AncestorsIn(Parentage, i)
  BY <1>2, <1>3, <1>4, <1>5, <1>7, AncestorsAgree
<1> QED BY <1>6, <1>8 DEF Above, Ancestors

\* A commit that is stored leads to what its process read as the parents.
Linked(r) ==
    r.cmd = "commit" /\ r.pc \in 6 .. 8 =>
        \A i \in {r.old, r.merge} \ {None} : r.new \in Above(i)

LinkInv == \A p \in Process : Linked(proc[p])

\* The ids of two that are there, as a sequence and as a set.
LEMMA PairSet ==
    ASSUME NEW a, NEW b
    PROVE  ToSet((IF a = None THEN <<>> ELSE <<a>>) \o (IF b = None THEN <<>> ELSE <<b>>))
               = {a, b} \ {None}
<1> DEFINE s == IF a = None THEN <<>> ELSE <<a>>
           t == IF b = None THEN <<>> ELSE <<b>>
<1>1. s \in Seq({a, b}) /\ t \in Seq({a, b})
  <2>1. <<>> \in Seq({a, b}) /\ <<a>> \in Seq({a, b}) /\ <<b>> \in Seq({a, b}) OBVIOUS
  <2> QED BY <2>1
<1>2. /\ Len(s) = IF a = None THEN 0 ELSE 1
      /\ Len(t) = IF b = None THEN 0 ELSE 1
      /\ a # None => s[1] = a 
      /\ b # None => t[1] = b
  OBVIOUS
<1> HIDE DEF s, t
<1>3. /\ DOMAIN (s \o t) = 1 .. Len(s) + Len(t)
      /\ \A k \in 1 .. Len(s) + Len(t) :
            (s \o t)[k] = IF k <= Len(s) THEN s[k] ELSE t[k - Len(s)]
  BY <1>1
<1>4. ToSet(s \o t) \subseteq {a, b} \ {None}
  BY <1>2, <1>3 DEF ToSet
<1>5. ASSUME a # None PROVE a \in ToSet(s \o t)
  <2>1. 1 \in DOMAIN (s \o t) /\ (s \o t)[1] = a BY <1>2, <1>3, <1>5
  <2> QED BY <2>1 DEF ToSet
<1>6. ASSUME b # None PROVE b \in ToSet(s \o t)
  <2>1. Len(s) + 1 \in DOMAIN (s \o t) /\ (s \o t)[Len(s) + 1] = b BY <1>2, <1>3, <1>6
  <2> QED BY <2>1 DEF ToSet
<1> QED BY <1>4, <1>5, <1>6 DEF s, t

\* The object that is written has the links of its command, and so leads to
\* them.
LEMMA NewLinks ==
    ASSUME IInv, [Next]_vars, NEW p \in Process, WriteObject(p), proc[p].cmd = "commit"
    PROVE  \A i \in {proc[p].old, proc[p].merge} \ {None} : Len(objects') \in Above(i)'
<1> DEFINE r == proc[p]
           n == Len(objects')
           one(id) == IF id = None THEN <<>> ELSE <<id>>
           links == one(r.old) \o one(r.merge)
<1>1. /\ objects \in Seq(Object) /\ ProcOK(r, Ids)
  BY DEF IInv, FilesOK, ObjectsOK, ProcsOK
<1>2. objects' = Append(objects, [type |-> "commit", links |-> links])
  BY DEF WriteObject
<1>3. n \in Ids' /\ objects'[n].links = links
  BY <1>1, <1>2 DEF Ids
<1>4. ASSUME NEW i \in {r.old, r.merge} \ {None} PROVE i \in Parentage'[n]
  <2>1. i \in ToSet(links) /\ i # Nowhere
    <3>1. i \in Ids /\ Nowhere \notin Ids
      BY <1>1, IdsAreNaturals DEF IInv, FilesOK, ProcOK, Holding
    <3> QED BY <3>1, <1>4, PairSet
  <2> HIDE DEF links
  <2> QED BY <1>3, <2>1 DEF Parentage
<1>5. IInv' BY NextKeeps
<1>6. Graph(Parentage', n) /\ n \in 1 .. n
  <2>1. (ObjectsOK => Graph(Parentage, Len(objects)))' BY ParentGraph, PTL
  <2>2. (ObjectsOK => Ids = 1 .. Len(objects))' BY IdsAreNaturals, PTL
  <2> QED BY <1>3, <1>5, <2>1, <2>2 DEF IInv, FilesOK
<1>7. ASSUME NEW i \in {r.old, r.merge} \ {None} PROVE i \in AncestorsIn(Parentage', n)
  <2>1. i \in Ids BY <1>1 DEF ProcOK, Holding
  <2>2. i \in 1 .. n
    <3>1. i \in Ids /\ Ids \subseteq Ids' BY <2>1, Higher
    <3>2. (ObjectsOK => Ids = 1 .. Len(objects))' BY IdsAreNaturals, PTL
    <3> QED BY <1>5, <3>1, <3>2 DEF IInv, FilesOK
  <2>3. i \in AncestorsIn(Parentage', i) BY <1>6, <2>2, AncestorsBelow
  <2>4. AncestorsIn(Parentage', n)
            = {n} \cup UNION {AncestorsIn(Parentage', q) : q \in Parentage'[n]}
    BY <1>6, AncestorsUnfold
  <2> QED BY <1>4, <2>3, <2>4
<1> QED BY <1>3, <1>7 DEF Above, Ancestors

\* What a step of process p makes of its record: it ends, or goes on with what
\* it read or wrote.
LEMMA StepOf ==
    ASSUME IInv, NEW p \in Process, Read(p) \/ Write(p)
    PROVE  /\ \A q \in Process \ {p} : proc'[q] = proc[q]
           /\ \/ proc'[p] = Idle
              \/ /\ proc'[p].cmd = proc[p].cmd /\ proc'[p].pc = proc[p].pc + 1
                 /\ proc'[p].arg = proc[p].arg
                 /\ proc[p].cmd # "none" /\ proc[p].pc \in Nat
                 /\ proc'[p].merge = proc[p].merge \/ At(p, "readMergeHead")
                                                   \/ At(p, "takeMergeHead")
                 /\ proc'[p].new = proc[p].new \/ At(p, "readTarget") \/ At(p, "writeObject")
                 /\ proc'[p].old = proc[p].old \/ At(p, "readRef")
                 /\ proc'[p].head = proc[p].head \/ At(p, "readHead")
                 /\ proc[p].uses \subseteq proc'[p].uses
<1> DEFINE r == proc[p]
<1>1. ProcsOK /\ ProcOK(r, Ids) BY DEF IInv, ProcsOK
<1>2. r.pc \in Nat BY <1>1 DEF ProcOK, Holding
<1>3. r.cmd # "none"
  BY DEF Read, ReadMergeHead, RefuseMerge, TakeMergeHead, ReadHead, ReadRef, ReadTarget,
         StatName, ReadRefLog, ReadNameLog, ReadHeadLog, Write, WriteObject, WriteRef,
         WriteHead, WriteName, RemoveName, RemoveRef, RemoveMergeHead, WriteRefLog,
         WriteNameLog, WriteHeadLog, At
<1> DEFINE Ok(q) == /\ q.cmd = r.cmd /\ q.pc = r.pc + 1 /\ q.arg = r.arg
                    /\ r.uses \subseteq q.uses
           Found(q) == /\ q.merge = r.merge \/ At(p, "readMergeHead") \/ At(p, "takeMergeHead")
                       /\ q.new = r.new \/ At(p, "readTarget") \/ At(p, "writeObject")
                       /\ q.old = r.old \/ At(p, "readRef")
                       /\ q.head = r.head \/ At(p, "readHead")
           Goal == /\ \A q \in Process \ {p} : proc'[q] = proc[q]
                   /\ proc'[p] = Idle \/ (Ok(proc'[p]) /\ Found(proc'[p]))
<1> SUFFICES Goal BY <1>2, <1>3
<1>4. ASSUME Fail(p) PROVE Goal
  <2>1. proc'[p] = Idle /\ \A q \in Process \ {p} : proc'[q] = proc[q]
    BY <1>1, <1>4 DEF Fail, ProcsOK
  <2> QED BY <2>1
<1>5. ASSUME NEW q, Go(p, q), Ok([q EXCEPT !.pc = @ + 1]), Found([q EXCEPT !.pc = @ + 1])
      PROVE  Goal
  <2>1. \A x \in Process \ {p} : proc'[x] = proc[x] BY <1>1, <1>5, GoStep
  <2>2. proc'[p] = Idle \/ proc'[p] = [q EXCEPT !.pc = @ + 1] BY <1>1, <1>5, GoStep
  <2> HIDE DEF Ok, Found
  <2> QED BY <1>5, <2>1, <2>2
<1>6. ASSUME Continue(p) PROVE Goal
  <2>1. Ok([r EXCEPT !.pc = @ + 1]) /\ Found([r EXCEPT !.pc = @ + 1])
    BY <1>1 DEF ProcOK, Holding
  <2> HIDE DEF Ok, Found
  <2> QED BY <1>5, <1>6, <2>1 DEF Continue
<1>7. ASSUME NEW n, ReadLog(p, n) PROVE Goal
  <2> DEFINE q == [r EXCEPT !.log = logs[n], !.uses = @ \cup {Log(n)}]
  <2>1. Ok([q EXCEPT !.pc = @ + 1]) /\ Found([q EXCEPT !.pc = @ + 1])
    BY <1>1 DEF ProcOK, Holding
  <2> HIDE DEF Ok, Found
  <2> QED BY <1>5, <1>7, <2>1 DEF ReadLog
<1>8. ASSUME At(p, "readMergeHead") \/ At(p, "takeMergeHead"),
             Go(p, [r EXCEPT !.merge = mergeHead])
      PROVE  Goal
  <2> DEFINE q == [r EXCEPT !.merge = mergeHead]
  <2>1. Ok([q EXCEPT !.pc = @ + 1]) /\ Found([q EXCEPT !.pc = @ + 1])
    BY <1>1, <1>8 DEF ProcOK, Holding
  <2> HIDE DEF Ok, Found
  <2> QED BY <1>5, <1>8, <2>1
<1>9. ASSUME At(p, "readHead"), NEW U, Go(p, [r EXCEPT !.head = head, !.uses = @ \cup U])
      PROVE  Goal
  <2> DEFINE q == [r EXCEPT !.head = head, !.uses = @ \cup U]
  <2>1. Ok([q EXCEPT !.pc = @ + 1]) /\ Found([q EXCEPT !.pc = @ + 1])
    BY <1>1, <1>9 DEF ProcOK, Holding
  <2> HIDE DEF Ok, Found
  <2> QED BY <1>5, <1>9, <2>1
<1>10. ASSUME At(p, "readRef"), NEW o, NEW U, Go(p, [r EXCEPT !.old = o, !.uses = @ \cup U])
       PROVE  Goal
  <2> DEFINE q == [r EXCEPT !.old = o, !.uses = @ \cup U]
  <2>1. Ok([q EXCEPT !.pc = @ + 1]) /\ Found([q EXCEPT !.pc = @ + 1])
    BY <1>1, <1>10 DEF ProcOK, Holding
  <2> HIDE DEF Ok, Found
  <2> QED BY <1>5, <1>10, <2>1
<1>11. ASSUME At(p, "readTarget"), NEW o, NEW U, Go(p, [r EXCEPT !.new = o, !.uses = @ \cup U])
       PROVE  Goal
  <2> DEFINE q == [r EXCEPT !.new = o, !.uses = @ \cup U]
  <2>1. Ok([q EXCEPT !.pc = @ + 1]) /\ Found([q EXCEPT !.pc = @ + 1])
    BY <1>1, <1>11 DEF ProcOK, Holding
  <2> HIDE DEF Ok, Found
  <2> QED BY <1>5, <1>11, <2>1
<1>12. ASSUME NEW U, Go(p, [r EXCEPT !.uses = @ \cup U]) PROVE Goal
  <2> DEFINE q == [r EXCEPT !.uses = @ \cup U]
  <2>1. Ok([q EXCEPT !.pc = @ + 1]) /\ Found([q EXCEPT !.pc = @ + 1])
    BY <1>1 DEF ProcOK, Holding
  <2> HIDE DEF Ok, Found
  <2> QED BY <1>5, <1>12, <2>1
<1>13. ASSUME At(p, "writeObject"), NEW n, Go(p, [r EXCEPT !.new = n]) PROVE Goal
  <2> DEFINE q == [r EXCEPT !.new = n]
  <2>1. Ok([q EXCEPT !.pc = @ + 1]) /\ Found([q EXCEPT !.pc = @ + 1])
    BY <1>1, <1>13 DEF ProcOK, Holding
  <2> HIDE DEF Ok, Found
  <2> QED BY <1>5, <1>13, <2>1
<1> HIDE DEF Goal, Ok, Found, r
<1>14. CASE Read(p)
  <2>1. ReadMergeHead(p) \/ TakeMergeHead(p) => Goal
    BY <1>4, <1>6, <1>8 DEF ReadMergeHead, TakeMergeHead, r
  <2>2. RefuseMerge(p) => Goal BY <1>4, <1>6 DEF RefuseMerge
  <2>3. ReadHead(p) => Goal BY <1>4, <1>9 DEF ReadHead, r
  <2>4. ReadRef(p) => Goal BY <1>4, <1>10 DEF ReadRef, r
  <2>5. ReadTarget(p) => Goal BY <1>4, <1>11 DEF ReadTarget, r
  <2>6. StatName(p) => Goal BY <1>4, <1>12 DEF StatName, r
  <2>7. ReadRefLog(p) \/ ReadNameLog(p) \/ ReadHeadLog(p) => Goal
    BY <1>6, <1>7 DEF ReadRefLog, ReadNameLog, ReadHeadLog
  <2> QED BY <1>14, <2>1, <2>2, <2>3, <2>4, <2>5, <2>6, <2>7 DEF Read
<1>15. CASE Write(p)
  <2>1. WriteObject(p) => Goal BY <1>13 DEF WriteObject, r
  <2>2. ~WriteObject(p) => Continue(p)
    BY <1>15 DEF Write, WriteRef, WriteHead, WriteName, RemoveName, RemoveRef,
           RemoveMergeHead, WriteRefLog, WriteNameLog, WriteHeadLog, WriteLog
  <2> QED BY <1>6, <2>1, <2>2
<1> QED BY <1>14, <1>15

\* The step a process is at is the one it takes.
LEMMA WhichStep ==
    ASSUME NEW p \in Process, Read(p) \/ Write(p)
    PROVE  /\ At(p, "readMergeHead") => ReadMergeHead(p)
           /\ At(p, "refuseMerge") => RefuseMerge(p)
           /\ At(p, "takeMergeHead") => TakeMergeHead(p)
           /\ At(p, "readHead") => ReadHead(p)
           /\ At(p, "readRef") => ReadRef(p)
           /\ At(p, "readTarget") => ReadTarget(p)
           /\ At(p, "statName") => StatName(p)
           /\ At(p, "readRefLog") => ReadRefLog(p)
           /\ At(p, "readNameLog") => ReadNameLog(p)
           /\ At(p, "readHeadLog") => ReadHeadLog(p)
           /\ At(p, "writeObject") => WriteObject(p)
           /\ At(p, "writeRef") => WriteRef(p)
           /\ At(p, "writeHead") => WriteHead(p)
           /\ At(p, "writeName") => WriteName(p)
           /\ At(p, "removeName") => RemoveName(p)
           /\ At(p, "removeRef") => RemoveRef(p)
           /\ At(p, "removeMergeHead") => RemoveMergeHead(p)
           /\ At(p, "writeRefLog") => WriteRefLog(p)
           /\ At(p, "writeNameLog") => WriteNameLog(p)
           /\ At(p, "writeHeadLog") => WriteHeadLog(p)
<1>1. \A s, t : At(p, s) /\ At(p, t) => s = t BY DEF At
<1>2. /\ ReadMergeHead(p) => At(p, "readMergeHead")
      /\ RefuseMerge(p) => At(p, "refuseMerge")
      /\ TakeMergeHead(p) => At(p, "takeMergeHead")
      /\ ReadHead(p) => At(p, "readHead")
      /\ ReadRef(p) => At(p, "readRef")
      /\ ReadTarget(p) => At(p, "readTarget")
      /\ StatName(p) => At(p, "statName")
      /\ ReadRefLog(p) => At(p, "readRefLog")
      /\ ReadNameLog(p) => At(p, "readNameLog")
      /\ ReadHeadLog(p) => At(p, "readHeadLog")
  BY DEF ReadMergeHead, RefuseMerge, TakeMergeHead, ReadHead, ReadRef, ReadTarget, StatName,
         ReadRefLog, ReadNameLog, ReadHeadLog
<1>3. /\ WriteObject(p) => At(p, "writeObject")
      /\ WriteRef(p) => At(p, "writeRef")
      /\ WriteHead(p) => At(p, "writeHead")
      /\ WriteName(p) => At(p, "writeName")
      /\ RemoveName(p) => At(p, "removeName")
      /\ RemoveRef(p) => At(p, "removeRef")
      /\ RemoveMergeHead(p) => At(p, "removeMergeHead")
      /\ WriteRefLog(p) => At(p, "writeRefLog")
      /\ WriteNameLog(p) => At(p, "writeNameLog")
      /\ WriteHeadLog(p) => At(p, "writeHeadLog")
  BY DEF WriteObject, WriteRef, WriteHead, WriteName, RemoveName, RemoveRef, RemoveMergeHead,
         WriteRefLog, WriteNameLog, WriteHeadLog
<1> QED BY <1>1, <1>2, <1>3 DEF Read, Write

\* What a process knows once it has read HEAD, a ref or a log.
LEMMA HasRead ==
    ASSUME IInv, NEW p \in Process, Read(p) \/ Write(p), proc'[p] # Idle
    PROVE  /\ At(p, "readHead") =>
                  proc'[p].head = head /\ Ref(HEAD) \in proc'[p].uses
           /\ At(p, "readRef") /\ proc[p].head \in Branch =>
                  proc'[p].old = refs[proc[p].head] /\ Ref(proc[p].head) \in proc'[p].uses
           /\ At(p, "readRefLog") /\ proc[p].head \in Branch =>
                  proc'[p].log = logs[proc[p].head] /\ Log(proc[p].head) \in proc'[p].uses
           /\ At(p, "readNameLog") =>
                  proc'[p].log = logs[proc[p].arg] /\ Log(proc[p].arg) \in proc'[p].uses
           /\ At(p, "readHeadLog") =>
                  proc'[p].log = logs[HEAD] /\ Log(HEAD) \in proc'[p].uses
           /\ At(p, "readMergeHead") => proc'[p].merge = mergeHead
           /\ At(p, "takeMergeHead") => proc'[p].merge \in {proc[p].merge, mergeHead}
<1> DEFINE r == proc[p]
<1>1. ProcsOK /\ ProcOK(r, Ids) BY DEF IInv, ProcsOK
<1>2. ~Fail(p)
  <2>1. Fail(p) => proc'[p] = Idle BY <1>1 DEF Fail, ProcsOK
  <2> QED BY <2>1
<1>3. ASSUME NEW q, Go(p, q) PROVE proc'[p] = [q EXCEPT !.pc = @ + 1]
  BY <1>1, <1>3, GoStep
<1>4. ASSUME NEW n, ReadLog(p, n)
      PROVE  proc'[p].log = logs[n] /\ Log(n) \in proc'[p].uses
  <2>1. proc'[p] = [[r EXCEPT !.log = logs[n], !.uses = @ \cup {Log(n)}] EXCEPT !.pc = @ + 1]
    BY <1>3, <1>4 DEF ReadLog
  <2> QED BY <1>1, <2>1 DEF ProcOK, Holding
<1>5. ASSUME ReadHead(p) PROVE proc'[p].head = head /\ Ref(HEAD) \in proc'[p].uses
  <2>1. proc'[p] = [[r EXCEPT !.head = head, !.uses = @ \cup {Ref(HEAD)}] EXCEPT !.pc = @ + 1]
    BY <1>2, <1>3, <1>5 DEF ReadHead
  <2> QED BY <1>1, <2>1 DEF ProcOK, Holding
<1>6. ASSUME ReadRef(p), r.head \in Branch
      PROVE  proc'[p].old = refs[r.head] /\ Ref(r.head) \in proc'[p].uses
  <2>1. proc'[p] = [[r EXCEPT !.old = refs[r.head], !.uses = @ \cup {Ref(r.head)}]
                       EXCEPT !.pc = @ + 1]
    BY <1>2, <1>3, <1>6 DEF ReadRef
  <2> QED BY <1>1, <2>1 DEF ProcOK, Holding
<1>7. ASSUME Go(p, [r EXCEPT !.merge = mergeHead]) PROVE proc'[p].merge = mergeHead
  <2>1. proc'[p] = [[r EXCEPT !.merge = mergeHead] EXCEPT !.pc = @ + 1] BY <1>3, <1>7
  <2> QED BY <1>1, <2>1 DEF ProcOK, Holding
<1>8. ASSUME Continue(p) PROVE proc'[p].merge = r.merge
  <2>1. proc'[p] = [r EXCEPT !.pc = @ + 1] BY <1>3, <1>8 DEF Continue
  <2> QED BY <1>1, <2>1 DEF ProcOK, Holding
<1> HIDE DEF r
<1>9. At(p, "readHead") => proc'[p].head = head /\ Ref(HEAD) \in proc'[p].uses
  BY <1>5, WhichStep
<1>10. At(p, "readRef") /\ r.head \in Branch =>
           proc'[p].old = refs[r.head] /\ Ref(r.head) \in proc'[p].uses
  BY <1>6, WhichStep
<1>11. At(p, "readRefLog") /\ r.head \in Branch =>
           proc'[p].log = logs[r.head] /\ Log(r.head) \in proc'[p].uses
  BY <1>4, WhichStep DEF ReadRefLog, r
<1>12. At(p, "readNameLog") => proc'[p].log = logs[r.arg] /\ Log(r.arg) \in proc'[p].uses
  BY <1>4, WhichStep DEF ReadNameLog, r
<1>13. At(p, "readHeadLog") => proc'[p].log = logs[HEAD] /\ Log(HEAD) \in proc'[p].uses
  BY <1>4, WhichStep DEF ReadHeadLog
<1>14. /\ At(p, "readMergeHead") => proc'[p].merge = mergeHead
       /\ At(p, "takeMergeHead") => proc'[p].merge \in {r.merge, mergeHead}
  BY <1>2, <1>7, <1>8, WhichStep DEF ReadMergeHead, TakeMergeHead, r
<1> QED BY <1>9, <1>10, <1>11, <1>12, <1>13, <1>14 DEF r

\* A command that begins or dies has not come to what counts here.
LEMMA BeginOf ==
    ASSUME IInv, NEW p \in Process, Begin(p) \/ Crash(p)
    PROVE  /\ \A q \in Process \ {p} : proc'[q] = proc[q]
           /\ proc'[p] = Idle \/ (proc'[p].pc = 1 /\ proc[p] = Idle)
           /\ UNCHANGED fileVars
<1>1. ProcsOK BY DEF IInv
<1>2. CASE Begin(p)
  <2>1. ASSUME NEW c, NEW a, NEW n, Start(p, c, a, n)
        PROVE  /\ \A q \in Process \ {p} : proc'[q] = proc[q]
               /\ proc'[p].pc = 1 /\ proc[p] = Idle
               /\ UNCHANGED fileVars
    <3> DEFINE q == [Idle EXCEPT !.cmd = c, !.arg = a, !.new = n]
    <3>1. q.pc = 1 BY DEF Idle
    <3> HIDE DEF q
    <3>2. proc' = [proc EXCEPT ![p] = q] /\ proc[p] = Idle /\ UNCHANGED fileVars
      BY <2>1 DEF Start, q
    <3> QED BY <1>1, <3>1, <3>2 DEF ProcsOK
  <2> QED BY <1>2, <2>1 DEF Begin
<1>3. CASE Crash(p) BY <1>1, <1>3 DEF Crash, Fail, ProcsOK
<1> QED BY <1>2, <1>3

\* Every step keeps what a stored commit leads to.
LEMMA LinkStep == ASSUME IInv, LinkInv, [Next]_vars PROVE LinkInv'
<1>1. ASSUME NEW q \in Process, proc'[q] = proc[q] PROVE Linked(proc[q])'
  BY <1>1, Higher DEF LinkInv, Linked
<1>2. CASE UNCHANGED vars BY <1>1, <1>2 DEF vars, LinkInv
<1>3. ASSUME NEW p \in Process, Begin(p) \/ Crash(p) PROVE LinkInv'
  <2>1. Linked(proc[p])' BY <1>3, BeginOf DEF Linked, Idle
  <2> QED BY <1>1, <1>3, <2>1, BeginOf DEF LinkInv
<1>4. ASSUME NEW p \in Process, Read(p) \/ Write(p) PROVE LinkInv'
  <2> DEFINE r == proc[p]
  <2> SUFFICES Linked(proc[p])' BY <1>1, <1>4, StepOf DEF LinkInv
  <2>1. ProcsOK /\ ProcOK(r, Ids) BY DEF IInv, ProcsOK
  <2>2. \A s : At(p, s) => Order(s, r.cmd, r.pc) BY <2>1, AtOrder
  <2>3. CASE proc'[p] = Idle BY <2>3 DEF Linked, Idle
  <2>4. CASE /\ proc'[p].cmd = "commit" /\ proc'[p].pc = r.pc + 1
             /\ r.cmd = "commit" /\ r.pc \in Nat /\ r.pc = 5
    <3>1. At(p, "writeObject")
      <4>1. Program["commit"][5] = "writeObject" BY DEF Program, CommitSteps
      <4> QED BY <2>4, <4>1 DEF At
    <3>2. WriteObject(p) BY <1>4, <3>1, WhichStep
    <3> DEFINE q == [r EXCEPT !.new = Len(objects')]
               q2 == [q EXCEPT !.pc = @ + 1]
    <3>3. q2.old = r.old /\ q2.merge = r.merge /\ q2.new = Len(objects')
      BY <2>1 DEF ProcOK, Holding
    <3> HIDE DEF q2
    <3>4. proc'[p] = Idle \/ proc'[p] = q2 BY <2>1, <3>2, GoStep DEF WriteObject, q2
    <3>5. \A i \in {r.old, r.merge} \ {None} : Len(objects') \in Above(i)'
      BY <2>4, <3>2, NewLinks
    <3>6. CASE proc'[p] = Idle BY <3>6 DEF Linked, Idle
    <3>7. CASE proc'[p] = q2 BY <3>3, <3>5, <3>7 DEF Linked
    <3> QED BY <3>4, <3>6, <3>7
  <2>5. CASE /\ proc'[p].cmd = r.cmd /\ proc'[p].pc = r.pc + 1 /\ r.pc \in Nat
             /\ r.cmd # "commit" \/ r.pc # 5
             /\ proc'[p].merge = r.merge \/ At(p, "readMergeHead") \/ At(p, "takeMergeHead")
             /\ proc'[p].new = r.new \/ At(p, "readTarget") \/ At(p, "writeObject")
             /\ proc'[p].old = r.old \/ At(p, "readRef")
    <3>1. SUFFICES ASSUME r.cmd = "commit", r.pc = 6 \/ r.pc = 7 PROVE Linked(proc[p])'
      BY <2>5 DEF Linked
    <3>2. proc'[p].merge = r.merge /\ proc'[p].new = r.new /\ proc'[p].old = r.old
      BY <2>2, <2>5, <3>1 DEF Order
    <3> QED BY <2>5, <3>1, <3>2, Higher DEF LinkInv, Linked
  <2> QED BY <1>4, <2>3, <2>4, <2>5, StepOf DEF Linked
<1>5. ASSUME NEW p \in Process, Miss(p) PROVE LinkInv'
  <2> DEFINE r == proc[p]
  <2>1. /\ \A q \in Process \ {p} : proc'[q] = proc[q]
        /\ \/ proc'[p] = Idle
           \/ /\ proc'[p].cmd = r.cmd /\ proc'[p].pc = r.pc + 1 /\ r.pc \in Nat
              /\ proc'[p].merge = r.merge /\ proc'[p].new = r.new /\ proc'[p].old = r.old
              /\ \E s : At(p, s) /\ s # "writeObject"
    BY <1>5, RefMissOf, LogMissOf DEF Miss, LogSteps
  <2> SUFFICES Linked(proc[p])' BY <1>1, <2>1 DEF LinkInv
  <2>2. CASE proc'[p] = Idle BY <2>2 DEF Linked, Idle
  <2>3. CASE proc'[p] # Idle
    <3>1. ~ (r.cmd = "commit" /\ r.pc = 5)
      <4>1. Program["commit"][5] = "writeObject" BY DEF Program, CommitSteps
      <4> QED BY <2>1, <2>3, <4>1 DEF At
    <3> QED BY <2>1, <2>3, <3>1, Higher DEF LinkInv, Linked
  <2> QED BY <2>2, <2>3
<1> QED BY <1>2, <1>3, <1>4, <1>5 DEF Next

\* No process is about to take the ref n off the objects in S.
Spared(r, n, S) ==
    /\ r.head = n /\ ((r.cmd = "commit" /\ r.pc \in 4 .. 7) \/ (r.cmd = "rename" /\ r.pc = 4))
           => r.old \in S
    /\ ~ (r.head = n /\ r.cmd = "rename" /\ r.pc > 4)

\* Commit s stays in reach of the branch or tag n, whatever the processes that
\* run have read of it ...
Firm(n, s) == refs[n] \in Above(s) /\ \A p \in Process : Spared(proc[p], n, Above(s))

\* ... or is in reach of a detached HEAD.
Kept(s) == (\E n \in Name : Firm(n, s)) \/ head \in Above(s)

KeptInv == Calm => \A s \in settled : Kept(s)

\* A process whose step does not move the name stays that harmless.
LEMMA SparedGoes ==
    ASSUME IInv, [Next]_vars, NEW p \in Process, Read(p) \/ Write(p),
           Fresh(proc[p], head, refs), NEW n \in Name, NEW s, Firm(n, s),
           ~ (At(p, "writeName") /\ proc[p].cmd = "rename" /\ proc[p].head = n)
    PROVE  Spared(proc'[p], n, Above(s)')
<1> DEFINE r == proc[p]
           r2 == proc'[p]
<1>1. ProcOK(r, Ids) BY DEF IInv, ProcsOK
<1>2. \A t : At(p, t) => Order(t, r.cmd, r.pc) BY AtOrder DEF IInv
<1>3. Spared(r, n, Above(s)) BY DEF Firm
<1>4. CASE r2 = Idle BY <1>4 DEF Spared, Idle
<1>5. CASE /\ r2 # Idle /\ r2.cmd = r.cmd /\ r2.pc = r.pc + 1 /\ r.pc \in Nat
           /\ r2.old = r.old \/ At(p, "readRef")
           /\ r2.head = r.head \/ At(p, "readHead")
  <2>1. ASSUME r2.cmd = "commit", r2.pc \in 4 .. 7, r2.head = n
        PROVE  r2.old \in Above(s)
    <3>1. r.cmd = "commit" /\ r.pc \in 3 .. 6 BY <1>5, <2>1
    <3>2. r.head = head BY <3>1 DEF Fresh, HeadHeld
    <3>3. r.head = n BY <1>5, <2>1, <3>2, HasRead
    <3>4. CASE r.pc # 3
      <4>1. ~At(p, "readRef") BY <1>2, <3>1, <3>4 DEF Order
      <4> QED BY <1>3, <1>5, <3>1, <3>3, <3>4, <4>1 DEF Spared
    <3>5. CASE r.pc = 3
      <4>1. At(p, "readRef")
        <5>1. Program["commit"][3] = "readRef" BY DEF Program, CommitSteps
        <5> QED BY <3>1, <3>5, <5>1 DEF At
      <4>2. n \in Branch
        <5>1. head \in Branch \cup Ids /\ Ids \subseteq Nat
          BY IdsAreNaturals DEF IInv, FilesOK, HeadOK
        <5> QED BY <3>2, <3>3, <5>1, RefAssumption DEF Name
      <4> QED BY <1>5, <3>3, <4>1, <4>2, HasRead DEF Firm
    <3> QED BY <3>4, <3>5
  <2>2. ASSUME r2.cmd = "rename", r2.pc = 4, r2.head = n PROVE r2.old \in Above(s)
    <3>1. r.cmd = "rename" /\ r.pc = 3 BY <1>5, <2>2
    <3>2. At(p, "readRef")
      <4>1. Program["rename"][3] = "readRef" BY DEF Program, RenameSteps
      <4> QED BY <3>1, <4>1 DEF At
    <3>3. ~At(p, "readHead") BY <1>2, <3>1 DEF Order
    <3>4. r.head = n /\ r.head \in Branch BY <1>5, <2>2, <3>1, <3>3 DEF Fresh
    <3> QED BY <1>5, <3>2, <3>4, HasRead DEF Firm
  <2>3. ASSUME r2.cmd = "rename", r2.pc > 4, r2.head = n PROVE FALSE
    <3>1. r.cmd = "rename" /\ r.pc > 3 BY <1>5, <2>3
    <3>2. ~At(p, "readHead") BY <1>2, <3>1 DEF Order
    <3>3. r.head = n BY <1>5, <2>3, <3>2
    <3>4. r.pc = 4 BY <1>3, <1>5, <3>1, <3>3 DEF Spared
    <3>5. At(p, "writeName")
      <4>1. Program["rename"][4] = "writeName" BY DEF Program, RenameSteps
      <4> QED BY <3>1, <3>4, <4>1 DEF At
    <3> QED BY <3>1, <3>3, <3>5
  <2>4. Spared(r2, n, Above(s)) BY <2>1, <2>2, <2>3 DEF Spared
  <2> QED BY <2>4, Higher DEF Spared
<1> QED BY <1>4, <1>5, StepOf

\* So the commit stays in reach of the name, if what is written to it, too,
\* leads to the commit.
LEMMA FirmStays ==
    ASSUME IInv, [Next]_vars, NEW p \in Process, NEW n \in Name, NEW s, Firm(n, s),
           \A q \in Process \ {p} : proc'[q] = proc[q], Spared(proc'[p], n, Above(s)'),
           refs'[n] = refs[n] \/ refs'[n] \in Above(s)'
    PROVE  Firm(n, s)'
<1>1. Above(s) \subseteq Above(s)' BY Higher
<1>2. ASSUME NEW q \in Process PROVE Spared(proc'[q], n, Above(s)')
  <2>1. CASE q = p BY <2>1
  <2>2. CASE q # p BY <1>1, <2>2 DEF Firm, Spared
  <2> QED BY <2>1, <2>2
<1>3. refs'[n] \in Above(s)' BY <1>1 DEF Firm
<1> QED BY <1>2, <1>3 DEF Firm

\* Reach composes.
LEMMA HigherStill ==
    ASSUME IInv, NEW s, NEW i \in Above(s), NEW j \in Above(i) PROVE j \in Above(s)
<1>1. Graph(Parentage, Len(objects)) /\ Ids = 1 .. Len(objects)
  BY ParentGraph, IdsAreNaturals DEF IInv, FilesOK
<1>2. j \in 1 .. Len(objects) /\ i \in AncestorsIn(Parentage, j) BY <1>1 DEF Above, Ancestors
<1>3. AncestorsIn(Parentage, i) \subseteq AncestorsIn(Parentage, j)
  BY <1>1, <1>2, AncestorsTransitive
<1> QED BY <1>1, <1>2, <1>3 DEF Above, Ancestors

\* What a discarding step does not give up, a name it writes or HEAD leads to.
LEMMA NotGivenUp ==
    ASSUME NEW s, s \notin GivenUp,
           \/ \E n \in Name : refs'[n] # refs[n] /\ refs[n] \in Above(s)
           \/ head \notin Branch /\ head \in Above(s)
    PROVE  \/ \E n \in Name : refs'[n] # refs[n] /\ refs'[n] \in Above(s)
           \/ head' \in Above(s)
<1> DEFINE changed == {n \in Name : refs'[n] # refs[n]}
           from == {refs[n] : n \in changed} \cup ({head} \ Branch)
           to == {refs'[n] : n \in changed} \cup ({head'} \ Branch)
<1>1. \A X : s \in AncestorsOf(X) <=> \E i \in X : i \in Above(s) BY DEF AncestorsOf, Above
<1>2. \E i \in from : i \in Above(s) OBVIOUS
<1>3. s \in AncestorsOf(from)
  <2> HIDE DEF from
  <2> QED BY <1>1, <1>2
<1>4. GivenUp = AncestorsOf(from) \ AncestorsOf(to) BY DEF GivenUp
<1>5. s \in AncestorsOf(to)
  <2> HIDE DEF from, to
  <2> QED BY <1>3, <1>4
<1>6. PICK i \in to : i \in Above(s)
  <2> HIDE DEF to
  <2> QED BY <1>1, <1>5
<1> QED BY <1>6

\* A write keeps in reach what it is not meant to give up.
LEMMA WriteKept ==
    ASSUME IInv, LinkInv, [Next]_vars, \A q \in Process : Fresh(proc[q], head, refs),
           NEW p \in Process, Write(p), NEW s, Kept(s), Discards(p) => s \notin GivenUp
    PROVE  Kept(s)'
<1> DEFINE r == proc[p]
<1>1. /\ RefsOK /\ HeadOK /\ ProcsOK /\ Above(s) \subseteq Ids
      /\ Ids \subseteq Nat /\ None \notin Ids
      /\ Above(s) \subseteq Above(s)'
  <2>1. RefsOK /\ HeadOK /\ ProcsOK /\ ObjectsOK BY DEF IInv, FilesOK
  <2> QED BY <2>1, IdsAreNaturals, Higher DEF Above
<1>2. ASSUME NEW t, At(p, t)
      PROVE  /\ Holding(r, Ids) /\ Knowing(r, r.pc, Ids)
             /\ r.cmd \in Cmds /\ r.pc \in Nat /\ Order(t, r.cmd, r.pc)
  BY <1>1, <1>2, AtOrder
<1>3. Fresh(r, head, refs) OBVIOUS
<1>4. ASSUME NEW n \in Name, Firm(n, s), refs'[n] = refs[n] \/ refs'[n] \in Above(s),
             ~ (At(p, "writeName") /\ r.cmd = "rename" /\ r.head = n)
      PROVE  Kept(s)'
  <2>1. Spared(proc'[p], n, Above(s)') BY <1>3, <1>4, SparedGoes
  <2>2. \A q \in Process \ {p} : proc'[q] = proc[q] BY StepOf
  <2>3. Firm(n, s)' BY <1>1, <1>4, <2>1, <2>2, FirmStays
  <2> QED BY <2>3 DEF Kept
<1>5. ASSUME head' \in Above(s) PROVE Kept(s)' BY <1>1, <1>5 DEF Kept
<1>6. CASE UNCHANGED <<refs, head>> /\ ~At(p, "writeName")
  <2>1. CASE head \in Above(s) BY <1>5, <1>6, <2>1
  <2>2. ASSUME NEW n \in Name, Firm(n, s) PROVE Kept(s)' BY <1>4, <1>6, <2>2
  <2> QED BY <2>1, <2>2 DEF Kept
<1>7. CASE WriteRef(p)
  <2>1. /\ At(p, "writeRef") /\ Order("writeRef", r.cmd, r.pc) /\ Holding(r, Ids)
    BY <1>2, <1>7 DEF WriteRef
  <2>2. r.head = head /\ ~At(p, "writeName")
    BY <1>3, <2>1 DEF Order, Fresh, HeadHeld, At
  <2>3. IF head \in Branch
        THEN refs' = [refs EXCEPT ![head] = r.new] /\ head' = head
        ELSE head' = r.new /\ refs' = refs
    BY <1>7, <2>2 DEF WriteRef
  <2>4. \A n \in Name : n # head \/ head \notin Branch => refs'[n] = refs[n]
    BY <1>1, <2>3 DEF RefsOK
  <2>5. CASE r.cmd = "commit"
    <3>1. r.pc = 7 BY <2>1, <2>5 DEF Order
    <3>2. ASSUME r.old \in Above(s) PROVE r.new \in Above(s)
      <4>1. r.old # None BY <1>1, <3>2
      <4>2. r.new \in Above(r.old) BY <2>5, <3>1, <4>1 DEF LinkInv, Linked
      <4> QED BY <3>2, <4>2, HigherStill
    <3>3. CASE head \in Above(s)
      <4>1. head \notin Branch BY <1>1, <3>3, RefAssumption
      <4>2. r.old = head BY <1>3, <2>2, <2>5, <3>1, <4>1 DEF Fresh
      <4> QED BY <1>5, <2>3, <3>2, <3>3, <4>1, <4>2
    <3>4. ASSUME NEW n \in Name, Firm(n, s) PROVE Kept(s)'
      <4>1. CASE n # head \/ head \notin Branch BY <1>4, <2>2, <2>4, <3>4, <4>1
      <4>2. CASE n = head /\ head \in Branch
        <5>1. r.old \in Above(s) BY <2>2, <2>5, <3>1, <3>4, <4>2 DEF Firm, Spared
        <5>2. refs'[n] = r.new BY <1>1, <2>3, <4>2 DEF RefsOK
        <5> QED BY <1>4, <2>2, <3>2, <3>4, <5>1, <5>2
      <4> QED BY <4>1, <4>2
    <3> QED BY <3>3, <3>4 DEF Kept
  <2>6. CASE r.cmd = "amend" \/ r.cmd = "reset"
    <3>1. s \notin GivenUp BY <2>1, <2>6 DEF Discards
    <3>2. CASE head \in Above(s)
      <4>1. head \notin Branch BY <1>1, <3>2, RefAssumption
      <4> QED BY <1>5, <2>3, <3>1, <3>2, <4>1, NotGivenUp
    <3>3. ASSUME NEW n \in Name, Firm(n, s) PROVE Kept(s)'
      <4>1. CASE refs'[n] = refs[n] BY <1>4, <2>2, <3>3, <4>1
      <4>2. CASE refs'[n] # refs[n]
        <5>1. \/ \E m \in Name : refs'[m] # refs[m] /\ refs'[m] \in Above(s)
              \/ head' \in Above(s)
          BY <3>1, <3>3, <4>2, NotGivenUp DEF Firm
        <5>2. \A m \in Name : refs'[m] # refs[m] => m = n BY <2>4, <4>2
        <5> QED BY <1>4, <1>5, <2>2, <3>3, <5>1, <5>2
      <4> QED BY <4>1, <4>2
    <3> QED BY <3>2, <3>3 DEF Kept
  <2> QED BY <2>1, <2>5, <2>6 DEF Order
<1>8. CASE WriteHead(p)
  <2>1. /\ At(p, "writeHead") /\ Order("writeHead", r.cmd, r.pc) /\ refs' = refs
        /\ ~At(p, "writeName")
    BY <1>2, <1>8 DEF WriteHead, At
  <2>2. r.head = head BY <1>3, <2>1 DEF Order, Fresh, HeadHeld
  <2>3. CASE head \in Above(s)
    <3>1. head \notin Branch BY <1>1, <2>3, RefAssumption
    <3>2. s \notin GivenUp BY <2>1, <2>2, <3>1 DEF Discards
    <3> QED BY <1>5, <2>1, <2>3, <3>1, <3>2, NotGivenUp
  <2>4. ASSUME NEW n \in Name, Firm(n, s) PROVE Kept(s)' BY <1>4, <2>1, <2>4
  <2> QED BY <2>3, <2>4 DEF Kept
<1>9. CASE RemoveRef(p)
  <2>1. /\ Order("removeRef", r.cmd, r.pc) /\ refs' = [refs EXCEPT ![r.head] = None]
        /\ ~At(p, "writeName") /\ head' = head
    BY <1>2, <1>9 DEF RemoveRef, At
  <2>2. CASE head \in Above(s) BY <1>5, <2>1, <2>2
  <2>3. ASSUME NEW n \in Name, Firm(n, s) PROVE Kept(s)'
    <3>1. n # r.head BY <2>1, <2>3 DEF Order, Firm, Spared
    <3>2. refs'[n] = refs[n] BY <1>1, <2>1, <3>1 DEF RefsOK
    <3> QED BY <1>4, <2>1, <2>3, <3>2
  <2> QED BY <2>2, <2>3 DEF Kept
<1>10. CASE RemoveName(p)
  <2>1. /\ s \notin GivenUp /\ refs' = [refs EXCEPT ![r.arg] = None]
        /\ ~At(p, "writeName") /\ head' = head
    BY <1>10 DEF RemoveName, At, Discards
  <2>2. CASE head \in Above(s) BY <1>5, <2>1, <2>2
  <2>3. ASSUME NEW n \in Name, Firm(n, s) PROVE Kept(s)'
    <3>1. CASE refs'[n] = refs[n] BY <1>4, <2>1, <2>3, <3>1
    <3>2. CASE refs'[n] # refs[n]
      <4>1. \/ \E m \in Name : refs'[m] # refs[m] /\ refs'[m] \in Above(s)
            \/ head' \in Above(s)
        BY <2>1, <2>3, <3>2, NotGivenUp DEF Firm
      <4>2. \A m \in Name : refs'[m] # refs[m] => refs'[m] = None BY <1>1, <2>1 DEF RefsOK
      <4> QED BY <1>1, <1>5, <4>1, <4>2
    <3> QED BY <3>1, <3>2
  <2> QED BY <2>2, <2>3 DEF Kept
<1>11. CASE WriteName(p)
  <2> DEFINE id == IF r.arg \in Tag THEN r.new ELSE r.old
  <2>1. /\ At(p, "writeName") /\ Order("writeName", r.cmd, r.pc)
        /\ Knowing(r, r.pc, Ids)
        /\ refs' = [refs EXCEPT ![r.arg] = id] /\ head' = head
    BY <1>2, <1>11 DEF WriteName
  <2>2. \A m \in Name : m # r.arg => refs'[m] = refs[m] BY <1>1, <2>1 DEF RefsOK
  <2>3. CASE head \in Above(s) BY <1>5, <2>1, <2>3
  <2>4. ASSUME NEW n \in Name, Firm(n, s), r.cmd = "tag" \/ r.cmd = "annotate"
        PROVE  Kept(s)'
    <3>1. s \notin GivenUp BY <2>1, <2>4 DEF Knowing, Discards
    <3>2. CASE refs'[n] = refs[n] BY <1>4, <2>4, <3>2
    <3>3. CASE refs'[n] # refs[n]
      <4>1. \/ \E m \in Name : refs'[m] # refs[m] /\ refs'[m] \in Above(s)
            \/ head' \in Above(s)
        BY <2>4, <3>1, <3>3, NotGivenUp DEF Firm
      <4>2. \A m \in Name : refs'[m] # refs[m] => m = n BY <2>2, <3>3
      <4> QED BY <1>4, <1>5, <2>4, <4>1, <4>2
    <3> QED BY <3>2, <3>3
  <2>5. ASSUME NEW n \in Name, Firm(n, s), r.cmd = "create" \/ r.cmd = "rename",
               r.cmd # "rename" \/ r.head # n
        PROVE  Kept(s)'
    <3>1. r.pc = 4 BY <2>1, <2>5 DEF Order
    <3>2. refs[r.arg] = None BY <1>3, <2>5, <3>1 DEF Fresh
    <3>3. n # r.arg BY <1>1, <2>5, <3>2 DEF Firm
    <3> QED BY <1>4, <2>2, <2>5, <3>3
  <2>6. ASSUME NEW n \in Name, Firm(n, s), r.cmd = "rename", r.head = n PROVE Kept(s)'
    <3>1. r.pc = 4 /\ r.arg \in Branch /\ r.arg \notin Tag
      BY <2>1, <2>6, RefAssumption DEF Order, Knowing
    <3>2. r.old \in Above(s) BY <2>6, <3>1 DEF Firm, Spared
    <3>3. refs'[r.arg] \in Above(s)' BY <1>1, <2>1, <3>1, <3>2 DEF RefsOK, Name
    <3>4. r.head = head /\ r.arg # head /\ refs[r.arg] = None
      BY <1>3, <2>6, <3>1 DEF Fresh, HeadHeld
    \* No other process has to do with the new name.
    <3>5. ASSUME NEW q \in Process \ {p} PROVE Spared(proc'[q], r.arg, Above(s)')
      <4>1. proc'[q] = proc[q] /\ Fresh(proc[q], head, refs) BY StepOf
      <4>2. ProcOK(proc[q], Ids) BY <1>1 DEF ProcsOK
      <4>3. proc[q].pc \in Nat BY <4>2 DEF ProcOK, Holding
      <4>4. CASE HeadHeld(proc[q].cmd, proc[q].pc)
        <5>1. proc[q].head # r.arg BY <3>4, <4>1, <4>4 DEF Fresh
        <5> QED BY <4>1, <5>1 DEF Spared
      <4>5. CASE ~HeadHeld(proc[q].cmd, proc[q].pc)
        <5>1. proc[q].cmd = "rename" /\ proc[q].pc > 4 => refs[proc[q].head] # None
          BY <4>1, <4>3 DEF Fresh
        <5> QED BY <3>4, <4>1, <4>3, <4>5, <5>1 DEF Spared, HeadHeld
      <4> QED BY <4>4, <4>5
    <3>6. Spared(proc'[p], r.arg, Above(s)')
      <4>1. ~At(p, "readHead") BY <2>1 DEF At
      <4>2. proc'[p] = Idle \/ proc'[p].head = r.head BY <4>1, StepOf
      <4> QED BY <3>4, <4>2 DEF Spared, Idle
    <3>7. \A q \in Process : Spared(proc'[q], r.arg, Above(s)') BY <3>5, <3>6
    <3>8. PICK a \in Name : a = r.arg BY <3>1 DEF Name
    <3>9. Firm(a, s)' BY <3>3, <3>7, <3>8 DEF Firm
    <3> QED BY <3>9 DEF Kept
  <2> QED BY <2>1, <2>3, <2>4, <2>5, <2>6 DEF Kept, Order
<1> QED BY <1>6, <1>7, <1>8, <1>9, <1>10, <1>11
  DEF Write, WriteObject, RemoveMergeHead, WriteRefLog, WriteNameLog, WriteHeadLog, WriteLog,
      fileVars, At

\* When no command runs, what is in reach is kept.
LEMMA RestKept == ASSUME NEW s, Resting, s \in Reachable PROVE Kept(s)
<1> DEFINE X == {refs[n] : n \in Name} \cup {HeadId}
<1>1. \E i \in X : i \in Above(s)
  <2>1. s \in AncestorsOf(X) BY DEF Reachable
  <2> HIDE DEF X
  <2> QED BY <2>1 DEF AncestorsOf, Above
<1>2. (\E n \in Name : refs[n] \in Above(s)) \/ head \in Above(s)
  BY <1>1 DEF HeadId, Name
<1>3. ASSUME NEW n \in Name, refs[n] \in Above(s) PROVE Firm(n, s)
  BY <1>3 DEF Firm, Resting, Spared, Idle
<1> QED BY <1>2, <1>3 DEF Kept

\* So is what was settled, by every step.
LEMMA KeptStep == ASSUME IInv, CalmInv, LinkInv, KeptInv, [Next]_vars PROVE KeptInv'
<1>1. CASE UNCHANGED vars
  <2>1. /\ objects' = objects /\ refs' = refs /\ head' = head /\ proc' = proc
        /\ raced' = raced /\ missed' = missed /\ settled' = settled
    BY <1>1 DEF vars, fileVars, history
  <2>2. \A s : Above(s)' = Above(s)
    BY <2>1 DEF Above, Ancestors, Parentage, Ids
  <2>3. \A s : Kept(s) => Kept(s)' BY <2>1, <2>2 DEF Kept, Firm
  <2> QED BY <2>1, <2>3 DEF KeptInv, Calm
<1>2. ASSUME NEW p \in Process, Remember(p), Moves(p)
      PROVE  KeptInv'
  <2> SUFFICES ASSUME Calm', NEW s \in settled' PROVE Kept(s)' BY DEF KeptInv
  <2>1. Calm /\ \A q \in Process : Fresh(proc[q], head, refs)
    BY <1>2, StillCalm DEF CalmInv
  <2>2. CASE Resting' /\ s \in Reachable'
    <3>1. (Resting /\ s \in Reachable => Kept(s))' BY RestKept, PTL
    <3> QED BY <2>2, <3>1
  <2>3. CASE ~ (Resting' /\ s \in Reachable')
    <3>1. s \in settled /\ (Discards(p) => s \notin GivenUp) BY <1>2, <2>3 DEF Remember
    <3>2. Kept(s) BY <2>1, <3>1 DEF KeptInv
    <3>3. ASSUME UNCHANGED fileVars, \A q \in Process \ {p} : proc'[q] = proc[q],
                 \A n \in Name : Firm(n, s) => Spared(proc'[p], n, Above(s)')
          PROVE  Kept(s)'
      <4>1. ASSUME NEW n \in Name, Firm(n, s) PROVE Firm(n, s)'
        BY <3>3, <4>1, FirmStays DEF fileVars
      <4>2. head \in Above(s) => head' \in Above(s)' BY <3>3, Higher DEF fileVars
      <4> QED BY <3>2, <4>1, <4>2 DEF Kept
    <3>4. CASE Begin(p) \/ Crash(p)
      <4>1. \A S, n : Spared(proc'[p], n, S) BY <3>4, BeginOf DEF Spared, Idle
      <4> QED BY <3>3, <3>4, <4>1, BeginOf
    <3>5. CASE Read(p)
      <4>1. UNCHANGED fileVars /\ ~At(p, "writeName")
        BY <3>5 DEF Read, ReadMergeHead, RefuseMerge, TakeMergeHead, ReadHead, ReadRef,
               ReadTarget, StatName, ReadRefLog, ReadNameLog, ReadHeadLog, ReadLog, At
      <4>2. \A n \in Name : Firm(n, s) => Spared(proc'[p], n, Above(s)')
        BY <2>1, <3>5, <4>1, SparedGoes
      <4> QED BY <3>3, <3>5, <4>1, <4>2, StepOf
    <3>6. CASE Write(p) BY <2>1, <3>1, <3>2, <3>6, WriteKept
    <3>7. CASE Miss(p)
      <4>1. MisreadLog(p) \/ MissLog(p) BY <1>2, <3>7, StillMissed DEF Miss, Calm
      <4>2. ASSUME NEW n \in Name, Firm(n, s) PROVE Spared(proc'[p], n, Above(s)')
        <5>1. Spared(proc[p], n, Above(s)) /\ Above(s) \subseteq Above(s)'
          BY <4>2, Higher DEF Firm
        <5>2. CASE proc'[p] = Idle BY <5>2 DEF Spared, Idle
        <5>3. CASE proc'[p] # Idle
          <6>1. PICK t \in LogSteps : Order(t, proc[p].cmd, proc[p].pc)
            BY <4>1, LogMissOf
          <6>2. /\ proc'[p].cmd = proc[p].cmd /\ proc'[p].pc = proc[p].pc + 1
                /\ proc[p].pc \in Nat /\ proc'[p].head = proc[p].head
                /\ proc'[p].old = proc[p].old
            BY <4>1, <5>3, LogMissOf
          <6>3. /\ proc[p].cmd = "commit" => proc[p].pc > 9
                /\ proc[p].cmd = "rename" => proc[p].pc > 5
            BY <6>1 DEF Order, LogSteps
          <6> QED BY <5>1, <6>2, <6>3 DEF Spared
        <5> QED BY <5>2, <5>3
      <4> QED BY <3>3, <4>1, <4>2, LogMissOf
    <3> QED BY <1>2, <3>4, <3>5, <3>6, <3>7 DEF Moves
  <2> QED BY <2>2, <2>3
<1> QED BY <1>1, <1>2 DEF Next, Moves

\* At rest, nothing is stored half-way and what is settled is in reach.
LEMMA AtRestKept == AtRest => LinkInv /\ KeptInv
<1> SUFFICES ASSUME AtRest PROVE LinkInv /\ KeptInv OBVIOUS
<1>1. LinkInv BY DEF AtRest, LinkInv, Linked, Idle
<1>2. KeptInv
  <2>1. Resting BY DEF AtRest, Resting
  <2> QED BY <2>1, RestKept DEF AtRest, KeptInv
<1> QED BY <1>1, <1>2

\* What is kept is in reach.
LEMMA KeptReached == IInv /\ KeptInv => SettledKept
<1> SUFFICES ASSUME IInv, Calm, NEW s \in settled, Kept(s) PROVE s \in Reachable
  BY DEF KeptInv, SettledKept, Calm
<1> DEFINE X == {refs[n] : n \in Name} \cup {HeadId}
<1>1. \E i \in X : i \in Above(s)
  <2>1. CASE \E n \in Name : Firm(n, s) BY <2>1 DEF Firm
  <2>2. CASE head \in Above(s) /\ head \notin Branch BY <2>2 DEF HeadId
  <2>3. head \in Above(s) => head \notin Branch
    <3>1. Ids \subseteq Nat BY IdsAreNaturals DEF IInv, FilesOK
    <3> QED BY <3>1, RefAssumption DEF Above
  <2> QED BY <2>1, <2>2, <2>3 DEF Kept
<1>2. s \in AncestorsOf(X)
  <2> HIDE DEF X
  <2> QED BY <1>1 DEF AncestorsOf, Above
<1> QED BY <1>2 DEF Reachable

\* The commits in reach when no command ran stay in reach, but for those that a
\* command is meant to discard, under any number of commands and crashes.
THEOREM SettledAlwaysKept == Running => []SettledKept
<1>1. AtRest => IInv /\ CalmInv /\ LinkInv /\ KeptInv
  BY AtRestOK, AtRestKept
<1>2. IInv /\ CalmInv /\ LinkInv /\ KeptInv /\ [Next]_vars
          => IInv' /\ CalmInv' /\ LinkInv' /\ KeptInv'
  BY NextKeeps, CalmStep, LinkStep, KeptStep
<1> QED BY <1>1, <1>2, KeptReached, PTL DEF Running
-------------------------------------------------------------------------------
(* What the reflogs lead to, and merges *)

Entries ==
    UNION {{e.old, e.new} : e \in UNION {ToSet(logs[n]) : n \in Branch \cup {HEAD}}}

\* Process r has read the log n and will write it back.
Rewriting(r, n) ==
    \/ /\ n \in Branch /\ r.head = n
       /\ \/ r.cmd = "commit" /\ r.pc = 11
          \/ r.cmd = "amend" /\ r.pc = 9
          \/ r.cmd = "reset" /\ r.pc = 5
    \/ /\ n \in Branch /\ r.arg = n
       /\ (r.cmd = "create" /\ r.pc = 6) \/ (r.cmd = "rename" /\ r.pc = 7)
    \/ /\ n = HEAD
       /\ \/ r.cmd = "commit" /\ r.pc = 13
          \/ r.cmd = "amend" /\ r.pc = 11
          \/ r.cmd = "reset" /\ r.pc = 8
          \/ r.cmd = "checkout" /\ r.pc = 6
          \/ r.cmd = "rename" /\ r.pc = 9

\* What process r has read of files that nobody else writes is still so, with
\* the refs at f, the reflogs at l and their ids E.
Sure(r, f, l, E) ==
    /\ \A n \in Branch \cup {HEAD} : Rewriting(r, n) => Log(n) \in r.uses /\ r.log = l[n]
    /\ r.cmd = "reset" /\ r.pc \in 4 .. 6 /\ r.head \in Branch =>
           Ref(r.head) \in r.uses /\ r.old = f[r.head]
    /\ r.cmd = "reset" /\ r.pc = 6 /\ r.head \in Branch => r.old \in E

\* No log or ref went missing.
SureInv ==
    raced = {} /\ missed = {} =>
        /\ discarded \subseteq Logged
        /\ \A p \in Process : Sure(proc[p], refs, logs, Entries)

\* HEAD leads to what a commit r has written.
Written(r, h, f) ==
    r.cmd = "commit" /\ r.pc = 8 =>
        /\ Ref(HEAD) \in r.uses
        /\ IF r.head \in Branch
           THEN h = r.head /\ Ref(r.head) \in r.uses /\ f[r.head] = r.new
           ELSE h = r.new

WrittenInv ==
    raced = {} /\ "ref" \notin missed => \A p \in Process : Written(proc[p], head, refs)

\* A commit knows of the merge it concludes as long as it is under way.
MergeInv ==
    "ref" \notin missed =>
        \A p \in Process : proc[p].cmd = "commit" /\ proc[p].pc > 1 /\ mergeHead # None
                               => proc[p].merge = mergeHead

\* A step of p under which no file that another process used changed.
LEMMA NoRace ==
    ASSUME NEW p \in Process, NEW q \in Process \ {p}, Remember(p), raced' = {}
    PROVE  /\ Ref(HEAD) \in proc[q].uses => head' = head
           /\ \A n \in Name : Ref(n) \in proc[q].uses => refs'[n] = refs[n]
           /\ \A n \in Branch \cup {HEAD} : Log(n) \in proc[q].uses => logs'[n] = logs[n]
<1>1. \A f \in Changed : ~Uses(q, f) BY DEF Remember
<1>2. ASSUME Ref(HEAD) \in proc[q].uses, head' # head PROVE FALSE
  <2>1. Ref(HEAD) \in Changed BY <1>2 DEF Changed
  <2>2. Uses(q, Ref(HEAD)) BY <1>2 DEF Uses, Ref
  <2> QED BY <1>1, <2>1, <2>2
<1>3. ASSUME NEW n \in Name, Ref(n) \in proc[q].uses, refs'[n] # refs[n] PROVE FALSE
  <2>1. Ref(n) \in Changed \/ Taken(n) \in Changed \/ Gone(n) \in Changed
    BY <1>3 DEF Changed
  <2>2. Uses(q, Ref(n)) /\ Uses(q, Taken(n)) /\ Uses(q, Gone(n))
    BY <1>3 DEF Uses, Ref, Taken, Gone
  <2> QED BY <1>1, <2>1, <2>2
<1>4. ASSUME NEW n \in Branch \cup {HEAD}, Log(n) \in proc[q].uses, logs'[n] # logs[n]
      PROVE  FALSE
  <2>1. Log(n) \in Changed BY <1>4 DEF Changed
  <2>2. Uses(q, Log(n)) BY <1>4 DEF Uses, Log
  <2> QED BY <1>1, <2>1, <2>2
<1> QED BY <1>2, <1>3, <1>4

\* Nothing is raced that was not before.
LEMMA StillQuiet == ASSUME NEW p \in Process, Remember(p), raced' = {} PROVE raced = {}
BY DEF Remember

\* What the other processes read stays so.
LEMMA SureStays ==
    ASSUME IInv, NEW p \in Process, NEW q \in Process \ {p}, Remember(p), raced' = {},
           Sure(proc[q], refs, logs, Entries), Entries \subseteq Entries'
    PROVE  Sure(proc[q], refs', logs', Entries')
<1> DEFINE r == proc[q]
<1>2. r.head \in Branch /\ Ref(r.head) \in r.uses => refs'[r.head] = refs[r.head]
  BY NoRace DEF Name
<1>3. \A n \in Branch \cup {HEAD} : Log(n) \in r.uses => logs'[n] = logs[n] BY NoRace
<1> QED BY <1>2, <1>3 DEF Sure

\* What is appended joins what is there.
LEMMA AppendedSet ==
    ASSUME NEW S, NEW s \in Seq(S), NEW e
    PROVE  ToSet(s) \subseteq ToSet(Append(s, e)) /\ e \in ToSet(Append(s, e))
<1> DEFINE t == Append(s, e)
<1>1. /\ DOMAIN t = 1 .. Len(s) + 1 /\ t[Len(s) + 1] = e /\ Len(s) \in Nat
      /\ DOMAIN s = 1 .. Len(s) /\ \A k \in 1 .. Len(s) : t[k] = s[k]
  OBVIOUS
<1> HIDE DEF t
<1>2. Len(s) + 1 \in DOMAIN t /\ DOMAIN s \subseteq DOMAIN t BY <1>1
<1> QED BY <1>1, <1>2 DEF ToSet, t

\* A process that writes a log back adds an entry to what is there.
LEMMA LogsGrow ==
    ASSUME IInv, NEW p \in Process, Read(p) \/ Write(p),
           Sure(proc[p], refs, logs, Entries)
    PROVE  /\ Entries \subseteq Entries'
           /\ At(p, "writeRefLog") /\ proc[p].head \in Branch => proc[p].old \in Entries'
<1> DEFINE r == proc[p]
           N == Branch \cup {HEAD}
<1>1. LogsOK BY DEF IInv, FilesOK
<1>2. \A t : At(p, t) => Order(t, r.cmd, r.pc) BY AtOrder DEF IInv
<1>3. ASSUME \A n \in N : ToSet(logs[n]) \subseteq ToSet(logs'[n]) PROVE Entries \subseteq Entries'
  <2>1. ASSUME NEW n \in N, NEW e \in ToSet(logs[n]) PROVE {e.old, e.new} \subseteq Entries'
    BY <1>3, <2>1 DEF Entries
  <2> QED BY <2>1 DEF Entries
<1>4. ASSUME NEW n \in N, NEW o, NEW c, WriteLog(p, n, o, c), Rewriting(r, n)
      PROVE  Entries \subseteq Entries' /\ o \in Entries'
  <2> DEFINE e == [old |-> o, new |-> c]
  <2>1. logs' = [logs EXCEPT ![n] = Append(logs[n], e)]
    BY <1>4 DEF WriteLog, Sure
  <2>2. logs[n] \in Seq(Entry(Ids)) BY <1>1 DEF LogsOK
  <2>3. e.old = o OBVIOUS
  <2> HIDE DEF e
  <2>4. ToSet(logs[n]) \subseteq ToSet(Append(logs[n], e)) /\ e \in ToSet(Append(logs[n], e))
    BY <2>2, AppendedSet
  <2>5. logs'[n] = Append(logs[n], e) /\ \A m \in N \ {n} : logs'[m] = logs[m]
    BY <1>1, <2>1 DEF LogsOK
  <2>6. Entries \subseteq Entries' BY <1>3, <2>4, <2>5
  <2>7. e \in ToSet(logs'[n]) BY <2>4, <2>5
  <2>8. {e.old, e.new} \subseteq Entries'
    <3>1. e \in UNION {ToSet(logs'[m]) : m \in N} BY <2>7
    <3>2. Entries' = UNION {{x.old, x.new} : x \in UNION {ToSet(logs'[m]) : m \in N}}
      BY DEF Entries
    <3> HIDE DEF N
    <3> QED BY <3>1, <3>2
  <2> QED BY <2>3, <2>6, <2>8
<1> HIDE DEF r, N
<1>5. CASE logs' = logs /\ ~ (At(p, "writeRefLog") /\ r.head \in Branch)
  BY <1>3, <1>5 DEF r
<1>6. CASE WriteRefLog(p) /\ r.head \in Branch
  <2>1. WriteLog(p, r.head, r.old, r.new) BY <1>6 DEF WriteRefLog, r
  <2>2. r.head \in N /\ Rewriting(r, r.head)
    <3>1. Order("writeRefLog", r.cmd, r.pc) BY <1>2, <1>6 DEF WriteRefLog
    <3> QED BY <1>6, <3>1 DEF Order, Rewriting, N
  <2> QED BY <1>4, <2>1, <2>2 DEF r
<1>7. CASE WriteNameLog(p)
  <2>1. WriteLog(p, r.arg, None, r.old) /\ At(p, "writeNameLog") BY <1>7 DEF WriteNameLog, r
  <2>2. r.arg \in N /\ Rewriting(r, r.arg)
    <3>1. Order("writeNameLog", r.cmd, r.pc) BY <1>2, <2>1
    <3>2. r.cmd = "create" \/ r.cmd = "rename" => r.arg \in Branch
      BY DEF IInv, ProcsOK, ProcOK, Knowing, r
    <3> QED BY <3>1, <3>2 DEF Order, Rewriting, N
  <2>3. ~At(p, "writeRefLog") BY <2>1 DEF At
  <2>4. Entries \subseteq Entries' BY <1>4, <2>1, <2>2
  <2> QED BY <2>3, <2>4
<1>8. CASE WriteHeadLog(p)
  <2>1. /\ WriteLog(p, HEAD, r.old, IF r.cmd = "rename" THEN r.old ELSE r.new)
        /\ At(p, "writeHeadLog")
    BY <1>8 DEF WriteHeadLog, r
  <2>2. Rewriting(r, HEAD)
    <3>1. Order("writeHeadLog", r.cmd, r.pc) BY <1>2, <2>1
    <3> QED BY <3>1 DEF Order, Rewriting
  <2>3. HEAD \in N /\ ~At(p, "writeRefLog") BY <2>1 DEF At, N
  <2>4. Entries \subseteq Entries' BY <1>4, <2>1, <2>2, <2>3
  <2> QED BY <2>3, <2>4
<1>9. CASE Read(p)
  <2>1. logs' = logs /\ ~At(p, "writeRefLog")
    BY <1>9 DEF Read, ReadMergeHead, RefuseMerge, TakeMergeHead, ReadHead, ReadRef,
           ReadTarget, StatName, ReadRefLog, ReadNameLog, ReadHeadLog, ReadLog, fileVars, At
  <2> QED BY <1>5, <2>1
<1>10. CASE Write(p) /\ ~WriteNameLog(p) /\ ~WriteHeadLog(p)
            /\ ~ (WriteRefLog(p) /\ r.head \in Branch)
  <2>1. logs' = logs
    BY <1>10 DEF Write, WriteObject, WriteRef, WriteHead, WriteName, RemoveName, RemoveRef,
           RemoveMergeHead, WriteRefLog, fileVars, r
  <2>2. ~ (At(p, "writeRefLog") /\ r.head \in Branch) BY <1>10, WhichStep
  <2> QED BY <1>5, <2>1, <2>2
<1> QED BY <1>6, <1>7, <1>8, <1>9, <1>10

\* A process finds in its own files what it read, and what it wrote there.
LEMMA SureGoes ==
    ASSUME IInv, NEW p \in Process, Read(p) \/ Write(p), Fresh(proc[p], head, refs),
           Sure(proc[p], refs, logs, Entries), Entries \subseteq Entries'
    PROVE  Sure(proc'[p], refs', logs', Entries')
<1> DEFINE r == proc[p]
           r2 == proc'[p]
<1>1. ProcOK(r, Ids) /\ ProcsOK /\ RefsOK BY DEF IInv, FilesOK, ProcsOK
<1>2. \A t : At(p, t) => Order(t, r.cmd, r.pc) BY AtOrder DEF IInv
<1>3. CASE r2 = Idle BY <1>3 DEF Sure, Rewriting, Idle
<1>4. CASE /\ r2 # Idle /\ r2.cmd = r.cmd /\ r2.pc = r.pc + 1 /\ r2.arg = r.arg
           /\ r.cmd # "none" /\ r.pc \in Nat
           /\ r2.new = r.new \/ At(p, "readTarget") \/ At(p, "writeObject")
           /\ r2.old = r.old \/ At(p, "readRef")
           /\ r2.head = r.head \/ At(p, "readHead")
           /\ r.uses \subseteq r2.uses
  <2>1. ASSUME NEW t, At(p, t), t \in {"readRef", "readRefLog", "readNameLog", "readHeadLog"}
        PROVE  UNCHANGED fileVars
    BY <2>1, WhichStep DEF ReadRef, ReadRefLog, ReadNameLog, ReadHeadLog, ReadLog
  <2>2. ASSUME NEW n \in Branch \cup {HEAD}, Rewriting(r2, n)
        PROVE  Log(n) \in r2.uses /\ r2.log = logs'[n]
    <3>1. CASE /\ n \in Branch /\ r2.head = n
               /\ \/ r.cmd = "commit" /\ r.pc = 10
                  \/ r.cmd = "amend" /\ r.pc = 8
                  \/ r.cmd = "reset" /\ r.pc = 4
      <4>1. At(p, "readRefLog")
        <5>1. /\ Program["commit"][10] = "readRefLog" /\ Program["amend"][8] = "readRefLog"
              /\ Program["reset"][4] = "readRefLog"
          BY DEF Program, CommitSteps, AmendSteps, ResetSteps
        <5> QED BY <3>1, <5>1, <1>4 DEF At
      <4>2. r.head = n BY <1>4, <3>1, <4>1 DEF At
      <4> QED BY <1>4, <2>1, <3>1, <4>1, <4>2, HasRead DEF fileVars
    <3>2. CASE /\ n \in Branch /\ r.arg = n
               /\ (r.cmd = "create" /\ r.pc = 5) \/ (r.cmd = "rename" /\ r.pc = 6)
      <4>1. At(p, "readNameLog")
        <5>1. Program["create"][5] = "readNameLog" /\ Program["rename"][6] = "readNameLog"
          BY DEF Program, CreateSteps, RenameSteps
        <5> QED BY <3>2, <5>1, <1>4 DEF At
      <4> QED BY <1>4, <2>1, <3>2, <4>1, HasRead DEF fileVars
    <3>3. CASE /\ n = HEAD
               /\ \/ r.cmd = "commit" /\ r.pc = 12
                  \/ r.cmd = "amend" /\ r.pc = 10
                  \/ r.cmd = "reset" /\ r.pc = 7
                  \/ r.cmd = "checkout" /\ r.pc = 5
                  \/ r.cmd = "rename" /\ r.pc = 8
      <4>1. At(p, "readHeadLog")
        <5>1. /\ Program["commit"][12] = "readHeadLog" /\ Program["amend"][10] = "readHeadLog"
              /\ Program["reset"][7] = "readHeadLog" /\ Program["checkout"][5] = "readHeadLog"
              /\ Program["rename"][8] = "readHeadLog"
          BY DEF Program, CommitSteps, AmendSteps, ResetSteps, CheckoutSteps, RenameSteps
        <5> QED BY <3>3, <5>1, <1>4 DEF At
      <4> QED BY <1>4, <2>1, <3>3, <4>1, HasRead DEF fileVars
    <3> QED BY <1>4, <2>2, <3>1, <3>2, <3>3 DEF Rewriting
  <2>3. ASSUME r2.cmd = "reset", r2.pc \in 4 .. 6, r2.head \in Branch
        PROVE  Ref(r2.head) \in r2.uses /\ r2.old = refs'[r2.head]
    <3>1. r.cmd = "reset" /\ r.pc \in 3 .. 5 BY <1>4, <2>3
    <3>2. r2.head = r.head BY <1>2, <1>4, <3>1 DEF Order
    <3>3. CASE r.pc = 3
      <4>1. At(p, "readRef")
        <5>1. Program["reset"][3] = "readRef" BY DEF Program, ResetSteps
        <5> QED BY <3>1, <3>3, <5>1 DEF At
      <4> QED BY <1>4, <2>1, <2>3, <3>2, <4>1, HasRead DEF fileVars
    <3>4. CASE r.pc # 3
      <4>1. At(p, "readRefLog") \/ At(p, "writeRefLog")
        <5>1. Program["reset"][4] = "readRefLog" /\ Program["reset"][5] = "writeRefLog"
          BY DEF Program, ResetSteps
        <5> QED BY <3>1, <3>4, <5>1 DEF At
      <4>2. refs' = refs
        BY <4>1, WhichStep DEF ReadRefLog, ReadLog, WriteRefLog, WriteLog, fileVars
      <4>3. r2.old = r.old BY <1>2, <1>4, <3>1, <3>4 DEF Order
      <4> QED BY <1>4, <2>3, <3>1, <3>2, <3>4, <4>2, <4>3 DEF Sure
    <3> QED BY <3>3, <3>4
  <2>4. ASSUME r2.cmd = "reset", r2.pc = 6, r2.head \in Branch PROVE r2.old \in Entries'
    <3>1. r.cmd = "reset" /\ r.pc = 5 BY <1>4, <2>4
    <3>2. r2.head = r.head /\ r2.old = r.old BY <1>2, <1>4, <3>1 DEF Order
    <3>3. At(p, "writeRefLog")
      <4>1. Program["reset"][5] = "writeRefLog" BY DEF Program, ResetSteps
      <4> QED BY <3>1, <4>1 DEF At
    <3> QED BY <2>4, <3>2, <3>3, LogsGrow
  <2> QED BY <2>2, <2>3, <2>4 DEF Sure
<1> QED BY <1>3, <1>4, StepOf

\* What the reflogs lead to grows with their entries.
LEMMA LoggedGrows ==
    ASSUME IInv, [Next]_vars, Entries \subseteq Entries' PROVE Logged \subseteq Logged'
<1>1. ASSUME NEW s, s \in Logged PROVE s \in Logged'
  <2>1. PICK i \in Entries : i \in Above(s)
    <3>1. s \in AncestorsOf(Entries) BY <1>1 DEF Logged, Entries
    <3> QED BY <3>1 DEF AncestorsOf, Above
  <2>2. i \in Entries' /\ i \in Above(s)' BY <2>1, Higher
  <2>3. s \in AncestorsOf(Entries)' BY <2>2 DEF AncestorsOf, Above
  <2> QED BY <2>3 DEF Logged, Entries
<1> QED BY <1>1

\* What the write of a reset takes out of reach is what the branch led to.
LEMMA ResetLogged ==
    ASSUME IInv, [Next]_vars, NEW p \in Process, WriteRef(p), proc[p].cmd = "reset",
           proc[p].head \in Branch, Fresh(proc[p], head, refs),
           Sure(proc[p], refs, logs, Entries)
    PROVE  Reachable \ Reachable' \subseteq Logged
<1> DEFINE r == proc[p]
           X == {refs[n] : n \in Name} \cup {HeadId}
<1>1. At(p, "writeRef") /\ RefsOK BY DEF WriteRef, IInv, FilesOK
<1>2. r.pc = 6
  <2>1. Order("writeRef", r.cmd, r.pc) BY <1>1, AtOrder DEF IInv
  <2> QED BY <2>1 DEF Order
<1>3. r.head = head BY <1>2 DEF Fresh, HeadHeld
<1>4. r.old = refs[head] /\ r.old \in Entries BY <1>2, <1>3 DEF Sure
<1>5. refs' = [refs EXCEPT ![head] = r.new] /\ head' = head BY <1>3 DEF WriteRef
<1>6. ASSUME NEW s, s \in Reachable, s \notin Reachable' PROVE s \in Logged
  <2>1. PICK i \in X : i \in Above(s)
    <3>1. s \in AncestorsOf(X) BY <1>6 DEF Reachable
    <3> HIDE DEF X
    <3> QED BY <3>1 DEF AncestorsOf, Above
  <2>2. ASSUME NEW n \in Name, i = refs[n], n # head PROVE FALSE
    <3>1. refs'[n] = i BY <1>1, <1>5, <2>2 DEF RefsOK
    <3>2. i \in Above(s)' BY <2>1, Higher
    <3> DEFINE X2 == {refs'[m] : m \in Name} \cup {HeadId'}
    <3>3. i \in X2 BY <2>2, <3>1
    <3>4. Reachable' = UNION {Ancestors(j)' : j \in X2 \cap Ids'}
      BY DEF Reachable, AncestorsOf
    <3> HIDE DEF X2
    <3>5. i \in X2 \cap Ids' /\ s \in Ancestors(i)' BY <3>2, <3>3 DEF Above
    <3> QED BY <1>6, <3>4, <3>5
  <2>3. i = refs[head] BY <1>3, <2>1, <2>2 DEF HeadId
  <2>4. s \in AncestorsOf(Entries) BY <1>4, <2>1, <2>3 DEF AncestorsOf, Above
  <2> QED BY <2>4 DEF Logged, Entries
<1> QED BY <1>6

\* Every step keeps what the processes are sure of and what can be recovered.
LEMMA SureStep == ASSUME IInv, CalmInv, SureInv, [Next]_vars PROVE SureInv'
<1>1. CASE UNCHANGED vars
  <2>1. /\ UNCHANGED fileVars /\ proc' = proc /\ raced' = raced /\ missed' = missed
        /\ discarded' = discarded
    BY <1>1 DEF vars, history
  <2>2. /\ refs' = refs /\ head' = head /\ logs' = logs /\ objects' = objects
    BY <2>1 DEF fileVars
  <2>3. Entries' = Entries BY <2>2 DEF Entries
  <2>4. Logged' = Logged BY <2>2 DEF Logged, AncestorsOf, Ancestors, Parentage, Ids
  <2> QED BY <2>1, <2>2, <2>3, <2>4 DEF SureInv
<1>2. ASSUME NEW p \in Process, Remember(p), Moves(p)
      PROVE  SureInv'
  <2> SUFFICES ASSUME raced' = {}, missed' = {} PROVE SureInv' BY DEF SureInv
  <2>0. missed = {} /\ ~Miss(p) BY <1>2, StillMissed
  <2>1. raced = {} /\ discarded \subseteq Logged
        /\ \A q \in Process : Sure(proc[q], refs, logs, Entries)
    BY <1>2, <2>0, StillQuiet DEF SureInv
  <2>2. Fresh(proc[p], head, refs) BY <2>0, <2>1 DEF CalmInv, Calm
  <2>3. ASSUME Entries \subseteq Entries', \A q \in Process \ {p} : proc'[q] = proc[q],
               Sure(proc'[p], refs', logs', Entries'),
               discarded' \subseteq discarded \cup Logged
        PROVE  SureInv'
    <3>1. Logged \subseteq Logged' BY <2>3, LoggedGrows
    <3>2. ASSUME NEW q \in Process PROVE Sure(proc'[q], refs', logs', Entries')
      BY <1>2, <2>1, <2>3, SureStays
    <3> QED BY <2>1, <2>3, <3>1, <3>2 DEF SureInv
  <2>4. CASE Begin(p) \/ Crash(p)
    <3>1. /\ \A q \in Process \ {p} : proc'[q] = proc[q]
          /\ proc'[p] = Idle \/ (proc'[p].pc = 1 /\ proc[p] = Idle)
          /\ UNCHANGED fileVars
      BY <2>4, BeginOf
    <3>2. Entries' = Entries BY <3>1 DEF Entries, fileVars
    <3>3. Sure(proc'[p], refs', logs', Entries')
      BY <3>1 DEF Sure, Rewriting, Idle
    <3>4. refs' = refs /\ head' = head /\ objects' = objects BY <3>1 DEF fileVars
    <3>5. Reachable' = Reachable
      BY <3>4 DEF Reachable, AncestorsOf, Ancestors, Parentage, Ids, HeadId
    <3>6. discarded' = discarded BY <1>2, <3>5 DEF Remember
    <3> QED BY <2>3, <3>1, <3>2, <3>3, <3>6
  <2>5. CASE Read(p) \/ Write(p)
    <3>1. Entries \subseteq Entries' BY <2>1, <2>5, LogsGrow
    <3>2. Sure(proc'[p], refs', logs', Entries')
      BY <2>1, <2>2, <2>5, <3>1, SureGoes
    <3>3. discarded' \subseteq discarded \cup Logged
      BY <1>2, <2>1, <2>2, <2>5, WhichStep, ResetLogged DEF Remember
    <3> QED BY <2>3, <2>5, <3>1, <3>2, <3>3, StepOf
  <2> QED BY <1>2, <2>0, <2>4, <2>5 DEF Moves
<1> QED BY <1>1, <1>2 DEF Next, Moves

\* Every step keeps that HEAD leads to what a commit has written.
LEMMA WrittenStep == ASSUME IInv, CalmInv, WrittenInv, [Next]_vars PROVE WrittenInv'
<1>1. CASE UNCHANGED vars
  BY <1>1 DEF vars, fileVars, history, WrittenInv
<1>2. ASSUME NEW p \in Process, Remember(p), Moves(p) PROVE WrittenInv'
  <2> DEFINE r == proc[p]
             r2 == proc'[p]
  <2> SUFFICES ASSUME raced' = {}, "ref" \notin missed' PROVE WrittenInv' BY DEF WrittenInv
  <2>1. raced = {} /\ "ref" \notin missed /\ ~MissRef(p) BY <1>2, StillQuiet, StillMissed
  <2>2. Fresh(r, head, refs) BY <2>1 DEF CalmInv, Calm
  <2>3. ASSUME \A q \in Process \ {p} : proc'[q] = proc[q], Written(r2, head', refs')
        PROVE  WrittenInv'
    <3>1. ASSUME NEW q \in Process \ {p} PROVE Written(proc'[q], head', refs')
      <4>1. Written(proc[q], head, refs) BY <2>1 DEF WrittenInv
      <4>2. /\ Ref(HEAD) \in proc[q].uses => head' = head
            /\ \A n \in Name : Ref(n) \in proc[q].uses => refs'[n] = refs[n]
        BY <1>2, NoRace
      <4> QED BY <2>3, <4>1, <4>2 DEF Written, Name
    <3> QED BY <2>3, <3>1 DEF WrittenInv
  <2>4. CASE Begin(p) \/ Crash(p)
    <3>1. Written(r2, head', refs') BY <2>4, BeginOf DEF Written, Idle
    <3> QED BY <2>3, <2>4, <3>1, BeginOf
  <2>5. CASE MisreadLog(p) \/ MissLog(p)
    <3>1. ~ (r2.cmd = "commit" /\ r2.pc = 8)
      <4>1. PICK t \in LogSteps : Order(t, r.cmd, r.pc) BY <2>5, LogMissOf
      <4>2. ~ (r.cmd = "commit" /\ r.pc = 7) BY <4>1 DEF Order, LogSteps
      <4> QED BY <2>5, <4>2, LogMissOf DEF Idle
    <3> QED BY <2>3, <2>5, <3>1, LogMissOf DEF Written
  <2>6. CASE Read(p) \/ Write(p)
    <3>1. ASSUME r2.cmd = "commit", r2.pc = 8 PROVE Written(r2, head', refs')
      <4>1. /\ r.cmd = "commit" /\ r.pc = 7 /\ r.uses \subseteq r2.uses
            /\ r2.new = r.new \/ At(p, "readTarget") \/ At(p, "writeObject")
            /\ r2.head = r.head \/ At(p, "readHead")
        BY <2>6, <3>1, StepOf DEF Idle
      <4>2. r2.head = r.head /\ r2.new = r.new
        <5>1. \A t : At(p, t) => Order(t, r.cmd, r.pc) BY AtOrder DEF IInv
        <5> QED BY <4>1, <5>1 DEF Order
      <4>3. WriteRef(p)
        <5>1. Program["commit"][7] = "writeRef" BY DEF Program, CommitSteps
        <5> QED BY <2>6, <4>1, <5>1, WhichStep DEF At
      <4>4. Ref(HEAD) \in r.uses /\ r.head = head BY <2>2, <4>1 DEF Fresh, HeadHeld
      <4>5. r.head \in Branch => Ref(r.head) \in r.uses BY <2>2, <4>1 DEF Fresh
      <4>6. RefsOK BY DEF IInv, FilesOK
      <4> QED BY <4>1, <4>2, <4>3, <4>4, <4>5, <4>6 DEF Written, WriteRef, RefsOK, Name
    <3>2. Written(r2, head', refs') BY <3>1 DEF Written
    <3> QED BY <2>3, <2>6, <3>2, StepOf
  <2> QED BY <1>2, <2>1, <2>4, <2>5, <2>6 DEF Moves, Miss
<1> QED BY <1>1, <1>2 DEF Next, Moves

\* MERGE_HEAD only goes, by the step that removes it.
LEMMA MergeGoes ==
    ASSUME [Next]_vars, mergeHead' # mergeHead
    PROVE  \E p \in Process : RemoveMergeHead(p) /\ mergeHead' = None
<1>1. PICK p \in Process : Begin(p) \/ Read(p) \/ Write(p) \/ Miss(p) \/ Crash(p)
  BY DEF Next, vars, fileVars
<1>2. ~Begin(p) /\ ~Crash(p) /\ ~Miss(p)
  BY DEF Begin, Start, Crash, Miss, MissRef, MisreadLog, MissLog, fileVars
<1>3. ~Read(p)
  BY DEF Read, ReadMergeHead, RefuseMerge, TakeMergeHead, ReadHead, ReadRef,
         ReadTarget, StatName, ReadRefLog, ReadNameLog, ReadHeadLog, ReadLog, fileVars
<1>4. RemoveMergeHead(p)
  BY <1>1, <1>2, <1>3 DEF Write, WriteObject, WriteRef, WriteHead, WriteName, RemoveName,
     RemoveRef, WriteRefLog, WriteNameLog, WriteHeadLog, WriteLog, fileVars
<1> QED BY <1>4 DEF RemoveMergeHead

\* So a commit knows of the merge until it has concluded it.
LEMMA MergeStep == ASSUME IInv, MergeInv, [Next]_vars PROVE MergeInv'
<1>1. mergeHead' = mergeHead \/ mergeHead' = None BY MergeGoes
<1>2. CASE UNCHANGED vars BY <1>2 DEF vars, fileVars, MergeInv
<1>3. ASSUME NEW p \in Process, Moves(p) PROVE MergeInv'
  <2> DEFINE r == proc[p]
             r2 == proc'[p]
  <2> SUFFICES ASSUME "ref" \notin missed' PROVE MergeInv' BY DEF MergeInv
  <2>1. "ref" \notin missed /\ ~MissRef(p) BY <1>3, StillMissed
  <2>2. ASSUME \A q \in Process \ {p} : proc'[q] = proc[q],
               r2.cmd = "commit" /\ r2.pc > 1 /\ mergeHead' # None => r2.merge = mergeHead
        PROVE  MergeInv'
    BY <1>1, <2>1, <2>2 DEF MergeInv
  <2>3. CASE Begin(p) \/ Crash(p) BY <2>2, <2>3, BeginOf DEF Idle
  <2>4. CASE MisreadLog(p) \/ MissLog(p)
    <3>1. ASSUME r2.cmd = "commit", r2.pc > 1, mergeHead' # None PROVE r2.merge = mergeHead
      <4>1. PICK t \in LogSteps : Order(t, r.cmd, r.pc) BY <2>4, LogMissOf
      <4>2. r2.cmd = r.cmd /\ r2.merge = r.merge BY <2>4, <3>1, LogMissOf DEF Idle
      <4>3. r.pc > 1 BY <3>1, <4>1, <4>2 DEF Order, LogSteps
      <4> QED BY <1>1, <2>1, <3>1, <4>2, <4>3 DEF MergeInv
    <3> QED BY <2>2, <2>4, <3>1, LogMissOf
  <2>5. CASE Read(p) \/ Write(p)
    <3>1. ASSUME r2.cmd = "commit", r2.pc > 1, mergeHead' # None PROVE r2.merge = mergeHead
      <4>1. /\ r2 # Idle /\ r.cmd = "commit" /\ r2.pc = r.pc + 1 /\ r.pc \in Nat
            /\ r2.merge = r.merge \/ At(p, "readMergeHead") \/ At(p, "takeMergeHead")
        BY <2>5, <3>1, StepOf DEF Idle
      <4>2. mergeHead # None BY <1>1, <3>1
      <4>3. CASE At(p, "readMergeHead") BY <2>5, <4>1, <4>3, HasRead
      <4>4. CASE ~At(p, "readMergeHead")
        <5>1. r.pc > 1
          <6>1. Program["commit"][1] = "readMergeHead" BY DEF Program, CommitSteps
          <6>2. r.pc # 1 BY <4>1, <4>4, <6>1 DEF At
          <6>3. r.pc \in 1 .. Len(Program[r.cmd])
            BY <4>1 DEF IInv, ProcsOK, ProcOK, Holding
          <6> QED BY <4>1, <6>2, <6>3
        <5>2. r.merge = mergeHead BY <2>1, <4>1, <4>2, <5>1 DEF MergeInv
        <5> QED BY <2>5, <4>1, <4>4, <5>2, HasRead
      <4> QED BY <4>3, <4>4
    <3> QED BY <2>2, <2>5, <3>1, StepOf
  <2> QED BY <1>3, <2>1, <2>3, <2>4, <2>5 DEF Moves, Miss
<1> QED BY <1>2, <1>3 DEF Next, Moves

\* At rest, no log is being rewritten and no merge concluded.
LEMMA AtRestSure == AtRest => SureInv /\ WrittenInv /\ MergeInv
BY DEF AtRest, SureInv, Sure, Rewriting, WrittenInv, Written, MergeInv, Idle

\* The reflogs lead to what a reset of a branch took out of reach, also when the
\* commit and the reset both died half-way - if no log or ref was unreadable or
\* unwritable, which reset and the reflog ignore (reset.go:149, helpers.go:559).
THEOREM AlwaysRecoverable == Running => []Recoverable
<1>1. AtRest => IInv /\ CalmInv /\ SureInv
  BY AtRestOK, AtRestSure
<1>2. IInv /\ CalmInv /\ SureInv /\ [Next]_vars => IInv' /\ CalmInv' /\ SureInv'
  BY NextKeeps, CalmStep, SureStep
<1>3. SureInv => Recoverable
  BY DEF SureInv, Recoverable
<1> QED BY <1>1, <1>2, <1>3, PTL DEF Running

\* The commit that HEAD leads to has the merged commit among its ancestors by
\* the time MERGE_HEAD goes, so no crash turns a merge into an ordinary commit.
THEOREM MergeAlwaysKept == Running => MergeKept
<1>1. AtRest => IInv /\ CalmInv /\ LinkInv /\ WrittenInv /\ MergeInv
  BY AtRestOK, AtRestKept, AtRestSure
<1>2. IInv /\ CalmInv /\ LinkInv /\ WrittenInv /\ MergeInv /\ [Next]_vars
          => IInv' /\ CalmInv' /\ LinkInv' /\ WrittenInv' /\ MergeInv'
  BY NextKeeps, CalmStep, LinkStep, WrittenStep, MergeStep
<1>3. IInv /\ LinkInv /\ WrittenInv /\ MergeInv /\ [Next]_vars => [ForgetsConcluded]_vars
  <2> SUFFICES ASSUME IInv, LinkInv, WrittenInv, MergeInv, [Next]_vars,
                      mergeHead # None, mergeHead' = None, raced = {},
                      "ref" \notin missed
               PROVE  mergeHead \in AncestorsOf({HeadId})
    BY DEF ForgetsConcluded
  <2>1. PICK p \in Process : RemoveMergeHead(p) BY MergeGoes
  <2> DEFINE r == proc[p]
  <2>2. r.cmd = "commit" /\ r.pc = 8
    <3>1. Order("removeMergeHead", r.cmd, r.pc) BY <2>1, AtOrder DEF IInv, RemoveMergeHead
    <3> QED BY <3>1 DEF Order
  <2>3. r.merge = mergeHead BY <2>2 DEF MergeInv
  <2>4. r.new \in Above(mergeHead) BY <2>2, <2>3 DEF LinkInv, Linked
  <2>5. HeadId = r.new
    <3>1. IF r.head \in Branch THEN head = r.head /\ refs[r.head] = r.new ELSE head = r.new
      BY <2>2 DEF WrittenInv, Written
    <3>2. r.head \notin Branch => head \notin Branch
      <4>1. r.new \in Ids BY <2>4 DEF Above
      <4>2. Ids \subseteq Nat BY IdsAreNaturals DEF IInv, FilesOK
      <4> QED BY <3>1, <4>1, <4>2, RefAssumption
    <3> QED BY <3>1, <3>2 DEF HeadId
  <2> QED BY <2>4, <2>5 DEF AncestorsOf, Above
<1> QED BY <1>1, <1>2, <1>3, PTL DEF Running, MergeKept
===============================================================================
