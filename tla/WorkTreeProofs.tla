------------------------------ MODULE WorkTreeProofs ---------------------------
(***************************************************************************)
(* The properties of WorkTree, for any paths, contents, sizes, patterns    *)
(* and bounds.                                                             *)
(*                                                                         *)
(* That the stat cache never lies is an argument about times alone: an     *)
(* entry is no younger than the clock, a write is younger than every       *)
(* entry, and an entry is only given the time of a file together with what *)
(* is then in the file - or with a time the file no longer has.            *)
(*                                                                         *)
(* That add -A is complete is an argument about the walk: every file that  *)
(* is to be staged has been seen, or is the one in hand, or has a          *)
(* directory above it (or itself) on the list of what is to be visited.    *)
(***************************************************************************)
EXTENDS WorkTree, TLAPS

FileType == [blob : Blob, exec : BOOLEAN, mtime : Nat]
EntryType == [blob : Blob, exec : BOOLEAN, size : Nat, mtime : Nat]
StatType == [path : Path, exec : BOOLEAN, size : Nat, mtime : Nat]

WorkTyped ==
    /\ work = [p \in Path |-> work[p]]
    /\ \A p \in Path : work[p] # None =>
          work[p] \in FileType /\ 1 <= work[p].mtime /\ work[p].mtime <= clock

TreeTyped ==
    \A p \in Path : tree[p] # None => tree[p].blob \in Blob /\ tree[p].exec \in BOOLEAN

\* An index, on disk or being worked on, that the files bear out.
Sound(ix) ==
    /\ ix = [p \in Path |-> ix[p]]
    /\ \A p \in Path : ix[p] # None => ix[p] \in EntryType /\ ix[p].mtime <= clock
    /\ \A p \in Path : ix[p] # None /\ work[p] # None /\ ix[p].mtime = work[p].mtime
                          => ix[p].blob = work[p].blob

AddingSound ==
    adding # None =>
      /\ adding \in [all : BOOLEAN, index : {adding.index}, proxy : {adding.proxy},
                     ignore : {adding.ignore}, todo : {adding.todo}, file : {adding.file},
                     seen : {adding.seen}, quiet : BOOLEAN]
      /\ Sound(adding.index)
      /\ adding.file # None => adding.file \in StatType /\ adding.file.mtime <= clock

IInv == clock \in Nat /\ WorkTyped /\ TreeTyped /\ Sound(index) /\ AddingSound

\* The invariant is stronger than StatHonest.
LEMMA IInvStatHonest == IInv => StatHonest
BY DEF IInv, Sound, StatHonest, Tracked, OnDisk

\* The empty repository satisfies it.
LEMMA InitIInv == Init => IInv
BY DEF Init, IInv, WorkTyped, TreeTyped, Sound, AddingSound

\* A file as add sees it.
LEMMA StatTyped ==
    ASSUME IInv, NEW p \in Path, work[p] # None
    PROVE  Stat(p) \in StatType /\ Stat(p).mtime <= clock
BY PathAssumption DEF IInv, WorkTyped, Stat, StatType, FileType

\* The entries of a tree have a time no file has.
LEMMA EntryOfTyped ==
    ASSUME TreeTyped, NEW p \in Path, tree[p] # None
    PROVE  EntryOf(tree[p]) \in EntryType /\ EntryOf(tree[p]).mtime = 0
BY DEF TreeTyped, EntryOf, EntryType

\* A step that removes files, or changes their mode, keeps the invariant.
LEMMA FilesGo ==
    ASSUME IInv, UNCHANGED <<index, tree>>, clock' = clock \/ clock' = clock + 1,
           work' = [p \in Path |-> work'[p]],
           \A p \in Path : work'[p] # None =>
              work[p] # None /\ work'[p].blob = work[p].blob
                /\ work'[p].mtime = work[p].mtime /\ work'[p] \in FileType,
           adding' = adding \/ adding' = Disturbed
    PROVE  IInv'
<1>0. clock \in Nat /\ clock' \in Nat /\ clock <= clock' BY DEF IInv
<1>1. WorkTyped' BY <1>0 DEF IInv, WorkTyped, FileType
<1>2. TreeTyped' BY DEF IInv, TreeTyped
<1>3. Sound(index)' BY <1>0 DEF IInv, Sound, EntryType
<1>4. AddingSound'
  <2>1. CASE adding = None
    BY <2>1 DEF AddingSound, Disturbed
  <2>2. CASE adding # None
    <3>1. adding'.index = adding.index /\ adding'.file = adding.file
      BY <2>2 DEF IInv, AddingSound, Disturbed
    <3>2. Sound(adding.index)'
      BY <2>2, <3>1, <1>0 DEF IInv, AddingSound, Sound, EntryType
    <3>3. adding.file # None => adding.file.mtime <= clock'
      BY <2>2, <1>0 DEF IInv, AddingSound, StatType
    <3> QED BY <2>2, <3>1, <3>2, <3>3 DEF IInv, AddingSound, Disturbed
  <2> QED BY <2>1, <2>2
<1> QED BY <1>0, <1>1, <1>2, <1>3, <1>4 DEF IInv

\* A write is younger than every entry.
LEMMA FileWritten ==
    ASSUME IInv, NEW p \in Path, NEW f \in FileType, clock' = clock + 1,
           f.mtime = clock', work' = [work EXCEPT ![p] = f],
           UNCHANGED <<index, tree>>, adding' = Disturbed
    PROVE  IInv'
<1>0. clock \in Nat /\ clock' \in Nat BY DEF IInv
<1>1. WorkTyped' BY <1>0 DEF IInv, WorkTyped, FileType
<1>2. TreeTyped' BY DEF IInv, TreeTyped
<1>3. Sound(index)' BY <1>0 DEF Sound, EntryType, IInv, WorkTyped
<1>4. AddingSound'
  <2>1. CASE adding = None
    BY <2>1 DEF AddingSound, Disturbed
  <2>2. CASE adding # None
    <3>1. adding'.index = adding.index /\ adding'.file = adding.file
      BY <2>2 DEF IInv, AddingSound, Disturbed
    <3>3. adding.file # None => adding.file.mtime <= clock'
      BY <2>2, <1>0 DEF IInv, AddingSound, StatType
    <3>2. Sound(adding.index)'
      BY <2>2, <3>1, <1>0 DEF IInv, WorkTyped, AddingSound, Sound, EntryType
    <3> QED BY <2>2, <3>1, <3>2, <3>3 DEF IInv, AddingSound, Disturbed
  <2> QED BY <2>1, <2>2
<1> QED BY <1>0, <1>1, <1>2, <1>3, <1>4 DEF IInv

\* A step of add on its own keeps the invariant when what it works on stays sound.
LEMMA AddSteps ==
    ASSUME IInv, UNCHANGED <<work, index, tree, clock>>, AddingSound'
    PROVE  IInv'
BY DEF IInv, WorkTyped, TreeTyped, Sound

\* StartAdd copies the index that is there.
LEMMA StartAddSound ==
    ASSUME IInv, NEW all \in BOOLEAN, NEW file, NEW todo,
           file # None => file \in StatType /\ file.mtime <= clock,
           StartAdd(all, file, todo)
    PROVE  AddingSound'
<1>1. Sound(index)' BY DEF StartAdd, IInv, Sound
<1>2. adding'.index = index' /\ adding'.file = file BY DEF StartAdd
<1> QED BY <1>1, <1>2 DEF StartAdd, AddingSound, Sound

\* Every step keeps the invariant.
LEMMA NextIInv == ASSUME IInv, [Next]_vars PROVE IInv'
<1>1. ASSUME NEW p \in Path, NEW b \in Blob, Edit(p, b) PROVE IInv'
  <2> DEFINE f == [blob |-> b, mtime |-> clock', exec |-> IsFile(p) /\ work[p].exec]
  <2>1. f \in FileType
    <3>1. (IsFile(p) /\ work[p].exec) \in BOOLEAN
      BY DEF IInv, WorkTyped, IsFile, FileType
    <3> QED BY <1>1, <3>1 DEF Edit, IInv, FileType
  <2> QED BY <1>1, <2>1, FileWritten DEF Edit
<1>2. ASSUME NEW p \in Path, Delete(p) PROVE IInv'
  BY <1>2, FilesGo DEF Delete, IInv, WorkTyped
<1>3. ASSUME NEW p \in Path, Chmod(p) PROVE IInv'
  BY <1>3, FilesGo DEF Chmod, IInv, WorkTyped, FileType, IsFile
<1>4. ASSUME NEW S \in SUBSET Patterns, WriteIgnore(S) PROVE IInv'
  BY <1>4, FilesGo DEF WriteIgnore, IInv, WorkTyped
<1>5. ASSUME NEW x, AddFile(x) PROVE IInv'
  <2>1. CASE IsFile(x) /\ StartAdd(FALSE, Stat(x), {})
    <3>1. Stat(x) \in StatType /\ Stat(x).mtime <= clock BY <2>1, StatTyped DEF IsFile
    <3> QED BY <2>1, <3>1, StartAddSound, AddSteps DEF StartAdd
  <2>2. CASE IsDir(x) /\ StartAdd(FALSE, None, Entries(x))
    BY <2>2, StartAddSound, AddSteps DEF StartAdd
  <2> QED BY <1>5, <2>1, <2>2 DEF AddFile
<1>6. ASSUME AddAll PROVE IInv'
  BY <1>6, StartAddSound, AddSteps DEF AddAll, StartAdd
<1>7. ASSUME NEW x, Visit(x) PROVE IInv'
  <2>1. CASE IsFile(x)
    <3>1. adding' = [adding EXCEPT !.todo = adding.todo \ {x}, !.file = Stat(x)]
      BY <1>7, <2>1 DEF Visit
    <3>2. Stat(x) \in StatType /\ Stat(x).mtime <= clock BY <2>1, StatTyped DEF IsFile
    <3>3. adding # None /\ AddingSound BY <1>7 DEF Visit, IInv
    <3>4. adding'.index = adding.index /\ adding'.file = Stat(x)
      BY <3>1, <3>3 DEF AddingSound
    <3>5. Sound(adding.index)' BY <1>7, <3>3, <3>4 DEF Visit, AddingSound, Sound
    <3>6. AddingSound' BY <1>7, <3>1, <3>2, <3>3, <3>4, <3>5 DEF Visit, AddingSound
    <3> QED BY <1>7, <3>6, AddSteps DEF Visit
  <2>2. CASE ~IsFile(x)
    <3>1. \/ adding' = None
          \/ \E T : adding' = [adding EXCEPT !.todo = T]
      BY <1>7, <2>2 DEF Visit
    <3>2. CASE adding' = None BY <1>7, <3>2, AddSteps DEF Visit, AddingSound
    <3>3. ASSUME NEW T, adding' = [adding EXCEPT !.todo = T] PROVE IInv'
      <4>1. adding # None /\ AddingSound BY <1>7 DEF Visit, IInv
      <4>2. adding'.index = adding.index /\ adding'.file = adding.file
        BY <3>3, <4>1 DEF AddingSound
      <4>3. Sound(adding.index)' BY <1>7, <4>1, <4>2 DEF Visit, AddingSound, Sound
      <4>4. AddingSound' BY <1>7, <3>3, <4>1, <4>2, <4>3 DEF Visit, AddingSound
      <4> QED BY <1>7, <4>4, AddSteps DEF Visit
    <3> QED BY <3>1, <3>2, <3>3
  <2> QED BY <2>1, <2>2
<1>8. ASSUME StageFile PROVE IInv'
  <2> DEFINE g == adding.file
             p == g.path
  <2>0. adding # None /\ g # None /\ AddingSound /\ p \in Path /\ g \in StatType
    BY <1>8 DEF StageFile, IInv, AddingSound, StatType
  <2>u. UNCHANGED <<work, index, tree, clock>> BY <1>8 DEF StageFile
  <2>1. CASE \/ adding' = [adding EXCEPT !.file = None]
             \/ adding' = [adding EXCEPT !.file = None, !.seen = @ \cup {p}]
    <3>1. adding'.index = adding.index /\ adding'.file = None
      BY <2>0, <2>1 DEF AddingSound
    <3>2. Sound(adding.index)' BY <2>0, <2>u, <3>1 DEF AddingSound, Sound
    <3>3. AddingSound' BY <2>0, <2>1, <3>1, <3>2 DEF AddingSound
    <3> QED BY <2>u, <3>3, AddSteps
  <2>2. CASE adding' = Staged(g)
    <3>1. CASE ~IsFile(p) BY <2>2, <3>1, <2>u, AddSteps DEF Staged, AddingSound
    <3>2. CASE IsFile(p)
      <4> DEFINE e == [blob |-> work[p].blob, exec |-> g.exec,
                       size |-> g.size, mtime |-> g.mtime]
      <4>1. adding' = [adding EXCEPT !.file = None, !.seen = @ \cup {p}, !.index[p] = e]
        BY <2>2, <3>2 DEF Staged
      <4>2. e \in EntryType /\ e.mtime <= clock
        BY <2>0, <3>2 DEF IsFile, IInv, AddingSound, WorkTyped, FileType, StatType, EntryType
      <4>3. adding'.index = [adding.index EXCEPT ![p] = e] /\ adding'.file = None
        BY <2>0, <4>1 DEF AddingSound
      <4>4. Sound(adding.index)'
        BY <2>0, <2>u, <4>2, <4>3 DEF AddingSound, Sound
      <4>5. AddingSound' BY <2>0, <4>1, <4>3, <4>4 DEF AddingSound
      <4> QED BY <2>u, <4>5, AddSteps
    <3> QED BY <3>1, <3>2
  <2> QED BY <1>8, <2>1, <2>2 DEF StageFile
<1>9. ASSUME FinishAdd PROVE IInv'
  BY <1>9 DEF FinishAdd, IInv, AddingSound, Sound, WorkTyped, TreeTyped
<1>10. ASSUME Commit PROVE IInv'
  BY <1>10 DEF Commit, WriteTree, IInv, AddingSound, Sound, WorkTyped, TreeTyped, EntryType
<1>11. ASSUME ResetMixed PROVE IInv'
  <2>1. index' = ReadTree(tree) /\ UNCHANGED <<work, tree, clock, adding>> /\ adding = None
    BY <1>11 DEF ResetMixed
  <2>2. Sound(index)'
    BY <2>1, EntryOfTyped DEF IInv, Sound, ReadTree, WorkTyped, FileType
  <2> QED BY <2>1, <2>2 DEF IInv, AddingSound, WorkTyped, TreeTyped
<1>12. ASSUME NEW p \in Path, CheckoutFile(p) PROVE IInv'
  <2> DEFINE f == [blob |-> tree[p].blob, mtime |-> clock',
                   exec |-> IF IsFile(p) THEN work[p].exec ELSE tree[p].exec]
  <2>1. f \in FileType /\ f.mtime = clock'
    BY <1>12 DEF CheckoutFile, IInv, WorkTyped, TreeTyped, FileType, IsFile
  <2>2. /\ work' = [work EXCEPT ![p] = f] /\ index' = [index EXCEPT ![p] = EntryOf(tree[p])]
        /\ clock' = clock + 1 /\ UNCHANGED <<tree, adding>> /\ adding = None
    BY <1>12 DEF CheckoutFile
  <2>3. EntryOf(tree[p]) \in EntryType /\ EntryOf(tree[p]).mtime = 0
    BY <1>12, EntryOfTyped DEF CheckoutFile, IInv
  <2>4. clock \in Nat /\ clock' \in Nat BY <2>2 DEF IInv
  <2>5. WorkTyped' BY <2>1, <2>2, <2>4 DEF IInv, WorkTyped, FileType
  <2>6. Sound(index)'
    BY <2>1, <2>2, <2>3, <2>4 DEF IInv, WorkTyped, Sound, EntryType, FileType
  <2> QED BY <2>2, <2>4, <2>5, <2>6 DEF IInv, AddingSound, TreeTyped
<1>13. ASSUME NEW dirs, NEW ignored, NEW only, Clean(dirs, ignored, only) PROVE IInv'
  BY <1>13, FilesGo DEF Clean, IInv, WorkTyped
<1>14. CASE UNCHANGED vars
  BY <1>14 DEF vars, IInv, AddingSound, Sound, WorkTyped, TreeTyped
<1> QED
  BY <1>1, <1>2, <1>3, <1>4, <1>5, <1>6, <1>7, <1>8, <1>9, <1>10, <1>11, <1>12, <1>13, <1>14
  DEF Next, User, Add

\* add.go:239: skipping the hash of a file whose size and time are those of its
\* entry never leaves another content staged - in every repository.
THEOREM StatAlwaysHonest == Spec => []StatHonest
<1>1. Init => IInv BY InitIInv
<1>2. IInv /\ [Next]_vars => IInv' BY NextIInv
<1>3. IInv => StatHonest BY IInvStatHonest
<1> QED BY <1>1, <1>2, <1>3, PTL DEF Spec
-------------------------------------------------------------------------------
(* What the walk of add -A knows *)

\* No file is in the way of another, and no two have one time.
Apart ==
    \A p, q \in OnDisk : p # q => ~IsPrefix(p, q) /\ work[p].mtime # work[q].mtime

\* What the walk has seen, the index has.
SeenStaged ==
    adding # None => adding.seen \subseteq {p \in Path : adding.index[p] # None}

TInv == IInv /\ Apart /\ ignore \subseteq Patterns /\ SeenStaged

\* What add -A is to stage.
Wanted(p) == IsFile(p) /\ ~Hidden(p) /\ ~ShouldIgnore(p, ignore, Tracked)

\* The entry that add works with is the one of the index, when size and time
\* bear it out, or a new one.
Staging(p) ==
    \/ Unchanged(index[p], Stat(p)) /\ adding.index[p] = index[p]
    \/ adding.index[p] = [blob |-> work[p].blob, exec |-> work[p].exec,
                          size |-> Size(work[p].blob), mtime |-> work[p].mtime]

\* What the walk is still to visit: a file, or a directory above one.
Listed(x) == ~Hidden(x) /\ \E p \in OnDisk : \E i \in 1 .. Len(p) : x = SubSeq(p, 1, i)

\* A path that the walk still has before it.
Ahead(p) ==
    \/ adding.file # None /\ adding.file.path = p
    \/ \E i \in 1 .. Len(p) : SubSeq(p, 1, i) \in adding.todo

\* While nobody disturbs it, add -A works with the repository as it is.
WalkInv ==
    adding # None /\ adding.quiet /\ adding.all =>
        /\ adding.proxy = Tracked /\ adding.ignore = ignore
        /\ \A x \in adding.todo : Listed(x)
        /\ adding.file # None => /\ IsFile(adding.file.path) /\ ~Hidden(adding.file.path)
                                 /\ adding.file = Stat(adding.file.path)
        /\ \A p \in Path : IF p \in adding.seen THEN Wanted(p) /\ Staging(p)
                           ELSE adding.index[p] = index[p]
        /\ \A p \in Path : Wanted(p) => p \in adding.seen \/ Ahead(p)

AInv == TInv /\ WalkInv
-------------------------------------------------------------------------------
(* Prefixes *)

\* The start of a sequence: its length, and its own starts.
LEMMA Start ==
    ASSUME NEW S, NEW p \in Seq(S), NEW i \in 1 .. Len(p)
    PROVE  /\ SubSeq(p, 1, i) \in Seq(S) /\ Len(SubSeq(p, 1, i)) = i
           /\ \A j \in 1 .. i : SubSeq(SubSeq(p, 1, i), 1, j) = SubSeq(p, 1, j)
           /\ SubSeq(p, 1, Len(p)) = p
<1>1. SubSeq(p, 1, i) \in Seq(S) /\ Len(SubSeq(p, 1, i)) = i OBVIOUS
<1>2. SubSeq(p, 1, Len(p)) = p OBVIOUS
<1>3. ASSUME NEW j \in 1 .. i
      PROVE  SubSeq(SubSeq(p, 1, i), 1, j) = SubSeq(p, 1, j)
  OBVIOUS
<1> QED BY <1>1, <1>2, <1>3

\* It is a prefix, and a strict one when it is shorter.
LEMMA StartIsPrefix ==
    ASSUME NEW S, NEW p \in Seq(S), NEW i \in 1 .. Len(p)
    PROVE  /\ IsPrefix(SubSeq(p, 1, i), p)
           /\ i < Len(p) => IsStrictPrefix(SubSeq(p, 1, i), p)
<1> DEFINE x == SubSeq(p, 1, i)
<1>1. Len(x) = i /\ SubSeq(x, 1, i) = x BY Start
<1> HIDE DEF x
<1>2. IsPrefix(x, p) BY <1>1 DEF IsPrefix, x
<1> QED BY <1>1, <1>2 DEF IsStrictPrefix, x

\* Every prefix is a start.
LEMMA PrefixIsStart ==
    ASSUME NEW S, NEW x \in Seq(S), NEW p \in Seq(S), IsPrefix(x, p), x # <<>>
    PROVE  Len(x) \in 1 .. Len(p) /\ x = SubSeq(p, 1, Len(x)) /\ (x # p => Len(x) < Len(p))
<1>1. Len(x) \in 1 .. Len(p) BY DEF IsPrefix
<1>2. SubSeq(x, 1, Len(x)) = x /\ SubSeq(p, 1, Len(p)) = p BY <1>1, Start
<1>3. x = SubSeq(p, 1, Len(x)) BY <1>2 DEF IsPrefix
<1>4. x # p => Len(x) # Len(p) BY <1>2, <1>3
<1> QED BY <1>1, <1>3, <1>4

Names == UNION {Range(q) : q \in Path}

\* Every path is a sequence of names, and not empty.
LEMMA PathIsSeq ==
    ASSUME NEW p \in Path PROVE p \in Seq(Names) /\ p # <<>> /\ Len(p) \in Nat \ {0}
<1>1. p \in Seq(Names) /\ p # <<>> BY PathAssumption DEF Names
<1> QED BY <1>1
-------------------------------------------------------------------------------
(* The walk of add -A *)

\* With the same files, index and rules, every question has the same answer.
LEMMA SameAnswers ==
    ASSUME UNCHANGED <<work, index, ignore>>
    PROVE  /\ Tracked' = Tracked /\ OnDisk' = OnDisk
           /\ \A x : Hidden(x)' = Hidden(x) /\ Listed(x)' = Listed(x)
           /\ \A p : Wanted(p)' = Wanted(p) /\ Stat(p)' = Stat(p)
                        /\ IsFile(p)' = IsFile(p)
<1>1. Tracked' = Tracked /\ OnDisk' = OnDisk BY DEF Tracked, OnDisk
<1>2. \A x : Hidden(x)' = Hidden(x) BY <1>1 DEF Hidden, ShouldIgnore
<1>3. \A x : Listed(x)' = Listed(x) BY <1>1, <1>2 DEF Listed
<1>4. \A p : Wanted(p)' = Wanted(p) BY <1>1, <1>2 DEF Wanted, IsFile, ShouldIgnore
<1>5. \A p : Stat(p)' = Stat(p) /\ IsFile(p)' = IsFile(p) BY DEF Stat, IsFile
<1> QED BY <1>1, <1>2, <1>3, <1>4, <1>5

\* Above a file there are directories, and no file.
LEMMA AboveFile ==
    ASSUME Apart, NEW p \in OnDisk, NEW i \in 1 .. Len(p)
    PROVE  /\ IsFile(SubSeq(p, 1, i)) => SubSeq(p, 1, i) = p
           /\ i < Len(p) => IsDir(SubSeq(p, 1, i)) /\ ~IsFile(SubSeq(p, 1, i))
<1> DEFINE x == SubSeq(p, 1, i)
<1>0. p \in Path /\ work[p] # None /\ p \in Seq(Names) BY PathIsSeq DEF OnDisk
<1>1. IsPrefix(x, p) /\ (i < Len(p) => IsStrictPrefix(x, p)) BY <1>0, StartIsPrefix
<1> HIDE DEF x
<1>2. IsFile(x) => x = p BY <1>1 DEF Apart, IsFile, OnDisk
<1>3. i < Len(p) => IsDir(x) /\ x # p
  BY <1>0, <1>1 DEF IsDir, Below, IsStrictPrefix
<1> QED BY <1>2, <1>3 DEF x

\* An element of the list is a sequence that is a file, or has files below.
LEMMA ListedIsThere ==
    ASSUME Apart, NEW x, Listed(x)
    PROVE  x \in Seq(Names) /\ x # <<>> /\ (IsFile(x) \/ IsDir(x))
<1>1. PICK p \in OnDisk : \E i \in 1 .. Len(p) : x = SubSeq(p, 1, i) BY DEF Listed
<1>2. PICK i \in 1 .. Len(p) : x = SubSeq(p, 1, i) BY <1>1
<1>3. p \in Seq(Names) /\ IsFile(p) BY PathIsSeq DEF OnDisk, IsFile
<1>4. x \in Seq(Names) /\ Len(x) = i /\ SubSeq(p, 1, Len(p)) = p BY <1>2, <1>3, Start
<1>5. i = Len(p) => IsFile(x) BY <1>2, <1>3, <1>4
<1>6. i < Len(p) => IsDir(x) BY <1>2, AboveFile
<1>7. i = Len(p) \/ i < Len(p) BY <1>3
<1>8. x # <<>> BY <1>4
<1> QED BY <1>4, <1>5, <1>6, <1>7, <1>8

\* What a directory lists is what is next above the files that are in it.
LEMMA EntriesListed ==
    ASSUME NEW x, x = <<>> \/ /\ x \in Seq(Names) /\ ~Hidden(x)
                              /\ ~ShouldIgnore(x, ignore, Tracked),
           NEW y \in Entries(x)
    PROVE  Listed(y)
<1>1. PICK p \in Below(x) : work[p] # None /\ y = SubSeq(p, 1, Len(x) + 1)
  BY DEF Entries
<1>2. p \in OnDisk /\ p \in Seq(Names) /\ p # <<>> /\ Len(p) \in Nat \ {0}
  BY <1>1, PathIsSeq DEF Below, OnDisk
<1>e. <<>> \in Seq(Names) OBVIOUS
<1>3. x \in Seq(Names) BY <1>e
<1>4. Len(x) + 1 \in 1 .. Len(p)
  <2>1. CASE x = <<>> BY <1>2, <2>1
  <2>2. CASE x # <<>> BY <1>1, <1>2, <1>3, <2>2, PrefixIsStart DEF Below, IsStrictPrefix
  <2> QED BY <2>1, <2>2
<1>5. ~Hidden(y)
  <2>1. SUFFICES ASSUME NEW j \in 1 .. Len(y) - 1
                 PROVE  ~ShouldIgnore(SubSeq(y, 1, j), ignore, Tracked)
    BY DEF Hidden, Directories
  <2>2. Len(y) = Len(x) + 1 /\ SubSeq(y, 1, j) = SubSeq(p, 1, j) /\ j \in 1 .. Len(x)
    BY <1>1, <1>2, <1>3, <1>4, Start
  <2>3. x # <<>> BY <2>2
  <2>4. x = SubSeq(p, 1, Len(x)) /\ Len(x) \in 1 .. Len(p)
    BY <1>1, <1>2, <1>3, <2>3, PrefixIsStart DEF Below, IsStrictPrefix
  <2>5. SubSeq(x, 1, j) = SubSeq(p, 1, j) BY <1>2, <2>2, <2>4, Start
  <2>6. CASE j = Len(x) BY <2>2, <2>3, <2>4, <2>6
  <2>7. CASE j # Len(x)
    <3>1. j \in 1 .. Len(x) - 1 BY <2>2, <2>7
    <3> QED BY <2>2, <2>3, <2>5, <3>1 DEF Hidden, Directories
  <2> QED BY <2>6, <2>7
<1> QED BY <1>1, <1>2, <1>4, <1>5 DEF Listed

\* Nothing is lost when a directory is replaced by what it lists.
LEMMA EntriesCover ==
    ASSUME NEW p \in OnDisk, NEW i \in 0 .. Len(p) - 1
    PROVE  SubSeq(p, 1, i + 1) \in Entries(SubSeq(p, 1, i))
<1>0. p \in Path /\ work[p] # None /\ p \in Seq(Names) BY PathIsSeq DEF OnDisk
<1>1. IsStrictPrefix(SubSeq(p, 1, i), p) /\ Len(SubSeq(p, 1, i)) = i
  <2>1. CASE i = 0
    <3>1. SubSeq(p, 1, 0) = <<>> /\ p # <<>> BY <1>0, PathIsSeq
    <3> QED BY <2>1, <3>1, <1>0 DEF IsStrictPrefix, IsPrefix
  <2>2. CASE i # 0 BY <1>0, <2>2, Start, StartIsPrefix
  <2> QED BY <2>1, <2>2
<1> QED BY <1>0, <1>1 DEF Entries, Below
-------------------------------------------------------------------------------
(* The other parts of the invariant, step by step *)

\* Files that stay keep apart.
LEMMA StayingApart ==
    ASSUME Apart, \A p \in Path : work'[p] # None =>
                      work[p] # None /\ work'[p].mtime = work[p].mtime
    PROVE  Apart'
BY DEF Apart, OnDisk

\* A file is only written where no other is in the way.
LEMMA WrittenApart ==
    ASSUME IInv, Apart, NEW p \in Path, Free(p), NEW f \in FileType, f.mtime = clock',
           clock' = clock + 1, work' = [work EXCEPT ![p] = f]
    PROVE  Apart'
<1>1. \A q \in OnDisk : q # p => ~IsPrefix(p, q) /\ ~IsPrefix(q, p)
  BY DEF Free, IsDir, Below, IsStrictPrefix, OnDisk
<1>2. \A q \in OnDisk : work[q].mtime # f.mtime
  BY DEF OnDisk, IInv, WorkTyped, FileType
<1>3. /\ \A q \in Path : q # p => work'[q] = work[q]
      /\ work'[p] = f
  BY DEF IInv, WorkTyped
<1> QED BY <1>1, <1>2, <1>3 DEF Apart, OnDisk

\* Whatever the user does, and whatever command runs, files keep apart.
LEMMA NextApart == ASSUME IInv, Apart, [Next]_vars PROVE Apart'
<1>1. ASSUME NEW p \in Path, NEW b \in Blob, Edit(p, b) PROVE Apart'
  <2> DEFINE f == [blob |-> b, mtime |-> clock', exec |-> IsFile(p) /\ work[p].exec]
  <2>1. f \in FileType
    <3>1. (IsFile(p) /\ work[p].exec) \in BOOLEAN
      BY DEF IInv, WorkTyped, IsFile, FileType
    <3> QED BY <1>1, <3>1 DEF Edit, IInv, FileType
  <2> QED BY <1>1, <2>1, WrittenApart DEF Edit
<1>2. ASSUME NEW p \in Path, Delete(p) PROVE Apart'
  BY <1>2, StayingApart DEF Delete, IInv, WorkTyped
<1>3. ASSUME NEW p \in Path, Chmod(p) PROVE Apart'
  BY <1>3, StayingApart DEF Chmod, IInv, WorkTyped, FileType, IsFile
<1>4. ASSUME NEW p \in Path, CheckoutFile(p) PROVE Apart'
  <2> DEFINE f == [blob |-> tree[p].blob, mtime |-> clock',
                   exec |-> IF IsFile(p) THEN work[p].exec ELSE tree[p].exec]
  <2>1. f \in FileType /\ f.mtime = clock'
    BY <1>4 DEF CheckoutFile, IInv, WorkTyped, TreeTyped, FileType, IsFile
  <2> QED BY <1>4, <2>1, WrittenApart DEF CheckoutFile
<1>5. ASSUME NEW dirs, NEW ignored, NEW only, Clean(dirs, ignored, only) PROVE Apart'
  BY <1>5, StayingApart DEF Clean, IInv, WorkTyped
<1>6. ASSUME \/ \E S \in SUBSET Patterns : WriteIgnore(S)
             \/ Add \/ Commit \/ ResetMixed \/ UNCHANGED vars
      PROVE  Apart'
  <2>1. work' = work
    BY <1>6 DEF WriteIgnore, Add, AddFile, AddAll, StartAdd, Visit, StageFile, FinishAdd,
                Commit, ResetMixed, vars
  <2> QED BY <2>1, StayingApart
<1> QED BY <1>1, <1>2, <1>3, <1>4, <1>5, <1>6 DEF Next, User

\* The user disturbs the add that is under way.
LEMMA DisturbedAdd ==
    ASSUME IInv, adding' = Disturbed
    PROVE  \/ adding = None /\ adding' = None
           \/ /\ adding # None /\ ~adding'.quiet
              /\ adding'.seen = adding.seen /\ adding'.index = adding.index
BY DEF IInv, AddingSound, Disturbed

\* Once nothing is under way, or what is under way is disturbed, the walk owes nothing.
LEMMA NoWalk ==
    ASSUME adding' = None \/ ~adding'.quiet \/ ~adding'.all PROVE WalkInv'
BY DEF WalkInv
\* The walk of add -A begins with what the root lists.
LEMMA WalkBegins == ASSUME AInv, AddAll PROVE WalkInv'
<1>1. /\ UNCHANGED <<work, index, ignore>>
      /\ adding' = [all |-> TRUE, index |-> index, proxy |-> Tracked, ignore |-> ignore,
                    todo |-> Entries(<<>>), file |-> None, seen |-> {}, quiet |-> TRUE]
  BY DEF AddAll, StartAdd
<1>2. ASSUME NEW x \in Entries(<<>>) PROVE Listed(x)
  BY <1>2, EntriesListed
<1>3. ASSUME NEW p \in Path, Wanted(p)
      PROVE  \E j \in 1 .. Len(p) : SubSeq(p, 1, j) \in Entries(<<>>)
  <2>1. p \in OnDisk /\ p \in Seq(Names) /\ Len(p) \in Nat \ {0}
    BY <1>3, PathIsSeq DEF Wanted, IsFile, OnDisk
  <2>2. SubSeq(p, 1, 0) = <<>> /\ 0 \in 0 .. Len(p) - 1 BY <2>1
  <2>3. SubSeq(p, 1, 0 + 1) \in Entries(<<>>) BY <2>1, <2>2, EntriesCover
  <2> QED BY <2>1, <2>3
<1> QED BY <1>1, <1>2, <1>3, SameAnswers DEF WalkInv, Ahead

\* The walk comes to a file, or puts what a directory lists in its place -
\* unless the rules hide it.
LEMMA WalkVisits == ASSUME AInv, NEW x, Visit(x) PROVE WalkInv'
<1>1. UNCHANGED <<work, index, ignore>> /\ adding # None /\ adding.file = None
      /\ x \in adding.todo
  BY DEF Visit
<1>2. AddingSound BY DEF AInv, TInv, IInv
<1> SUFFICES ASSUME adding' # None, adding'.quiet, adding'.all PROVE WalkInv'
  BY NoWalk
<1>3. CASE IsFile(x)
  <2>1. adding' = [adding EXCEPT !.todo = adding.todo \ {x}, !.file = Stat(x)]
    BY <1>3 DEF Visit
  <2>2. /\ adding'.quiet = adding.quiet /\ adding'.all = adding.all
        /\ adding'.proxy = adding.proxy /\ adding'.ignore = adding.ignore
        /\ adding'.todo = adding.todo \ {x} /\ adding'.file = Stat(x)
        /\ adding'.seen = adding.seen /\ adding'.index = adding.index
    BY <1>1, <1>2, <2>1 DEF AddingSound
  <2>3. adding.quiet /\ adding.all BY <2>2
  <2>4. ~Hidden(x) BY <1>1, <2>3 DEF AInv, WalkInv, Listed
  <2>5. Stat(x).path = x /\ Stat(x) # None
    BY <1>3, StatTyped, NoneAssumption DEF Stat, StatType, AInv, TInv, IsFile
  <2>6. ASSUME NEW p \in Path, Wanted(p), p \notin adding.seen, p # x
        PROVE  \E j \in 1 .. Len(p) : SubSeq(p, 1, j) \in adding'.todo
    <3>1. PICK j \in 1 .. Len(p) : SubSeq(p, 1, j) \in adding.todo
      BY <1>1, <2>3, <2>6 DEF AInv, WalkInv, Ahead
    <3>2. p \in OnDisk BY <2>6 DEF Wanted, IsFile, OnDisk
    <3>3. SubSeq(p, 1, j) # x BY <1>3, <2>6, <3>2, AboveFile DEF AInv, TInv
    <3> QED BY <2>2, <3>1, <3>3
  <2>8. \A p \in Path : IF p \in adding.seen THEN Wanted(p) /\ Staging(p)
                        ELSE adding.index[p] = index[p]
    BY <1>1, <2>3 DEF AInv, WalkInv
  <2>9. \A p \in Path : Staging(p)' = Staging(p)
    BY <1>1, <2>2 DEF Staging, Unchanged, Stat
  <2>10. \A p \in Path : Wanted(p) => p \in adding'.seen \/ Ahead(p)'
    BY <2>2, <2>5, <2>6 DEF Ahead
  <2>11. adding.proxy = Tracked /\ adding.ignore = ignore /\ \A y \in adding.todo : Listed(y)
    BY <1>1, <2>3 DEF AInv, WalkInv
  <2> QED
    BY <1>1, <1>3, <2>2, <2>4, <2>5, <2>8, <2>9, <2>10, <2>11, SameAnswers DEF WalkInv
<1>4. CASE ~IsFile(x)
  <2> DEFINE shut == ShouldIgnore(x, adding.ignore, adding.proxy)
             T == IF shut THEN adding.todo \ {x} ELSE (adding.todo \ {x}) \cup Entries(x)
  <2>1. IsDir(x) /\ adding' = [adding EXCEPT !.todo = T]
    BY <1>4 DEF Visit
  <2> HIDE DEF T
  <2>2. /\ adding'.quiet = adding.quiet /\ adding'.all = adding.all
        /\ adding'.proxy = adding.proxy /\ adding'.ignore = adding.ignore
        /\ adding'.todo = T /\ adding'.file = None
        /\ adding'.seen = adding.seen /\ adding'.index = adding.index
    BY <1>1, <1>2, <2>1 DEF AddingSound
  <2>3. adding.quiet /\ adding.all BY <2>2
  <2>4. adding.proxy = Tracked /\ adding.ignore = ignore /\ \A y \in adding.todo : Listed(y)
    BY <1>1, <2>3 DEF AInv, WalkInv
  <2>5. x \in Seq(Names) /\ x # <<>> /\ ~Hidden(x)
    BY <1>1, <2>4, ListedIsThere DEF AInv, TInv, Listed
  <2>6. \A y \in T : Listed(y) BY <2>4, <2>5, EntriesListed DEF T
  <2>7. ASSUME NEW p \in Path, Wanted(p), p \notin adding.seen
        PROVE  \E j \in 1 .. Len(p) : SubSeq(p, 1, j) \in T
    <3>1. PICK j \in 1 .. Len(p) : SubSeq(p, 1, j) \in adding.todo
      BY <1>1, <2>3, <2>7 DEF AInv, WalkInv, Ahead
    <3>2. p \in OnDisk /\ p \in Seq(Names) /\ IsFile(p) /\ ~Hidden(p)
      BY <2>7, PathIsSeq DEF Wanted, IsFile, OnDisk
    <3>3. CASE SubSeq(p, 1, j) # x BY <3>1, <3>3 DEF T
    <3>4. CASE SubSeq(p, 1, j) = x
      <4>1. j # Len(p) BY <1>4, <3>2, <3>4, Start
      <4>2. j \in 0 .. Len(p) - 1 /\ j \in 1 .. Len(p) - 1 /\ j + 1 \in 1 .. Len(p)
        BY <3>2, <4>1
      <4>3. ~shut BY <2>4, <3>2, <3>4, <4>2 DEF Hidden, Directories
      <4>4. SubSeq(p, 1, j + 1) \in Entries(x) BY <3>2, <3>4, <4>2, EntriesCover
      <4> QED BY <4>2, <4>3, <4>4 DEF T
    <3> QED BY <3>3, <3>4
  <2>8. \A p \in Path : IF p \in adding.seen THEN Wanted(p) /\ Staging(p)
                        ELSE adding.index[p] = index[p]
    BY <1>1, <2>3 DEF AInv, WalkInv
  <2>9. \A p \in Path : Staging(p)' = Staging(p)
    BY <1>1, <2>2 DEF Staging, Unchanged, Stat
  <2>10. \A p \in Path : Wanted(p) => p \in adding'.seen \/ Ahead(p)'
    BY <2>2, <2>7 DEF Ahead
  <2> QED
    BY <1>1, <2>2, <2>4, <2>6, <2>8, <2>9, <2>10, SameAnswers DEF WalkInv
<1> QED BY <1>3, <1>4
\* stageFile keeps the entry, or makes a new one with what is in the file now.
LEMMA WalkStages == ASSUME AInv, StageFile PROVE WalkInv'
<1> DEFINE f == adding.file
           p == f.path
           ignored == ShouldIgnore(p, adding.ignore, adding.proxy)
           same == Unchanged(adding.index[p], f)
           e == [blob |-> work[p].blob, exec |-> f.exec, size |-> f.size, mtime |-> f.mtime]
           ix == IF ignored \/ same THEN adding.index ELSE [adding.index EXCEPT ![p] = e]
           sn == IF ignored THEN adding.seen ELSE adding.seen \cup {p}
<1>1. UNCHANGED <<work, index, ignore>> /\ adding # None /\ f # None
  BY DEF StageFile
<1>2. AddingSound /\ p \in Path /\ adding.index = [q \in Path |-> adding.index[q]]
  BY <1>1 DEF AInv, TInv, IInv, AddingSound, Sound, StatType
<1> SUFFICES ASSUME adding' # None, adding'.quiet, adding'.all PROVE WalkInv'
  BY NoWalk
<1>3. /\ adding'.quiet = adding.quiet /\ adding'.all = adding.all
      /\ adding'.proxy = adding.proxy /\ adding'.ignore = adding.ignore
      /\ adding'.todo = adding.todo /\ adding'.file = None
      /\ adding'.seen = sn /\ adding'.index = ix
  <2>1. CASE ignored BY <1>1, <1>2, <2>1 DEF StageFile, AddingSound
  <2>2. CASE ~ignored /\ same BY <1>1, <1>2, <2>2 DEF StageFile, AddingSound
  <2>3. CASE ~ignored /\ ~same
    <3>1. adding' = Staged(f) BY <2>3 DEF StageFile
    <3>2. adding' = [adding EXCEPT !.file = None, !.seen = @ \cup {p}, !.index[p] = e]
      BY <3>1 DEF Staged
    <3> QED BY <1>1, <1>2, <2>3, <3>2 DEF AddingSound
  <2> QED BY <2>1, <2>2, <2>3
<1>4. /\ adding.proxy = Tracked /\ adding.ignore = ignore
      /\ IsFile(p) /\ ~Hidden(p) /\ f = Stat(p)
      /\ \A q \in Path : IF q \in adding.seen THEN Wanted(q) /\ Staging(q)
                         ELSE adding.index[q] = index[q]
      /\ \A q \in Path : Wanted(q) => q \in adding.seen \/ Ahead(q)
      /\ \A y \in adding.todo : Listed(y)
  BY <1>1, <1>3 DEF AInv, WalkInv
<1>5. ~ignored <=> Wanted(p) BY <1>4 DEF Wanted
<1>6. \A q \in Path : q # p => ix[q] = adding.index[q] BY <1>2
<1>7. ASSUME NEW q \in Path, q # p PROVE Staging(q)' = Staging(q)
  <2>1. adding'.index[q] = adding.index[q] BY <1>3, <1>6, <1>7
  <2>2. Stat(q)' = Stat(q) /\ index'[q] = index[q] BY <1>1 DEF Stat
  <2> HIDE DEF p, ix, sn
  <2> QED BY <1>1, <2>1, <2>2 DEF Staging, Unchanged
<1>8. ASSUME NEW q \in Path, q = p, ~ignored PROVE Staging(q)'
  <2>1. CASE same
    <3>1. ix[q] = adding.index[q] BY <2>1
    <3>2. Staging(q) BY <1>4, <1>8, <2>1 DEF Staging
    <3> QED BY <1>1, <1>3, <3>1, <3>2 DEF Staging, Unchanged, Stat
  <2>2. CASE ~same
    <3>1. ix[q] = e BY <1>2, <1>8, <2>2
    <3> QED BY <1>1, <1>3, <1>4, <1>8, <3>1 DEF Staging, Stat
  <2> QED BY <2>1, <2>2
<1>9. ASSUME NEW q \in Path
      PROVE  IF q \in sn THEN Wanted(q) /\ Staging(q)' ELSE ix[q] = index[q]
  <2>1. CASE q = p /\ ignored
    <3>1. q \notin adding.seen /\ ix[q] = adding.index[q] BY <1>4, <1>5, <2>1
    <3> QED BY <1>4, <2>1, <3>1
  <2>2. CASE q = p /\ ~ignored BY <1>5, <1>8, <2>2
  <2>3. CASE q # p BY <1>4, <1>6, <1>7, <2>3
  <2> QED BY <2>1, <2>2, <2>3
<1>10. \A q \in Path : Wanted(q) => q \in sn \/ Ahead(q)'
  BY <1>1, <1>3, <1>4, <1>5 DEF Ahead
<1> HIDE DEF f, p, ignored, same, e, ix, sn
<1> QED BY <1>1, <1>3, <1>4, <1>9, <1>10, SameAnswers DEF WalkInv

\* Every step keeps what the walk knows.
LEMMA NextWalk == ASSUME AInv, [Next]_vars PROVE WalkInv'
<1>1. ASSUME User PROVE WalkInv'
  <2>1. adding' = Disturbed BY <1>1 DEF User, Edit, Delete, Chmod, WriteIgnore
  <2> QED BY <2>1, DisturbedAdd, NoWalk DEF AInv, TInv
<1>2. ASSUME NEW x, AddFile(x) PROVE WalkInv'
  BY <1>2, NoWalk DEF AddFile, StartAdd
<1>3. ASSUME FinishAdd PROVE WalkInv' BY <1>3, NoWalk DEF FinishAdd
<1>4. ASSUME \/ Commit \/ ResetMixed \/ \E p \in Path : CheckoutFile(p)
             \/ \E dirs, ignored, only \in BOOLEAN : Clean(dirs, ignored, only)
      PROVE  WalkInv'
  BY <1>4, NoWalk DEF Commit, ResetMixed, CheckoutFile, Clean
<1>5. CASE UNCHANGED vars
  BY <1>5, SameAnswers DEF vars, AInv, WalkInv, Ahead, Staging, Unchanged, Stat
<1> QED BY <1>1, <1>2, <1>3, <1>4, <1>5, WalkBegins, WalkVisits, WalkStages DEF Next, Add

\* Every step keeps what was seen in the index being worked on.
LEMMA NextSeen == ASSUME IInv, SeenStaged, [Next]_vars PROVE SeenStaged'
<1>0. AddingSound BY DEF IInv
<1>1. ASSUME adding' = Disturbed PROVE SeenStaged'
  BY <1>1, DisturbedAdd DEF SeenStaged
<1>2. ASSUME NEW all, NEW file, NEW todo, StartAdd(all, file, todo) PROVE SeenStaged'
  BY <1>2 DEF StartAdd, SeenStaged
<1>3. ASSUME adding' = None PROVE SeenStaged' BY <1>3 DEF SeenStaged
<1>4. ASSUME adding' = adding PROVE SeenStaged' BY <1>4 DEF SeenStaged
<1>5. ASSUME NEW x, Visit(x) PROVE SeenStaged'
  <2>1. CASE adding' = None BY <2>1, <1>3
  <2>2. CASE adding' # None
    <3>1. adding # None /\ \/ \E T, g : adding' = [adding EXCEPT !.todo = T, !.file = g]
                           \/ \E T : adding' = [adding EXCEPT !.todo = T]
      BY <1>5, <2>2 DEF Visit
    <3>2. adding'.seen = adding.seen /\ adding'.index = adding.index
      BY <1>0, <3>1 DEF AddingSound
    <3> QED BY <3>1, <3>2 DEF SeenStaged
  <2> QED BY <2>1, <2>2
<1>6. ASSUME StageFile PROVE SeenStaged'
  <2> DEFINE f == adding.file
             p == f.path
             e == [blob |-> work[p].blob, exec |-> f.exec, size |-> f.size, mtime |-> f.mtime]
  <2>1. /\ adding # None /\ p \in Path /\ f \in StatType
        /\ adding.index = [q \in Path |-> adding.index[q]]
    BY <1>0, <1>6 DEF StageFile, AddingSound, Sound, StatType
  <2>2. CASE adding' = [adding EXCEPT !.file = None]
    <3>1. adding'.seen = adding.seen /\ adding'.index = adding.index
      BY <1>0, <2>1, <2>2 DEF AddingSound
    <3> QED BY <2>1, <3>1 DEF SeenStaged
  <2>3. CASE /\ Unchanged(adding.index[p], f)
             /\ adding' = [adding EXCEPT !.file = None, !.seen = @ \cup {p}]
    <3>1. adding'.seen = adding.seen \cup {p} /\ adding'.index = adding.index
      BY <1>0, <2>1, <2>3 DEF AddingSound
    <3> QED BY <2>1, <2>3, <3>1 DEF SeenStaged, Unchanged
  <2>4. CASE adding' = Staged(f)
    <3>1. CASE ~IsFile(p) BY <1>3, <2>4, <3>1 DEF Staged
    <3>2. CASE IsFile(p)
      <4>1. adding' = [adding EXCEPT !.file = None, !.seen = @ \cup {p}, !.index[p] = e]
        BY <2>4, <3>2 DEF Staged
      <4>2. /\ adding'.seen = adding.seen \cup {p}
            /\ adding'.index = [adding.index EXCEPT ![p] = e]
        BY <1>0, <2>1, <4>1 DEF AddingSound
      <4>3. e # None
        <5>1. e \in EntryType
          BY <2>1, <3>2 DEF IsFile, IInv, WorkTyped, FileType, StatType, EntryType
        <5> QED BY <5>1, NoneAssumption DEF EntryType
      <4> QED BY <2>1, <4>2, <4>3 DEF SeenStaged
    <3> QED BY <3>1, <3>2
  <2> QED BY <1>6, <2>2, <2>3, <2>4 DEF StageFile
<1>7. CASE User BY <1>1, <1>7 DEF User, Edit, Delete, Chmod, WriteIgnore
<1>8. CASE \/ Commit \/ ResetMixed \/ \E p \in Path : CheckoutFile(p)
           \/ \E dirs, ignored, only \in BOOLEAN : Clean(dirs, ignored, only)
           \/ UNCHANGED vars
  BY <1>4, <1>8 DEF Commit, ResetMixed, CheckoutFile, Clean, vars
<1>9. CASE (\E x : AddFile(x)) \/ AddAll BY <1>2, <1>9 DEF AddFile, AddAll
<1>10. CASE FinishAdd BY <1>3, <1>10 DEF FinishAdd
<1> QED BY <1>5, <1>6, <1>7, <1>8, <1>9, <1>10 DEF Next, Add

\* The patterns are those that .kitignore may have.
LEMMA NextPatterns ==
    ASSUME ignore \subseteq Patterns, [Next]_vars PROVE ignore' \subseteq Patterns
<1>1. ASSUME NEW S \in SUBSET Patterns, WriteIgnore(S) PROVE ignore' \subseteq Patterns
  BY <1>1 DEF WriteIgnore
<1>2. ASSUME NEW p \in Path, \/ \E b \in Blob : Edit(p, b)
                             \/ Delete(p) \/ Chmod(p) \/ CheckoutFile(p)
      PROVE  ignore' = ignore
  BY <1>2 DEF Edit, Delete, Chmod, CheckoutFile
<1>3. ASSUME \/ Add \/ Commit \/ ResetMixed \/ UNCHANGED vars
             \/ \E dirs, ignored, only \in BOOLEAN : Clean(dirs, ignored, only)
      PROVE  ignore' = ignore
  BY <1>3 DEF Add, AddFile, AddAll, StartAdd, Visit, StageFile, FinishAdd, Commit, ResetMixed,
              Clean, vars
<1> QED BY <1>1, <1>2, <1>3 DEF Next, User

\* Every step keeps the whole invariant, and the empty repository satisfies it.
LEMMA NextAInv == ASSUME AInv, [Next]_vars PROVE AInv'
BY NextIInv, NextApart, NextSeen, NextPatterns, NextWalk DEF AInv, TInv

LEMMA InitAInv == Init => AInv
BY InitIInv DEF Init, AInv, TInv, Apart, OnDisk, SeenStaged, WalkInv
-------------------------------------------------------------------------------
(* What follows *)

\* The invariant has the types in it.
LEMMA TInvTypeOK == TInv => TypeOK
<1> SUFFICES ASSUME TInv PROVE TypeOK OBVIOUS
<1>1. ASSUME NEW p \in OnDisk
      PROVE  /\ work[p].blob \in Blob /\ work[p].exec \in BOOLEAN
             /\ work[p].mtime \in 1 .. clock
             /\ \A q \in OnDisk \ {p} :
                   ~IsPrefix(p, q) /\ work[p].mtime # work[q].mtime
  BY <1>1 DEF OnDisk, TInv, IInv, WorkTyped, FileType, Apart
<1>2. ASSUME NEW p \in Tracked
      PROVE  /\ index[p].blob \in Blob /\ index[p].exec \in BOOLEAN
             /\ index[p].mtime \in 0 .. clock /\ index[p].size \in Nat
  BY <1>2 DEF Tracked, TInv, IInv, Sound, EntryType
<1> QED BY <1>1, <1>2 DEF TInv, IInv, TreeTyped, SeenStaged, TypeOK

\* add.go:108: an add -A that nobody disturbs stages what is in every file that
\* no rule hides, and nothing else.
LEMMA AddAllStages == ASSUME AInv PROVE StagesAll
<1> SUFFICES ASSUME AllAdded, NEW p \in Path
             PROVE  IF Wanted(p)
                    THEN /\ index'[p] # None /\ index'[p].blob = work[p].blob
                         /\ index'[p].exec = work[p].exec \/ Unchanged(index[p], Stat(p))
                    ELSE index'[p] = None
  BY DEF StagesAll, Wanted
<1>1. /\ adding # None /\ adding.all /\ adding.quiet /\ adding.file = None /\ adding.todo = {}
      /\ index'[p] = IF p \in adding.seen THEN adding.index[p] ELSE None
  BY DEF AllAdded, FinishAdd
<1>2. CASE ~Wanted(p) BY <1>1, <1>2 DEF AInv, WalkInv
<1>3. CASE Wanted(p)
  <2>1. p \in adding.seen BY <1>1, <1>3 DEF AInv, WalkInv, Ahead
  <2>2. Staging(p) /\ index'[p] = adding.index[p] BY <1>1, <2>1 DEF AInv, WalkInv
  <2>3. index'[p] # None BY <2>1, <2>2, <1>1 DEF AInv, TInv, SeenStaged
  <2>4. CASE adding.index[p] = index[p] /\ Unchanged(index[p], Stat(p))
    <3>1. index[p].blob = work[p].blob
      BY <1>3, <2>4 DEF Unchanged, Stat, Wanted, IsFile, AInv, TInv, IInv, Sound
    <3> QED BY <1>3, <2>2, <2>3, <2>4, <3>1
  <2>5. CASE adding.index[p] = [blob |-> work[p].blob, exec |-> work[p].exec,
                                size |-> Size(work[p].blob), mtime |-> work[p].mtime]
    BY <1>3, <2>2, <2>3, <2>5
  <2> QED BY <2>2, <2>4, <2>5 DEF Staging
<1> QED BY <1>2, <1>3

\* When status shows nothing, all the entries are as they were: those that are
\* not looked at again, and those that are.
LEMMA CleanStagesNothing == ASSUME AInv PROVE StagesNothing
<1> SUFFICES ASSUME AllAdded, NothingToCommit, \A p \in Tracked : IsFile(p) /\ ~Hidden(p),
                    NEW p \in Path, ~Overlooked(p)
             PROVE  WriteTree(index')[p] = WriteTree(index)[p]
  BY DEF StagesNothing
<1>1. /\ adding # None /\ adding.all /\ adding.quiet /\ adding.file = None /\ adding.todo = {}
      /\ index'[p] = IF p \in adding.seen THEN adding.index[p] ELSE None
  BY DEF AllAdded, FinishAdd
<1>2. CASE p \in Tracked
  <2>1. Wanted(p) BY <1>2 DEF Wanted, ShouldIgnore
  <2>2. p \in adding.seen BY <1>1, <2>1 DEF AInv, WalkInv, Ahead
  <2>3. Staging(p) /\ index'[p] = adding.index[p] BY <1>1, <2>2 DEF AInv, WalkInv
  <2>4. ~Modified(p) BY DEF NothingToCommit
  <2>5. work[p].blob = index[p].blob /\ work[p].exec = index[p].exec
    BY <1>2, <2>1, <2>4 DEF Modified, Wanted, Tracked
  <2>6. index'[p] # None BY <1>1, <2>2 DEF AInv, TInv, SeenStaged
  <2> QED BY <1>2, <2>3, <2>5, <2>6 DEF Staging, WriteTree, Tracked
<1>3. CASE p \notin Tracked
  <2>1. ~Untracked(p) BY DEF NothingToCommit
  <2>2. ~Wanted(p) BY <1>3, <2>1 DEF Untracked, Wanted, ShouldIgnore, Tracked
  <2>3. p \notin adding.seen BY <1>1, <2>2 DEF AInv, WalkInv
  <2> QED BY <1>1, <1>3, <2>3 DEF WriteTree, Tracked
<1> QED BY <1>2, <1>3

\* clean.go:84: what clean removes is not tracked, nor below it.
LEMMA CleanSparesTracked == ASSUME Apart PROVE CleanSpares
<1> SUFFICES ASSUME NEW p \in OnDisk, NEW dirs \in BOOLEAN, NEW ignored \in BOOLEAN,
                    NEW only \in BOOLEAN, work'[p] = None, Clean(dirs, ignored, only)
             PROVE  /\ p \notin Tracked
                    /\ \/ ignored \/ only \/ ~ShouldIgnore(p, ignore, Tracked)
                       \/ dirs /\ \E d \in Directories(p) : Below(d) \cap Tracked = {}
  BY DEF CleanSpares
<1>1. p \in Path /\ work[p] # None /\ p \in Seq(Names) /\ IsFile(p)
  BY PathIsSeq DEF OnDisk, IsFile
<1>2. PICK i \in DOMAIN p : Cleans(SubSeq(p, 1, i), dirs, ignored, only)
  BY <1>1 DEF Clean
<1>3. i \in 1 .. Len(p) BY <1>1
<1>4. CASE i = Len(p)
  <2>1. Cleans(p, dirs, ignored, only) BY <1>1, <1>2, <1>3, <1>4, Start
  <2>2. ~IsDir(p)
    BY <1>1 DEF IsDir, Below, IsStrictPrefix, Apart, OnDisk
  <2> QED BY <2>1, <2>2 DEF Cleans
<1>5. CASE i < Len(p)
  <2> DEFINE d == SubSeq(p, 1, i)
  <2>1. ~IsFile(d) /\ IsStrictPrefix(d, p) BY <1>1, <1>3, <1>5, AboveFile, StartIsPrefix
  <2>2. dirs /\ Below(d) \cap Tracked = {} BY <1>2, <2>1 DEF Cleans
  <2>3. p \in Below(d) BY <1>1, <2>1 DEF Below
  <2>4. d \in Directories(p) BY <1>1, <1>3, <1>5 DEF Directories
  <2> QED BY <2>2, <2>3, <2>4
<1> QED BY <1>1, <1>3, <1>4, <1>5

\* What makes IsWorkDirDirty refuse, status has an entry for, or overlooks.
LEMMA DirtyIsShown == ASSUME Sound(index) PROVE DirtyShows
<1> SUFFICES ASSUME Dirty, \A p \in Path : ~(Overlooked(p) /\ Edited(p))
             PROVE  ~NothingToCommit
  BY DEF DirtyShows
<1>1. CASE BlobsOf(WriteTree(index)) # BlobsOf(tree)
  <2>1. PICK p \in Path : WriteTree(index)[p] # tree[p] BY <1>1 DEF BlobsOf
  <2> QED BY <2>1 DEF NothingToCommit, Uncommitted
<1>2. CASE \E p \in Tracked : IsFile(p) /\ work[p].blob # index[p].blob
  <2>1. PICK p \in Tracked : IsFile(p) /\ work[p].blob # index[p].blob BY <1>2
  <2>2. p \in Path /\ ~Overlooked(p) BY <2>1 DEF Tracked, Edited
  <2> QED BY <2>1, <2>2 DEF NothingToCommit, Modified, Tracked
<1> QED BY <1>1, <1>2 DEF Dirty

\* A repository has the invariant at all times.
LEMMA AlwaysAInv == Spec => []AInv
BY InitAInv, NextAInv, PTL DEF Spec

\* The types hold, no file is ever in the way of another, and no two files of
\* the working tree were written at one time.
THEOREM TypesAlwaysOK == Spec => []TypeOK
<1>1. AInv => TypeOK BY TInvTypeOK DEF AInv
<1> QED BY <1>1, AlwaysAInv, PTL

\* helpers.go:212: nothing keeps a checkout from being done that status does not
\* show, but an edited file among those it skips (status.go:94).
THEOREM DirtyAlwaysShows == Spec => []DirtyShows
<1>1. AInv => DirtyShows BY DirtyIsShown DEF AInv, TInv, IInv
<1> QED BY <1>1, AlwaysAInv, PTL

\* add.go:108: add -A is complete, whatever the rules and the stat cache say.
THEOREM AddAllAlwaysComplete == Spec => AddAllComplete
<1>1. AInv /\ [Next]_vars => [StagesAll]_vars BY AddAllStages
<1> QED BY <1>1, AlwaysAInv, PTL DEF Spec, AddAllComplete

\* status and add -A agree on what there is to do with the paths both look at.
THEOREM CleanAlwaysAddsNothing == Spec => CleanAddsNothing
<1>1. AInv /\ [Next]_vars => [StagesNothing]_vars BY CleanStagesNothing
<1> QED BY <1>1, AlwaysAInv, PTL DEF Spec, CleanAddsNothing

\* README.md:533: clean never removes a tracked file.
THEOREM CleanAlwaysKeeps == Spec => CleanKeeps
<1>1. AInv /\ [Next]_vars => [CleanSpares]_vars BY CleanSparesTracked DEF AInv, TInv
<1> QED BY <1>1, AlwaysAInv, PTL DEF Spec, CleanKeeps
===============================================================================
