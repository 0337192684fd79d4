------------------------------- MODULE RepoProofs ------------------------------
(***************************************************************************)
(* The invariants of Repo for every set of paths, contents and branches    *)
(* and every bound.                                                        *)
(***************************************************************************)
EXTENDS Repo, CommitGraphProofs, TLAPS

\* The named parts of TypeOK.
CommitsOK ==
    /\ commits \in Seq(CommitObject)
    /\ \A i \in Ids : \A k \in DOMAIN commits[i].parents :
            commits[i].parents[k] \in 1 .. i - 1
RefsOK  == refs \in [Branch -> Ids \cup {None}]
HeadOK  == head \in Branch \cup Ids
IndexOK == index \in [Path -> Entry \cup {None}]
WorkOK  == work \in [Path -> Blob \cup {None}]
MergeOK == mergeHead \in Ids \cup {None}
StashOK == stash \in Seq(Ids)

\* TypeOK is the conjunction of its parts
LEMMA TypeParts ==
    TypeOK <=> /\ CommitsOK /\ RefsOK /\ HeadOK /\ IndexOK
               /\ WorkOK /\ MergeOK /\ StashOK
BY DEF TypeOK, CommitsOK, RefsOK, HeadOK, IndexOK, WorkOK, MergeOK, StashOK

\* and so is TypeOK after a step.
LEMMA TypePartsNext ==
    TypeOK' <=> /\ CommitsOK' /\ RefsOK' /\ HeadOK' /\ IndexOK'
                /\ WorkOK' /\ MergeOK' /\ StashOK'
BY DEF TypeOK, CommitsOK, RefsOK, HeadOK, IndexOK, WorkOK, MergeOK, StashOK

\* Commit ids are the positions of the commits; None is not one of them.
LEMMA IdsAreNaturals ==
    ASSUME CommitsOK
    PROVE  /\ Len(commits) \in Nat /\ Ids = 1 .. Len(commits)
           /\ Ids \subseteq Nat \ {0} /\ None \notin Ids
BY NameAssumption DEF CommitsOK, Ids

\* HEAD resolves to a stored commit or to nothing.
LEMMA HeadIdType ==
    ASSUME CommitsOK, RefsOK, HeadOK
    PROVE  HeadId \in Ids \cup {None}
BY DEF HeadId, RefsOK, HeadOK

\* The tree of a stored commit, or of no commit, is a tree.
LEMMA TreeType ==
    ASSUME CommitsOK, NEW id \in Ids \cup {None}
    PROVE  TreeOf(id) \in Tree
<1>1. CASE id = None
  BY <1>1 DEF TreeOf, EmptyTree, Tree
<1>2. CASE id \in Ids
  <2>1. commits[id] \in CommitObject
    BY <1>2 DEF CommitsOK, Ids
  <2>2. id # None
    BY <1>2, IdsAreNaturals
  <2> QED BY <2>1, <2>2 DEF TreeOf, CommitObject
<1> QED BY <1>1, <1>2

\* WriteIndexFromTree writes well-formed entries.
LEMMA ReadTreeType ==
    ASSUME NEW t \in Tree
    PROVE  ReadTree(t) \in [Path -> Entry \cup {None}]
BY DEF ReadTree, Tree, Entry

\* WriteTree makes a tree of any index.
LEMMA WriteTreeType ==
    ASSUME NEW ix \in [Path -> Entry \cup {None}]
    PROVE  WriteTree(ix) \in Tree
BY DEF WriteTree, Tree, Entry

\* Whatever CheckoutTree leaves on disk, also when it stops half-way.
LEMMA CheckoutTreeType ==
    ASSUME NEW t \in Tree, WorkOK, CheckoutTree(t)
    PROVE  WorkOK'
<1>1. CASE Readable(t)
  BY <1>1 DEF CheckoutTree, WorkOK, Tree, Readable
<1>2. CASE ~Readable(t)
  BY <1>2 DEF CheckoutTree, WorkOK, Tree
<1> QED BY <1>1, <1>2
-------------------------------------------------------------------------------
(* The building blocks of the commands *)

\* An object store only grows: ids stay ids.
LEMMA CommitTreeType ==
    ASSUME CommitsOK, NEW c \in CommitObject, NEW id,
           \A k \in DOMAIN c.parents : c.parents[k] \in Ids,
           CommitTree(c, id)
    PROVE  CommitsOK' /\ Ids \subseteq Ids' /\ id \in Ids'
<1>1. CASE id \in Ids /\ UNCHANGED commits
  BY <1>1 DEF CommitsOK, Ids
<1>2. CASE id = Len(commits) + 1 /\ commits' = Append(commits, c)
  <2>1. commits' \in Seq(CommitObject) /\ Len(commits') = Len(commits) + 1
    BY <1>2 DEF CommitsOK
  <2>2. Ids' = 1 .. Len(commits) + 1 /\ Ids = 1 .. Len(commits)
    BY <2>1 DEF CommitsOK, Ids
  <2>3. \A i \in Ids : commits'[i] = commits[i]
    BY <1>2, <2>2 DEF CommitsOK
  <2>4. commits'[Len(commits) + 1] = c
    BY <1>2 DEF CommitsOK
  <2>5. ASSUME NEW i \in Ids', NEW k \in DOMAIN commits'[i].parents
        PROVE  commits'[i].parents[k] \in 1 .. i - 1
    <3>1. CASE i \in Ids
      BY <3>1, <2>3, <2>5 DEF CommitsOK
    <3>2. CASE i = Len(commits) + 1
      <4>1. c.parents[k] \in Ids
        BY <3>2, <2>4, <2>5
      <4> QED BY <4>1, <3>2, <2>2, <2>4 DEF CommitsOK
    <3> QED BY <3>1, <3>2, <2>2 DEF CommitsOK
  <2> QED BY <1>2, <2>1, <2>2, <2>5 DEF CommitsOK
<1> QED BY <1>1, <1>2 DEF CommitTree

\* Moving HEAD to a stored commit leaves refs and HEAD well-formed, and HEAD
\* resolving to that commit.
LEMMA MoveHeadType ==
    ASSUME CommitsOK', RefsOK, HeadOK, Ids \subseteq Ids',
           NEW id \in Ids', MoveHead(id)
    PROVE  RefsOK' /\ HeadOK' /\ HeadId' = id
<1>1. Ids' \subseteq Nat
  BY NameAssumption DEF CommitsOK, Ids
<1>2. CASE head \in Branch
  BY <1>2 DEF MoveHead, RefsOK, HeadOK, HeadId
<1>3. CASE head \notin Branch
  <2>1. id \notin Branch
    BY <1>1, NameAssumption
  <2>2. head' = id /\ refs' = refs
    BY <1>3 DEF MoveHead
  <2> QED BY <2>1, <2>2 DEF RefsOK, HeadOK, HeadId
<1> QED BY <1>2, <1>3

\* A sequence over a set is a sequence over a larger one.
LEMMA SeqWidens ==
    ASSUME NEW S, NEW T, S \subseteq T, NEW s \in Seq(S)
    PROVE  s \in Seq(T)
OBVIOUS

\* What still names a commit when the object store has grown.
LEMMA StillIds ==
    ASSUME Ids \subseteq Ids'
    PROVE  /\ RefsOK /\ UNCHANGED refs => RefsOK'
           /\ HeadOK /\ UNCHANGED head => HeadOK'
           /\ MergeOK /\ UNCHANGED mergeHead => MergeOK'
           /\ StashOK /\ UNCHANGED stash => StashOK'
<1>1. RefsOK /\ UNCHANGED refs => RefsOK'
  BY DEF RefsOK
<1>2. StashOK /\ UNCHANGED stash => StashOK'
  BY DEF StashOK
<1> QED BY <1>1, <1>2 DEF HeadOK, MergeOK

\* DropStash leaves a log of commit ids.
LEMMA DropType ==
    ASSUME StashOK, NEW k \in DOMAIN stash
    PROVE  RemoveAt(stash, k) \in Seq(Ids)
BY DEF StashOK, RemoveAt

\* The parents Commit collects are stored commits.
LEMMA ParentsType ==
    ASSUME CommitsOK, RefsOK, HeadOK, MergeOK
    PROVE  /\ Parents \in Seq(Nat)
           /\ \A k \in DOMAIN Parents : Parents[k] \in Ids
<1>1. HeadId \in Ids \cup {None} /\ mergeHead \in Ids \cup {None}
  BY HeadIdType DEF MergeOK
<1>2. Ids \subseteq Nat /\ None \notin Ids
  BY IdsAreNaturals
<1> QED BY <1>1, <1>2 DEF Parents
-------------------------------------------------------------------------------
(* Type correctness, one lemma per family of commands *)

\* The commands on files and on the index keep the types.
LEMMA FileCommandType ==
    ASSUME TypeOK, FileCommand
    PROVE  TypeOK'
<1> USE TypeParts, TypePartsNext DEF CommitsOK, RefsOK, HeadOK, MergeOK, StashOK, Ids
<1>1. ASSUME NEW p \in Path, NEW c \in Blob \cup {None}, Edit(p, c)
      PROVE  TypeOK'
  BY <1>1 DEF Edit, WorkOK, IndexOK
<1>2. ASSUME NEW P \in Arguments, AddFile(P)
      PROVE  TypeOK'
  <2>1. IndexOK'
    BY <1>2 DEF AddFile, WorkOK, IndexOK, Entry
  <2> QED BY <1>2, <2>1 DEF AddFile, WorkOK
<1>3. CASE AddAll
  <2>1. IndexOK'
    BY <1>3 DEF AddAll, AddedAll, ReadTree, WorkOK, IndexOK, Entry
  <2> QED BY <1>3, <2>1 DEF AddAll, WorkOK
<1>4. ASSUME NEW P \in Arguments, NEW cached \in BOOLEAN, RemoveFile(P, cached)
      PROVE  TypeOK'
  <2>1. IndexOK' /\ WorkOK'
    BY <1>4 DEF RemoveFile, WorkOK, IndexOK
  <2> QED BY <1>4, <2>1 DEF RemoveFile
<1>5. ASSUME NEW src \in Path, NEW dst \in Path, NEW force \in BOOLEAN,
             MoveFile(src, dst, force)
      PROVE  TypeOK'
  <2>1. IndexOK' /\ WorkOK'
    BY <1>5 DEF MoveFile, WorkOK, IndexOK
  <2> QED BY <1>5, <2>1 DEF MoveFile
<1>6. CASE Clean
  <2>1. WorkOK'
    BY <1>6 DEF Clean, WorkOK
  <2> QED BY <1>6, <2>1 DEF Clean, IndexOK
<1>7. ASSUME NEW id \in Ids, NEW P \in Arguments, UnstageFile(id, P)
      PROVE  TypeOK'
  <2>1. ReadTree(TreeOf(id)) \in [Path -> Entry \cup {None}]
    BY <1>7, TreeType, ReadTreeType
  <2>2. IndexOK'
    BY <1>7, <2>1 DEF UnstageFile, IndexOK
  <2> QED BY <1>7, <2>2 DEF UnstageFile, WorkOK
<1> QED BY <1>1, <1>2, <1>3, <1>4, <1>5, <1>6, <1>7 DEF FileCommand

\* Commit, of any index, keeps the types and leaves HEAD on a stored commit.
LEMMA CommitIndexType ==
    ASSUME TypeOK, NEW ix \in [Path -> Entry \cup {None}],
           CommitIndex(ix), UNCHANGED <<work, stash>>
    PROVE  /\ CommitsOK' /\ RefsOK' /\ HeadOK' /\ WorkOK'
           /\ MergeOK' /\ StashOK' /\ HeadId' \in Ids'
<1> DEFINE c == [tree |-> WriteTree(ix), parents |-> Parents]
<1>1. CommitsOK /\ RefsOK /\ HeadOK /\ WorkOK /\ MergeOK /\ StashOK
  BY TypeParts
<1>2. c \in CommitObject
  BY <1>1, WriteTreeType, ParentsType DEF CommitObject
<1>3. \A k \in DOMAIN c.parents : c.parents[k] \in Ids
  BY <1>1, ParentsType
<1>4. PICK id \in 1 .. MaxCommits : CommitTree(c, id) /\ MoveHead(id)
  BY DEF CommitIndex
<1> HIDE DEF c
<1>5. CommitsOK' /\ Ids \subseteq Ids' /\ id \in Ids'
  BY <1>1, <1>2, <1>3, <1>4, CommitTreeType
<1>6. RefsOK' /\ HeadOK' /\ HeadId' = id
  BY <1>1, <1>4, <1>5, MoveHeadType
<1>7. WorkOK' /\ MergeOK' /\ StashOK'
  BY <1>1, <1>5, StillIds DEF CommitIndex, WorkOK, MergeOK
<1> QED BY <1>5, <1>6, <1>7

\* So does AmendCommit.
LEMMA AmendType ==
    ASSUME TypeOK, AmendCommit
    PROVE  TypeOK' /\ HeadId' \in Ids'
<1> DEFINE c == [tree    |-> WriteTree(index),
                 parents |-> commits[HeadId].parents \o commits[HeadId].parents]
<1>1. /\ CommitsOK /\ RefsOK /\ HeadOK /\ WorkOK /\ MergeOK /\ StashOK
      /\ index \in [Path -> Entry \cup {None}]
  BY TypeParts DEF IndexOK
<1>2. HeadId \in Ids
  BY <1>1, HeadIdType DEF AmendCommit
<1>3. /\ commits[HeadId].parents \in Seq(Nat)
      /\ \A k \in DOMAIN commits[HeadId].parents :
            commits[HeadId].parents[k] \in Ids
  <2>1. commits[HeadId] \in CommitObject
    BY <1>1, <1>2 DEF CommitsOK, Ids
  <2>2. \A k \in DOMAIN commits[HeadId].parents :
            commits[HeadId].parents[k] \in 1 .. HeadId - 1
    BY <1>1, <1>2 DEF CommitsOK
  <2>3. Ids = 1 .. Len(commits) /\ Len(commits) \in Nat
    BY <1>1, IdsAreNaturals
  <2> QED BY <1>2, <2>1, <2>2, <2>3 DEF CommitObject
<1>4. c \in CommitObject
  BY <1>1, <1>3, WriteTreeType DEF CommitObject
<1>5. \A k \in DOMAIN c.parents : c.parents[k] \in Ids
  BY <1>3
<1>6. PICK id \in 1 .. MaxCommits : CommitTree(c, id) /\ MoveHead(id)
  BY DEF AmendCommit
<1> HIDE DEF c
<1>7. CommitsOK' /\ Ids \subseteq Ids' /\ id \in Ids'
  BY <1>1, <1>4, <1>5, <1>6, CommitTreeType
<1>8. RefsOK' /\ HeadOK' /\ HeadId' = id
  BY <1>1, <1>6, <1>7, MoveHeadType
<1>9. WorkOK' /\ MergeOK' /\ StashOK' /\ IndexOK'
  BY <1>1, <1>7, StillIds DEF AmendCommit, WorkOK, IndexOK
<1> QED BY <1>7, <1>8, <1>9, TypePartsNext

\* The committing commands keep the types.
LEMMA CommitCommandType ==
    ASSUME TypeOK, CommitCommand
    PROVE  TypeOK'
<1>1. CASE Commit
  <2>1. index \in [Path -> Entry \cup {None}] /\ IndexOK'
    BY <1>1, TypeParts DEF Commit, IndexOK
  <2> QED BY <1>1, <2>1, CommitIndexType, TypePartsNext DEF Commit
<1>2. CASE CommitAll
  <2>1. AddedAll \in [Path -> Entry \cup {None}] /\ IndexOK'
    BY <1>2, TypeParts DEF CommitAll, AddedAll, ReadTree, WorkOK, IndexOK, Entry
  <2>2. CASE Committable(AddedAll)
    BY <1>2, <2>1, <2>2, CommitIndexType, TypePartsNext DEF CommitAll
  <2>3. CASE ~Committable(AddedAll)
    BY <1>2, <2>1, <2>3, TypeParts, TypePartsNext
    DEF CommitAll, CommitsOK, RefsOK, HeadOK, WorkOK, MergeOK, StashOK, Ids
  <2> QED BY <2>2, <2>3
<1>3. CASE AmendCommit
  BY <1>3, AmendType
<1> QED BY <1>1, <1>2, <1>3 DEF CommitCommand

\* A command that aligns disk and index with a tree, or stops half-way.
LEMMA AlignType ==
    ASSUME TypeOK, NEW t \in Tree, CheckoutTree(t),
           index' = ReadTree(t) \/ UNCHANGED index
    PROVE  WorkOK' /\ IndexOK'
<1>1. WorkOK /\ IndexOK
  BY TypeParts
<1>2. WorkOK'
  BY <1>1, CheckoutTreeType
<1>3. IndexOK'
  BY <1>1, ReadTreeType DEF IndexOK
<1> QED BY <1>2, <1>3

\* A command that writes no object, moves HEAD at most, and keeps the rest.
LEMMA MoveType ==
    ASSUME TypeOK, UNCHANGED <<commits, mergeHead, stash>>,
           \/ \E id \in Ids : MoveHead(id)
           \/ UNCHANGED <<refs, head>>
    PROVE  CommitsOK' /\ RefsOK' /\ HeadOK' /\ MergeOK' /\ StashOK'
<1>1. CommitsOK /\ RefsOK /\ HeadOK /\ MergeOK /\ StashOK
  BY TypeParts
<1>2. CommitsOK' /\ MergeOK' /\ StashOK' /\ Ids' = Ids
  BY <1>1 DEF CommitsOK, MergeOK, StashOK, Ids
<1>3. CASE UNCHANGED <<refs, head>>
  BY <1>1, <1>2, <1>3 DEF RefsOK, HeadOK
<1>4. ASSUME NEW id \in Ids, MoveHead(id)
      PROVE  RefsOK' /\ HeadOK'
  BY <1>1, <1>2, <1>4, MoveHeadType
<1> QED BY <1>2, <1>3, <1>4

\* The commands on branches and HEAD keep the types.
LEMMA HeadCommandType ==
    ASSUME TypeOK, HeadCommand
    PROVE  TypeOK'
<1> USE TypeParts, TypePartsNext
<1>1. ASSUME NEW b \in Branch, CreateBranch(b)
      PROVE  TypeOK'
  BY <1>1 DEF CreateBranch, CommitsOK, RefsOK, HeadOK, IndexOK, WorkOK,
              MergeOK, StashOK, Ids
<1>2. ASSUME NEW b \in Branch, RenameCurrentBranch(b)
      PROVE  TypeOK'
  BY <1>2 DEF RenameCurrentBranch, CommitsOK, RefsOK, HeadOK, IndexOK, WorkOK,
              MergeOK, StashOK, Ids
<1>3. ASSUME NEW b \in Branch, DeleteBranch(b)
      PROVE  TypeOK'
  BY <1>3 DEF DeleteBranch, CommitsOK, RefsOK, HeadOK, IndexOK, WorkOK,
              MergeOK, StashOK, Ids
<1>4. ASSUME NEW target \in Branch \cup Ids, NEW force \in BOOLEAN,
             Checkout(target, force)
      PROVE  TypeOK'
  <2> DEFINE id == IF target \in Branch THEN refs[target] ELSE target
  <2>1. id \in Ids /\ CheckoutTree(TreeOf(id))
    BY <1>4 DEF Checkout
  <2>2. TreeOf(id) \in Tree
    BY <2>1, TreeType
  <2>3. WorkOK' /\ IndexOK'
    BY <1>4, <2>1, <2>2, AlignType DEF Checkout
  <2>4. /\ HeadOK' /\ CommitsOK' /\ RefsOK' /\ MergeOK' /\ StashOK'
    BY <1>4 DEF Checkout, HeadOK, CommitsOK, RefsOK, MergeOK, StashOK, Ids
  <2> QED BY <2>3, <2>4
<1>5. ASSUME NEW p \in Path, CheckoutFile(p)
      PROVE  TypeOK'
  <2>1. WorkOK' /\ IndexOK'
    BY <1>5 DEF CheckoutFile, WorkOK, IndexOK, Entry
  <2> QED BY <1>5, <2>1 DEF CheckoutFile, CommitsOK, RefsOK, HeadOK, MergeOK, StashOK, Ids
<1>6. ASSUME NEW id \in Ids, NEW mode \in {"soft", "mixed", "hard"}, Reset(id, mode)
      PROVE  TypeOK'
  <2>1. TreeOf(id) \in Tree
    BY <1>6, TreeType
  <2>2. WorkOK' /\ IndexOK'
    <3>1. CASE mode = "hard"
      BY <1>6, <2>1, <3>1, AlignType DEF Reset
    <3>2. CASE mode # "hard"
      BY <1>6, <2>1, <3>2, ReadTreeType DEF Reset, WorkOK, IndexOK
    <3> QED BY <3>1, <3>2
  <2>3. CommitsOK' /\ RefsOK' /\ HeadOK' /\ MergeOK' /\ StashOK'
    BY <1>6, MoveType DEF Reset
  <2> QED BY <2>2, <2>3
<1> QED BY <1>1, <1>2, <1>3, <1>4, <1>5, <1>6 DEF HeadCommand

\* A plan, carried out or stopped half-way, keeps the types.
LEMMA ApplyType ==
    ASSUME TypeOK, NEW b \in Tree, NEW o \in Tree, NEW t \in Tree,
           ApplyMergePlan(b, o, t)
    PROVE  WorkOK' /\ IndexOK'
<1> DEFINE picked    == Picked(b, o, t)
           conflicts == Conflicts(b, o, t)
           deleted   == {p \in Path : Sides(b, o, t)[p] \in {"ours", "theirs"}
                                        /\ picked[p] = None}
           clean     == {p \in Path : picked[p] # None}
           laid(W) == [p \in Path |-> IF p \in W THEN picked[p]
                                      ELSE IF p \in deleted THEN None ELSE work[p]]
<1>1. WorkOK /\ IndexOK
  BY TypeParts
<1>2. picked \in Tree
  <2>1. ASSUME NEW p \in Path
        PROVE  picked[p] \in Blob \cup {None, Zero}
    BY DEF Picked, Sides, Engine!Side, Engine!Chosen, Tree
  <2>2. picked = [p \in Path |-> picked[p]]
    BY DEF Picked
  <2> QED BY <2>1, <2>2 DEF Tree
<1>3. conflicts \subseteq Path
  BY DEF Conflicts
<1> HIDE DEF picked, conflicts
<1>4. CASE Readable(picked)
  <2>1. PICK text \in [conflicts -> Blob] :
            work' = [p \in Path |-> IF p \in conflicts THEN text[p] ELSE laid(clean)[p]]
    BY <1>4 DEF ApplyMergePlan, picked, conflicts
  <2>2. WorkOK'
    BY <1>1, <1>2, <1>4, <2>1 DEF WorkOK, Tree, Readable
  <2>3. index' = [p \in Path |->
                 IF p \in clean THEN [blob |-> picked[p], stage |-> 0]
                 ELSE IF p \in deleted THEN None
                 ELSE IF p \in conflicts
                 THEN [blob |-> IF o[p] = None THEN Zero ELSE o[p], stage |-> 2]
                 ELSE index[p]]
    BY <1>4 DEF ApplyMergePlan, picked, conflicts
  <2>4. IndexOK'
    BY <1>1, <1>2, <2>3 DEF IndexOK, Entry, Tree
  <2> QED BY <2>2, <2>4
<1>5. CASE ~Readable(picked)
  <2>1. PICK W \in SUBSET {p \in clean : picked[p] # Zero} : work' = laid(W)
    BY <1>5 DEF ApplyMergePlan, picked
  <2>2. WorkOK'
    BY <1>1, <1>2, <2>1 DEF WorkOK, Tree
  <2>3. UNCHANGED index
    BY <1>5 DEF ApplyMergePlan, picked
  <2> QED BY <1>1, <2>2, <2>3 DEF IndexOK
<1> QED BY <1>4, <1>5

\* So does a three-way merge, which records the other commit.
LEMMA ThreeWayMergeType ==
    ASSUME TypeOK, NEW base \in Ids, NEW theirs \in Ids,
           ThreeWayMerge(base, theirs)
    PROVE  WorkOK' /\ IndexOK' /\ mergeHead' \in Ids \cup {None}
<1>1. CommitsOK /\ RefsOK /\ HeadOK /\ MergeOK
  BY TypeParts
<1>2. TreeOf(base) \in Tree /\ HeadTree \in Tree /\ TreeOf(theirs) \in Tree
  BY <1>1, HeadIdType, TreeType DEF HeadTree
<1>3. WorkOK' /\ IndexOK'
  BY <1>2, ApplyType DEF ThreeWayMerge
<1>4. mergeHead' \in Ids \cup {None}
  BY <1>1 DEF ThreeWayMerge, MergeOK
<1> QED BY <1>3, <1>4

\* Merge and its abort keep the types.
LEMMA MergeCommandType ==
    ASSUME TypeOK, MergeCommand
    PROVE  TypeOK'
<1>0. CommitsOK /\ RefsOK /\ HeadOK /\ WorkOK /\ IndexOK /\ MergeOK /\ StashOK
  BY TypeParts
<1>1. CASE MergeAbort
  <2>1. HeadTree \in Tree
    BY <1>0, HeadIdType, TreeType DEF HeadTree
  <2>2. WorkOK' /\ IndexOK'
    BY <1>1, <2>1, AlignType DEF MergeAbort
  <2>3. CommitsOK' /\ RefsOK' /\ HeadOK' /\ MergeOK' /\ StashOK'
    BY <1>0, <1>1 DEF MergeAbort, CommitsOK, RefsOK, HeadOK, MergeOK, StashOK, Ids
  <2> QED BY <2>2, <2>3, TypePartsNext
<1>2. ASSUME NEW branch \in Branch, Merge(branch)
      PROVE  TypeOK'
  <2>1. refs[branch] \in Ids /\ HeadId \in Ids /\ UNCHANGED <<commits, stash>>
    BY <1>0, <1>2, HeadIdType DEF Merge, RefsOK
  <2>2. PICK base \in MergeBases(HeadId, refs[branch]) :
            \/ base = HeadId /\ FastForward(refs[branch])
            \/ /\ base \notin {HeadId, refs[branch]}
               /\ ThreeWayMerge(base, refs[branch])
               /\ UNCHANGED <<refs, head>>
    BY <1>2 DEF Merge
  <2>3. CASE FastForward(refs[branch])
    <3>1. TreeOf(refs[branch]) \in Tree
      BY <1>0, <2>1, TreeType
    <3>2. WorkOK' /\ IndexOK'
      BY <2>3, <3>1, AlignType DEF FastForward
    <3>3. CommitsOK' /\ RefsOK' /\ HeadOK' /\ MergeOK' /\ StashOK'
      BY <2>1, <2>3, MoveType DEF FastForward
    <3> QED BY <3>2, <3>3, TypePartsNext
  <2>4. CASE ThreeWayMerge(base, refs[branch]) /\ UNCHANGED <<refs, head>>
    <3>1. base \in Ids
      BY <2>2 DEF MergeBases
    <3>2. WorkOK' /\ IndexOK' /\ mergeHead' \in Ids \cup {None}
      BY <2>1, <2>4, <3>1, ThreeWayMergeType
    <3>3. CommitsOK' /\ RefsOK' /\ HeadOK' /\ MergeOK' /\ StashOK'
      BY <1>0, <2>1, <2>4, <3>2
      DEF CommitsOK, RefsOK, HeadOK, MergeOK, StashOK, Ids
    <3> QED BY <3>2, <3>3, TypePartsNext
  <2> QED BY <2>2, <2>3, <2>4
<1> QED BY <1>1, <1>2 DEF MergeCommand

\* The index StashPush hashes again is well-formed.
LEMMA RehashedType ==
    ASSUME IndexOK, WorkOK
    PROVE  Rehashed \in [Path -> Entry \cup {None}]
BY DEF Rehashed, IndexOK, WorkOK, Entry, Tracked

\* StashPush keeps the types and forgets no commit.
LEMMA StashPushType ==
    ASSUME TypeOK, StashPush
    PROVE  TypeOK' /\ Ids \subseteq Ids'
<1> DEFINE c == [tree |-> WriteTree(Rehashed), parents |-> <<HeadId>>]
<1>0. CommitsOK /\ RefsOK /\ HeadOK /\ WorkOK /\ IndexOK /\ MergeOK /\ StashOK
  BY TypeParts
<1>1. HeadId \in Ids /\ HeadTree \in Tree
  BY <1>0, HeadIdType, TreeType DEF StashPush, HeadTree
<1>2. c \in CommitObject /\ \A k \in DOMAIN c.parents : c.parents[k] \in Ids
  <2>1. WriteTree(Rehashed) \in Tree
    BY <1>0, RehashedType, WriteTreeType
  <2>2. <<HeadId>> \in Seq(Nat) /\ \A k \in DOMAIN <<HeadId>> : <<HeadId>>[k] \in Ids
    BY <1>0, <1>1, IdsAreNaturals
  <2> QED BY <2>1, <2>2 DEF CommitObject
<1>3. PICK id \in 1 .. MaxCommits : CommitTree(c, id) /\ stash' = <<id>> \o stash
  BY DEF StashPush
<1> HIDE DEF c
<1>4. CommitsOK' /\ Ids \subseteq Ids' /\ id \in Ids'
  BY <1>0, <1>2, <1>3, CommitTreeType
<1>5. StashOK'
  <2>1. stash \in Seq(Ids) /\ Ids \subseteq Ids'
    BY <1>0, <1>4 DEF StashOK
  <2>2. <<id>> \in Seq(Ids')
    BY <1>4
  <2>3. stash \in Seq(Ids')
    BY <2>1, SeqWidens
  <2>4. <<id>> \o stash \in Seq(Ids')
    BY <2>2, <2>3
  <2> QED BY <1>3, <2>4 DEF StashOK
<1>6. WorkOK'
  BY <1>0, <1>1, CheckoutTreeType DEF StashPush
<1>7. IndexOK'
  BY <1>0, <1>1, ReadTreeType, RehashedType DEF StashPush, IndexOK
<1>8. RefsOK' /\ HeadOK' /\ MergeOK'
  BY <1>0, <1>4, StillIds DEF StashPush
<1> QED BY <1>4, <1>5, <1>6, <1>7, <1>8, TypePartsNext

\* The stash commands keep the types.
LEMMA StashCommandType ==
    ASSUME TypeOK, StashCommand
    PROVE  TypeOK'
<1>0. CommitsOK /\ RefsOK /\ HeadOK /\ WorkOK /\ IndexOK /\ MergeOK /\ StashOK
  BY TypeParts
<1>1. ASSUME NEW k \in DOMAIN stash, Unstash(k)
      PROVE  WorkOK' /\ IndexOK'
  <2>1. TreeOf(stash[k]) \in Tree
    BY <1>0, <1>1, TreeType DEF StashOK
  <2> QED BY <1>1, <2>1, AlignType DEF Unstash
<1>2. CASE StashPush
  BY <1>2, StashPushType
<1>3. ASSUME NEW k \in DOMAIN stash, StashApply(k)
      PROVE  TypeOK'
  <2>1. CommitsOK' /\ RefsOK' /\ HeadOK' /\ MergeOK' /\ StashOK'
    BY <1>0, <1>3 DEF StashApply, CommitsOK, RefsOK, HeadOK, MergeOK, StashOK, Ids
  <2> QED BY <1>1, <1>3, <2>1, TypePartsNext DEF StashApply
<1>4. ASSUME NEW k \in DOMAIN stash, StashPop(k)
      PROVE  TypeOK'
  <2>1. CommitsOK' /\ RefsOK' /\ HeadOK' /\ MergeOK' /\ Ids' = Ids
    BY <1>0, <1>4 DEF StashPop, CommitsOK, RefsOK, HeadOK, MergeOK, Ids
  <2>2. StashOK'
    BY <1>0, <1>4, <2>1, DropType DEF StashPop, StashOK
  <2> QED BY <1>1, <1>4, <2>1, <2>2, TypePartsNext DEF StashPop
<1>5. ASSUME NEW k \in DOMAIN stash, StashDrop(k)
      PROVE  TypeOK'
  <2>1. /\ CommitsOK' /\ RefsOK' /\ HeadOK' /\ WorkOK' /\ IndexOK' /\ MergeOK'
        /\ Ids' = Ids
    BY <1>0, <1>5 DEF StashDrop, CommitsOK, RefsOK, HeadOK, WorkOK, IndexOK,
                      MergeOK, Ids
  <2>2. StashOK'
    BY <1>0, <1>5, <2>1, DropType DEF StashDrop, StashOK
  <2> QED BY <2>1, <2>2, TypePartsNext
<1>6. CASE StashClear
  BY <1>0, <1>6, TypePartsNext
  DEF StashClear, CommitsOK, RefsOK, HeadOK, WorkOK, IndexOK, MergeOK, StashOK, Ids
<1> QED BY <1>2, <1>3, <1>4, <1>5, <1>6 DEF StashCommand

\* The initial state has the types.
LEMMA InitType == Init => TypeOK
BY NameAssumption
DEF Init, TypeOK, Ids, Entry, CommitObject

\* Every step keeps them.
LEMMA NextType ==
    ASSUME TypeOK, [Next]_vars
    PROVE  TypeOK'
<1>1. CASE Next
  BY <1>1, FileCommandType, CommitCommandType, HeadCommandType, MergeCommandType,
     StashCommandType DEF Next
<1>2. CASE UNCHANGED vars
  BY <1>2 DEF vars, TypeOK, Ids
<1> QED BY <1>1, <1>2

\* TypeOK holds in every reachable state: no ref, HEAD, MERGE_HEAD or stash
\* entry ever names a commit that was not stored, and the commit graph has no
\* cycle (README.md, Object Model; adaptor.go:112 guards against one).
THEOREM TypeCorrect == Spec => []TypeOK
<1>1. Init => TypeOK
  BY InitType
<1>2. TypeOK /\ [Next]_vars => TypeOK'
  BY NextType
<1> QED BY <1>1, <1>2, PTL DEF Spec
-------------------------------------------------------------------------------
(* HEAD resolves *)

\* A step that touches neither commits nor refs nor HEAD keeps HEAD resolving.
LEMMA HeadStays ==
    ASSUME HeadResolves, UNCHANGED <<commits, refs, head>>
    PROVE  HeadResolves'
BY DEF HeadResolves, HeadId

\* So does a step after which HEAD is on a stored commit.
LEMMA HeadOnCommit ==
    ASSUME CommitsOK', HeadId' \in Ids'
    PROVE  HeadResolves'
BY NameAssumption DEF CommitsOK, Ids, HeadResolves

\* A step that moves HEAD to a commit that was stored before.
LEMMA MovedHead ==
    ASSUME TypeOK, NEW id \in Ids, MoveHead(id), UNCHANGED commits
    PROVE  HeadResolves'
<1>1. CommitsOK /\ RefsOK /\ HeadOK
  BY TypeParts
<1>2. CommitsOK' /\ Ids' = Ids
  BY <1>1 DEF CommitsOK, Ids
<1>3. HeadId' = id
  BY <1>1, <1>2, MoveHeadType
<1> QED BY <1>2, <1>3, HeadOnCommit

\* Every command keeps HEAD resolving.
LEMMA NextHead ==
    ASSUME TypeOK, HeadResolves, Next
    PROVE  HeadResolves'
<1>0. CommitsOK /\ RefsOK /\ HeadOK
  BY TypeParts
<1>1. CASE FileCommand
  BY <1>1, HeadStays
  DEF FileCommand, Edit, AddFile, AddAll, RemoveFile, MoveFile, Clean, UnstageFile
<1>2. CASE CommitCommand
  <2>1. CASE Commit
    <3>1. index \in [Path -> Entry \cup {None}]
      BY TypeParts DEF IndexOK
    <3> QED BY <2>1, <3>1, CommitIndexType, HeadOnCommit DEF Commit
  <2>2. CASE CommitAll
    <3>1. AddedAll \in [Path -> Entry \cup {None}]
      BY TypeParts DEF AddedAll, ReadTree, WorkOK, Entry
    <3>2. CASE Committable(AddedAll)
      BY <2>2, <3>1, <3>2, CommitIndexType, HeadOnCommit DEF CommitAll
    <3>3. CASE ~Committable(AddedAll)
      BY <2>2, <3>3, HeadStays DEF CommitAll
    <3> QED BY <3>2, <3>3
  <2>3. CASE AmendCommit
    BY <2>3, AmendType, TypePartsNext, HeadOnCommit
  <2> QED BY <1>2, <2>1, <2>2, <2>3 DEF CommitCommand
<1>3. CASE HeadCommand
  <2>1. ASSUME NEW b \in Branch, CreateBranch(b)
        PROVE  HeadResolves'
    BY <1>0, <2>1 DEF CreateBranch, HeadResolves, HeadId, RefsOK
  <2>2. ASSUME NEW b \in Branch, RenameCurrentBranch(b)
        PROVE  HeadResolves'
    BY <1>0, <2>2 DEF RenameCurrentBranch, HeadResolves, HeadId, RefsOK
  <2>3. ASSUME NEW b \in Branch, DeleteBranch(b)
        PROVE  HeadResolves'
    BY <1>0, <2>3 DEF DeleteBranch, HeadResolves, HeadId, RefsOK
  <2>4. ASSUME NEW target \in Branch \cup Ids, NEW force \in BOOLEAN,
               Checkout(target, force)
        PROVE  HeadResolves'
    <3> DEFINE id == IF target \in Branch THEN refs[target] ELSE target
    <3>1. id \in Ids /\ UNCHANGED <<commits, refs>> /\ (head' = target \/ head' = head)
      BY <2>4 DEF Checkout
    <3>2. CASE head' = head
      BY <3>1, <3>2, HeadStays
    <3>3. CASE head' = target
      <4>1. HeadId' = id
        BY <3>1, <3>3 DEF HeadId
      <4>2. CommitsOK' /\ Ids' = Ids
        BY <1>0, <3>1 DEF CommitsOK, Ids
      <4> QED BY <3>1, <4>1, <4>2, HeadOnCommit
    <3> QED BY <3>1, <3>2, <3>3
  <2>5. ASSUME NEW p \in Path, CheckoutFile(p)
        PROVE  HeadResolves'
    BY <2>5, HeadStays DEF CheckoutFile
  <2>6. ASSUME NEW id \in Ids, NEW mode \in {"soft", "mixed", "hard"}, Reset(id, mode)
        PROVE  HeadResolves'
    BY <2>6, MovedHead, HeadStays DEF Reset
  <2> QED BY <1>3, <2>1, <2>2, <2>3, <2>4, <2>5, <2>6 DEF HeadCommand
<1>4. CASE MergeCommand
  <2>1. CASE MergeAbort
    BY <2>1, HeadStays DEF MergeAbort
  <2>2. ASSUME NEW branch \in Branch, Merge(branch)
        PROVE  HeadResolves'
    <3>1. refs[branch] \in Ids /\ UNCHANGED commits
      BY <1>0, <2>2 DEF Merge, RefsOK
    <3>2. FastForward(refs[branch]) \/ UNCHANGED <<refs, head>>
      BY <2>2 DEF Merge
    <3>3. CASE FastForward(refs[branch])
      BY <3>1, <3>3, MovedHead, HeadStays DEF FastForward
    <3> QED BY <3>1, <3>2, <3>3, HeadStays
  <2> QED BY <1>4, <2>1, <2>2 DEF MergeCommand
<1>5. CASE StashCommand
  <2>1. CASE StashPush
    BY <2>1 DEF StashPush, HeadResolves, HeadId
  <2>2. CASE ~StashPush
    BY <1>5, <2>2, HeadStays
    DEF StashCommand, StashApply, StashPop, StashDrop, StashClear
  <2> QED BY <2>1, <2>2
<1> QED BY <1>1, <1>2, <1>3, <1>4, <1>5 DEF Next

\* In every reachable state of every repository, HEAD resolves to a commit as
\* soon as there is one, so the error branch of Commit (commit.go:59-63) is
\* taken by the first commit only.
THEOREM HeadAlwaysResolves == Spec => []HeadResolves
<1>1. Init => TypeOK /\ HeadResolves
  BY InitType DEF Init, HeadResolves
<1>2. TypeOK /\ HeadResolves /\ [Next]_vars => (TypeOK /\ HeadResolves)'
  <2> SUFFICES ASSUME TypeOK, HeadResolves, [Next]_vars
               PROVE  (TypeOK /\ HeadResolves)'
    OBVIOUS
  <2>1. TypeOK'
    BY NextType
  <2>2. CASE Next
    BY <2>1, <2>2, NextHead
  <2>3. CASE UNCHANGED vars
    BY <2>1, <2>3, HeadStays DEF vars
  <2> QED BY <2>2, <2>3
<1> QED BY <1>1, <1>2, PTL DEF Spec
-------------------------------------------------------------------------------
(* Unmerged entries *)

\* No entry at stage 2.
Resolved(ix) == \A p \in Path : ix[p] # None => ix[p].stage = 0

\* The invariant, read on the index as a whole.
LEMMA UnmergedParts ==
    /\ UnmergedImpliesMerging <=> (mergeHead = None => Resolved(index))
    /\ UnmergedImpliesMerging' <=> (mergeHead' = None => Resolved(index'))
BY DEF UnmergedImpliesMerging, Resolved, Tracked

\* WriteIndexFromTree writes resolved entries only.
LEMMA ReadTreeResolved ==
    ASSUME NEW t
    PROVE  Resolved(ReadTree(t))
BY DEF Resolved, ReadTree

\* The steps that keep MERGE_HEAD and write resolved entries only, if any.
LEMMA UnmergedStays ==
    ASSUME UnmergedImpliesMerging, mergeHead' = mergeHead,
           Resolved(index) => Resolved(index')
    PROVE  UnmergedImpliesMerging'
BY UnmergedParts

\* Every command keeps the invariant.
LEMMA NextUnmerged ==
    ASSUME TypeOK, UnmergedImpliesMerging, Next
    PROVE  UnmergedImpliesMerging'
<1>0. IndexOK /\ WorkOK /\ CommitsOK /\ RefsOK
  BY TypeParts
<1>1. CASE FileCommand
  <2>1. mergeHead' = mergeHead
    BY <1>1 DEF FileCommand, Edit, AddFile, AddAll, RemoveFile, MoveFile, Clean,
                UnstageFile
  <2>2. ASSUME Resolved(index)
        PROVE  Resolved(index')
    <3>1. ASSUME NEW P \in Arguments, AddFile(P)
          PROVE  Resolved(index')
      BY <2>2, <3>1 DEF AddFile, Resolved
    <3>2. CASE AddAll
      BY <3>2, ReadTreeResolved DEF AddAll, AddedAll
    <3>3. ASSUME NEW P \in Arguments, NEW cached \in BOOLEAN, RemoveFile(P, cached)
          PROVE  Resolved(index')
      BY <2>2, <3>3 DEF RemoveFile, Resolved
    <3>4. ASSUME NEW src \in Path, NEW dst \in Path, NEW force \in BOOLEAN,
                 MoveFile(src, dst, force)
          PROVE  Resolved(index')
      BY <1>0, <2>2, <3>4 DEF MoveFile, Resolved, IndexOK
    <3>5. ASSUME NEW id \in Ids, NEW P \in Arguments, UnstageFile(id, P)
          PROVE  Resolved(index')
      BY <2>2, <3>5, ReadTreeResolved DEF UnstageFile, Resolved
    <3>6. CASE UNCHANGED index
      BY <2>2, <3>6
    <3> QED
      BY <1>1, <3>1, <3>2, <3>3, <3>4, <3>5, <3>6 DEF FileCommand, Edit, Clean
  <2> QED BY <2>1, <2>2, UnmergedStays
<1>2. CASE CommitCommand
  <2>1. CASE Commit
    BY <2>1, UnmergedParts DEF Commit, CommitIndex, Committable, Resolved
  <2>2. CASE CommitAll
    BY <2>2, UnmergedParts, ReadTreeResolved DEF CommitAll, AddedAll
  <2>3. CASE AmendCommit
    BY <2>3, UnmergedStays DEF AmendCommit
  <2> QED BY <1>2, <2>1, <2>2, <2>3 DEF CommitCommand
<1>3. CASE HeadCommand
  <2>1. mergeHead' = mergeHead
    BY <1>3 DEF HeadCommand, CreateBranch, RenameCurrentBranch, DeleteBranch,
                Checkout, CheckoutFile, Reset
  <2>2. CASE \E p \in Path : CheckoutFile(p)
    BY <1>0, <2>1, <2>2, UnmergedStays DEF CheckoutFile, Resolved, IndexOK
  <2>3. CASE ~ \E p \in Path : CheckoutFile(p)
    <3>1. UNCHANGED index \/ \E t : index' = ReadTree(t)
      BY <1>3, <2>3 DEF HeadCommand, CreateBranch, RenameCurrentBranch,
                        DeleteBranch, Checkout, Reset
    <3> QED BY <2>1, <3>1, UnmergedStays, ReadTreeResolved
  <2> QED BY <2>2, <2>3
<1>4. CASE MergeCommand
  <2>1. CASE MergeAbort
    BY <2>1, UnmergedParts, ReadTreeResolved DEF MergeAbort
  <2>2. ASSUME NEW branch \in Branch, Merge(branch)
        PROVE  UnmergedImpliesMerging'
    <3>1. refs[branch] # None
      BY <2>2 DEF Merge
    <3>2. PICK base \in MergeBases(HeadId, refs[branch]) :
              FastForward(refs[branch]) \/ ThreeWayMerge(base, refs[branch])
      BY <2>2 DEF Merge
    <3>3. CASE FastForward(refs[branch])
      BY <3>3, UnmergedStays, ReadTreeResolved DEF FastForward
    <3>4. CASE ThreeWayMerge(base, refs[branch])
      <4>1. mergeHead' = refs[branch] \/ UNCHANGED <<index, mergeHead>>
        BY <3>4 DEF ThreeWayMerge, ApplyMergePlan
      <4> QED BY <3>1, <4>1, UnmergedParts
    <3> QED BY <3>2, <3>3, <3>4
  <2> QED BY <1>4, <2>1, <2>2 DEF MergeCommand
<1>5. CASE StashCommand
  <2>1. mergeHead' = mergeHead
    BY <1>5 DEF StashCommand, StashPush, StashApply, StashPop, StashDrop, StashClear
  <2>2. CASE StashPush
    <3>1. Resolved(index) => Resolved(Rehashed)
      BY <1>0 DEF Resolved, Rehashed, Tracked, IndexOK, Entry
    <3> QED BY <2>1, <2>2, <3>1, UnmergedStays, ReadTreeResolved DEF StashPush
  <2>3. CASE ~StashPush
    <3>1. UNCHANGED index \/ \E t : index' = ReadTree(t)
      BY <1>5, <2>3 DEF StashCommand, StashApply, StashPop, StashDrop, StashClear,
                        Unstash
    <3> QED BY <2>1, <3>1, UnmergedStays, ReadTreeResolved
  <2> QED BY <2>2, <2>3
<1> QED BY <1>1, <1>2, <1>3, <1>4, <1>5 DEF Next

\* In every reachable state an unmerged entry means a merge is in progress, so
\* AmendCommit, which looks at MERGE_HEAD only, never records one.
THEOREM UnmergedOnlyInMerge == Spec => []UnmergedImpliesMerging
<1>1. Init => TypeOK /\ UnmergedImpliesMerging
  BY InitType DEF Init, UnmergedImpliesMerging, Tracked
<1>2. TypeOK /\ UnmergedImpliesMerging /\ [Next]_vars
        => (TypeOK /\ UnmergedImpliesMerging)'
  <2> SUFFICES ASSUME TypeOK, UnmergedImpliesMerging, [Next]_vars
               PROVE  (TypeOK /\ UnmergedImpliesMerging)'
    OBVIOUS
  <2>1. TypeOK'
    BY NextType
  <2>2. CASE Next
    BY <2>1, <2>2, NextUnmerged
  <2>3. CASE UNCHANGED vars
    BY <2>1, <2>3, UnmergedStays DEF vars
  <2> QED BY <2>2, <2>3
<1> QED BY <1>1, <1>2, PTL DEF Spec
-------------------------------------------------------------------------------
(* What one step may not do *)

\* A CheckoutTree that comes to its end has written every file of the tree.
LEMMA CheckoutTreeAligns ==
    ASSUME NEW t, CheckoutTree(t), Readable(t), NEW p \in Path, t[p] # None
    PROVE  work'[p] = t[p]
BY DEF CheckoutTree

\* HEAD on another commit, with disk and index aligned before.
LEMMA AlignedMove ==
    ASSUME TypeOK, NEW id \in Ids, HeadId' = id, UNCHANGED commits,
           CheckoutTree(TreeOf(id)), Readable(TreeOf(id)), index' = ReadTree(TreeOf(id))
    PROVE  MovesLast
<1>1. HeadTree' = TreeOf(id) BY DEF HeadTree, TreeOf, EmptyTree
<1> QED BY <1>1, CheckoutTreeAligns DEF MovesLast

\* A move of HEAD by MoveHead that only follows such an alignment.
LEMMA AlignedMoveHead ==
    ASSUME TypeOK, NEW id \in Ids, MoveHead(id), UNCHANGED commits,
           CheckoutTree(TreeOf(id)), Readable(TreeOf(id)), index' = ReadTree(TreeOf(id))
    PROVE  MovesLast
<1>1. CommitsOK /\ RefsOK /\ HeadOK BY TypeParts
<1>2. CommitsOK' /\ Ids' = Ids BY <1>1 DEF CommitsOK, Ids
<1>3. HeadId' = id BY <1>1, <1>2, MoveHeadType
<1> QED BY <1>3, AlignedMove

\* No command moves HEAD ahead of the files.
LEMMA NextMovesLast == ASSUME TypeOK, Next PROVE MovesLast
<1>0. CommitsOK /\ RefsOK /\ HeadOK BY TypeParts
<1>1. ASSUME UNCHANGED <<refs, head>> PROVE MovesLast
  BY <1>1 DEF MovesLast, HeadId
<1>2. CASE FileCommand
  BY <1>1, <1>2
  DEF FileCommand, Edit, AddFile, AddAll, RemoveFile, MoveFile, Clean, UnstageFile
<1>3. CASE CommitCommand BY <1>3 DEF MovesLast
<1>4. CASE HeadCommand
  <2>1. ASSUME NEW b \in Branch, CreateBranch(b) \/ RenameCurrentBranch(b) \/ DeleteBranch(b)
        PROVE  MovesLast
    <3>1. HeadId' = HeadId
      BY <1>0, <2>1 DEF CreateBranch, RenameCurrentBranch, DeleteBranch, HeadId, RefsOK
    <3> QED BY <3>1 DEF MovesLast
  <2>2. ASSUME NEW target \in Branch \cup Ids, NEW force \in BOOLEAN, Checkout(target, force)
        PROVE  MovesLast
    <3> DEFINE id == IF target \in Branch THEN refs[target] ELSE target
    <3>1. id \in Ids /\ UNCHANGED <<commits, refs>> /\ CheckoutTree(TreeOf(id))
      BY <2>2 DEF Checkout
    <3>2. CASE Readable(TreeOf(id))
      <4>1. index' = ReadTree(TreeOf(id)) /\ head' = target BY <2>2, <3>2 DEF Checkout
      <4>2. HeadId' = id BY <3>1, <4>1 DEF HeadId
      <4> QED BY <3>1, <3>2, <4>1, <4>2, AlignedMove
    <3>3. CASE ~Readable(TreeOf(id)) BY <1>1, <2>2, <3>3 DEF Checkout
    <3> QED BY <3>2, <3>3
  <2>3. ASSUME NEW p \in Path, CheckoutFile(p) PROVE MovesLast
    BY <1>1, <2>3 DEF CheckoutFile
  <2>4. ASSUME NEW id \in Ids, NEW mode \in {"soft", "mixed", "hard"}, Reset(id, mode)
        PROVE  MovesLast
    <3>1. CASE mode # "hard" BY <2>4, <3>1 DEF MovesLast
    <3>2. CASE mode = "hard" /\ Readable(TreeOf(id))
      BY <2>4, <3>2, AlignedMoveHead DEF Reset
    <3>3. CASE mode = "hard" /\ ~Readable(TreeOf(id)) BY <1>1, <2>4, <3>3 DEF Reset
    <3> QED BY <3>1, <3>2, <3>3
  <2> QED BY <1>4, <2>1, <2>2, <2>3, <2>4 DEF HeadCommand
<1>5. CASE MergeCommand
  <2>1. CASE MergeAbort BY <1>1, <2>1 DEF MergeAbort
  <2>2. ASSUME NEW branch \in Branch, Merge(branch) PROVE MovesLast
    <3>1. refs[branch] \in Ids /\ UNCHANGED commits BY <1>0, <2>2 DEF Merge, RefsOK
    <3>2. FastForward(refs[branch]) \/ UNCHANGED <<refs, head>> BY <2>2 DEF Merge
    <3>3. CASE FastForward(refs[branch]) /\ Readable(TreeOf(refs[branch]))
      BY <3>1, <3>3, AlignedMoveHead DEF FastForward
    <3>4. CASE FastForward(refs[branch]) /\ ~Readable(TreeOf(refs[branch]))
      BY <1>1, <3>4 DEF FastForward
    <3> QED BY <1>1, <3>2, <3>3, <3>4
  <2> QED BY <1>5, <2>1, <2>2 DEF MergeCommand
<1>6. CASE StashCommand
  BY <1>1, <1>6 DEF StashCommand, StashPush, StashApply, StashPop, StashDrop, StashClear
<1> QED BY <1>2, <1>3, <1>4, <1>5, <1>6 DEF Next

\* A checkout that is not forced only touches what the index has.
LEMMA CheckoutSparesWork == ASSUME TypeOK PROVE SparesWork
<1> SUFFICES ASSUME LosesWork
             PROVE  /\ \A target \in Branch \cup Ids : ~Checkout(target, FALSE)
                    /\ \A p \in Path : ~CheckoutFile(p)
  BY DEF SparesWork
<1>1. PICK p \in Path : /\ work'[p] # work[p] /\ work[p] # None
                        /\ p \notin Tracked \/ work[p] # index[p].blob
  BY DEF LosesWork
<1>2. ASSUME NEW target \in Branch \cup Ids, Checkout(target, FALSE) PROVE FALSE
  <2> DEFINE id == IF target \in Branch THEN refs[target] ELSE target
             t == TreeOf(id)
  <2>1. /\ ~Dirty /\ CheckoutTree(t)
        /\ \A q \in Path : t[q] # None /\ work[q] # None => q \in Tracked
    BY <1>2 DEF Checkout
  <2> HIDE DEF t
  <2>2. p \notin Tracked BY <1>1, <2>1 DEF Dirty
  <2>3. t[p] = None BY <1>1, <2>1, <2>2
  <2>4. work'[p] = work[p] BY <2>1, <2>2, <2>3, DataAssumption DEF CheckoutTree
  <2> QED BY <1>1, <2>4
<1>3. ASSUME NEW q \in Path, CheckoutFile(q) PROVE FALSE
  <2>1. q # p BY <1>1, <1>3 DEF CheckoutFile
  <2>2. work'[p] = work[p] BY <1>3, <2>1, TypeParts DEF CheckoutFile, WorkOK
  <2> QED BY <1>1, <2>2
<1> QED BY <1>2, <1>3

\* CommitTree stores the commit it is given under the id it returns.
LEMMA CommitTreeStores ==
    ASSUME CommitsOK, NEW c, NEW id, CommitTree(c, id)
    PROVE  commits'[id] = c /\ (\A i \in Ids : commits'[i] = commits[i])
<1>1. CASE id \in Ids /\ commits[id] = c /\ UNCHANGED commits BY <1>1
<1>2. CASE id = Len(commits) + 1 /\ commits' = Append(commits, c)
  BY <1>2 DEF CommitsOK, Ids
<1> QED BY <1>1, <1>2 DEF CommitTree

\* Only StashPush makes the stash longer, and it has hashed what is on disk.
LEMMA NextSavesTracked == ASSUME TypeOK, Next PROVE SavesTracked
<1>0. CommitsOK /\ IndexOK /\ WorkOK /\ StashOK BY TypeParts
<1>1. CASE StashPush
  <2> DEFINE c == [tree |-> WriteTree(Rehashed), parents |-> <<HeadId>>]
  <2>1. PICK id \in 1 .. MaxCommits : CommitTree(c, id) /\ stash' = <<id>> \o stash
    BY <1>1 DEF StashPush
  <2>2. commits'[id] = c /\ stash'[1] = id
    BY <1>0, <2>1, CommitTreeStores DEF StashOK
  <2>3. ASSUME NEW p \in Tracked, work[p] # None PROVE c.tree[p] = work[p]
    <3>1. p \in Path /\ index[p] \in Entry /\ work[p] \in Blob
      BY <1>0, <2>3 DEF Tracked, IndexOK, WorkOK
    <3>2. Rehashed[p] = [index[p] EXCEPT !.blob = work[p]] BY <2>3, <3>1 DEF Rehashed
    <3>3. Rehashed[p] \in Entry /\ Rehashed[p].blob = work[p] BY <3>1, <3>2 DEF Entry
    <3>4. Rehashed[p] # None BY <3>3, DataAssumption DEF Entry
    <3> QED BY <3>1, <3>3, <3>4 DEF WriteTree
  <2> HIDE DEF c
  <2> QED BY <2>2, <2>3 DEF SavesTracked
<1>2. ASSUME Len(stash') <= Len(stash) PROVE SavesTracked
  BY <1>0, <1>2 DEF SavesTracked, StashOK
<1>3. CASE FileCommand \/ CommitCommand \/ HeadCommand \/ MergeCommand
  <2>1. stash' = stash
    BY <1>3 DEF FileCommand, Edit, AddFile, AddAll, RemoveFile, MoveFile, Clean, UnstageFile,
                CommitCommand, Commit, CommitAll, AmendCommit, HeadCommand, CreateBranch,
                RenameCurrentBranch, DeleteBranch, Checkout, CheckoutFile, Reset,
                MergeCommand, MergeAbort, Merge
  <2> QED BY <1>0, <2>1 DEF SavesTracked, StashOK
<1>4. CASE StashCommand /\ ~StashPush
  <2>1. \/ stash' = stash \/ stash' = <<>>
        \/ \E k \in DOMAIN stash : stash' = RemoveAt(stash, k)
    BY <1>4 DEF StashCommand, StashApply, StashPop, StashDrop, StashClear
  <2>2. ASSUME NEW k \in DOMAIN stash PROVE Len(RemoveAt(stash, k)) <= Len(stash)
    BY <1>0 DEF StashOK, RemoveAt
  <2>3. Len(stash) \in Nat BY <1>0 DEF StashOK
  <2> QED BY <1>2, <2>1, <2>2, <2>3
<1> QED BY <1>1, <1>3, <1>4 DEF Next

-------------------------------------------------------------------------------
(* The commit graph *)

\* The stored commits are a graph of which every parent is older.
LEMMA StoreIsGraph ==
    ASSUME CommitsOK
    PROVE  Graph(Parentage, Len(commits)) /\ Ids = 1 .. Len(commits)
<1>1. Len(commits) \in Nat /\ Ids = 1 .. Len(commits) BY IdsAreNaturals
<1>2. ASSUME NEW i \in Ids PROVE ToSet(commits[i].parents) \subseteq 1 .. i - 1
  BY <1>2 DEF CommitsOK, ToSet
<1> QED BY <1>1, <1>2 DEF Graph, Parentage

\* A step that only adds to the store.
StoreGrows == CommitsOK /\ CommitsOK' /\ Ids \subseteq Ids'
                /\ \A i \in Ids : commits'[i] = commits[i]

\* It changes the history of no commit there was.
LEMMA GrowsAgree ==
    ASSUME StoreGrows, NEW i \in Ids
    PROVE  Ancestors(i)' = Ancestors(i)
<1>1. Graph(Parentage, Len(commits)) /\ Ids = 1 .. Len(commits)
  BY StoreIsGraph DEF StoreGrows
<1>2. (CommitsOK => Graph(Parentage, Len(commits)) /\ Ids = 1 .. Len(commits))'
  BY StoreIsGraph, PTL
<1>3. Graph(Parentage', Len(commits')) /\ Ids' = 1 .. Len(commits')
  BY <1>2 DEF StoreGrows, Graph
<1>4. Len(commits) <= Len(commits')
  BY <1>1, <1>3 DEF StoreGrows, Graph
<1>5. \A j \in 1 .. Len(commits) : Parentage'[j] = Parentage[j]
  BY <1>1 DEF StoreGrows, Parentage
<1>6. AncestorsIn(Parentage', i) = AncestorsIn(Parentage, i)
  BY <1>1, <1>3, <1>4, <1>5, AncestorsAgree
<1> QED BY <1>6 DEF Ancestors, AncestorsIn

\* What walks of the history meet.
Histories ==
    \A i \in Ids :
        /\ i \in Ancestors(i) /\ Ancestors(i) \subseteq Ids \cap 1 .. i
        /\ \A k \in DOMAIN commits[i].parents : commits[i].parents[k] \in Ancestors(i)
        /\ \A j \in Ancestors(i) : Ancestors(j) \subseteq Ancestors(i)

\* A commit meets itself, its parents and what they meet, and nothing younger.
LEMMA HistoriesHold == CommitsOK => Histories
<1> SUFFICES ASSUME CommitsOK, NEW i \in Ids
             PROVE  /\ i \in Ancestors(i) /\ Ancestors(i) \subseteq Ids \cap 1 .. i
                    /\ \A k \in DOMAIN commits[i].parents :
                          commits[i].parents[k] \in Ancestors(i)
                    /\ \A j \in Ancestors(i) : Ancestors(j) \subseteq Ancestors(i)
  BY DEF Histories
<1> DEFINE n == Len(commits)
<1>1. Graph(Parentage, n) /\ Ids = 1 .. n /\ n \in Nat BY StoreIsGraph, IdsAreNaturals
<1> HIDE DEF n
<1>2. i \in 1 .. n BY <1>1
<1>3. i \in Ancestors(i) /\ Ancestors(i) \subseteq 1 .. i
  BY <1>1, <1>2, AncestorsBelow DEF Ancestors
<1>4. ASSUME NEW k \in DOMAIN commits[i].parents
      PROVE  commits[i].parents[k] \in Ancestors(i)
  <2> DEFINE p == commits[i].parents[k]
  <2>1. p \in Parentage[i] BY <1>4 DEF Parentage, ToSet
  <2>2. p \in 1 .. n BY <1>1, <1>2, <2>1 DEF Graph
  <2> HIDE DEF p
  <2>3. p \in AncestorsIn(Parentage, p) BY <1>1, <2>2, AncestorsBelow
  <2>4. p \in AncestorsIn(Parentage, i)
    BY <1>1, <1>2, <2>1, <2>3, AncestorsUnfold
  <2> QED BY <2>4 DEF p, Ancestors
<1>5. ASSUME NEW j \in Ancestors(i) PROVE Ancestors(j) \subseteq Ancestors(i)
  BY <1>1, <1>2, <1>5, AncestorsTransitive DEF Ancestors
<1>6. Ancestors(i) \subseteq Ids BY <1>1, <1>2, <1>3
<1> QED BY <1>3, <1>4, <1>5, <1>6

\* A step that keeps every root, or leads to it from another.
LEMMA RootsKeepReachable ==
    ASSUME StoreGrows, Roots \subseteq Ids, Roots' \subseteq Ids',
           \A r \in Roots : \E s \in Roots' : r \in Ancestors(s)'
    PROVE  Reachable \subseteq Reachable'
<1>1. Histories' BY HistoriesHold, PTL DEF StoreGrows
<1>2. ASSUME NEW r \in Roots PROVE Ancestors(r) \subseteq Reachable'
  <2>1. PICK s \in Roots' : r \in Ancestors(s)' OBVIOUS
  <2>2. Ancestors(r)' \subseteq Ancestors(s)' BY <1>1, <2>1 DEF Histories
  <2>3. Ancestors(r)' = Ancestors(r) BY <1>2, GrowsAgree
  <2>4. Ancestors(s)' \subseteq Reachable' BY DEF Reachable
  <2> QED BY <2>2, <2>3, <2>4
<1> QED BY <1>2 DEF Reachable

\* The roots are stored commits.
LEMMA RootsType == TypeOK => Roots \subseteq Ids
<1> SUFFICES ASSUME TypeOK PROVE Roots \subseteq Ids OBVIOUS
<1>1. CommitsOK /\ RefsOK /\ HeadOK /\ StashOK BY TypeParts
<1>2. HeadId \in Ids \cup {None} BY <1>1, HeadIdType
<1>3. ToSet(stash) \subseteq Ids BY <1>1 DEF StashOK, ToSet
<1>4. {refs[b] : b \in Branch} \subseteq Ids \cup {None} BY <1>1 DEF RefsOK
<1> QED BY <1>2, <1>3, <1>4 DEF Roots

\* A step that leaves the store alone.
LEMMA StoreKept ==
    ASSUME TypeOK, TypeOK', UNCHANGED commits
    PROVE  StoreGrows
BY TypeParts, TypePartsNext DEF StoreGrows, Ids

\* A step that adds a commit.
LEMMA StoreGains ==
    ASSUME TypeOK, TypeOK', NEW c, NEW id, CommitTree(c, id)
    PROVE  StoreGrows
<1>1. CommitsOK /\ CommitsOK' BY TypeParts, TypePartsNext
<1>2. \A i \in Ids : commits'[i] = commits[i] BY <1>1, CommitTreeStores
<1>3. Ids \subseteq Ids' BY <1>1 DEF CommitTree, CommitsOK, Ids
<1> QED BY <1>1, <1>2, <1>3 DEF StoreGrows

\* MoveHead to a commit that HEAD's commit is in the history of.
LEMMA MoveHeadExtends ==
    ASSUME TypeOK, TypeOK', StoreGrows, NEW id \in Ids', MoveHead(id), stash' = stash,
           HeadId = None \/ HeadId \in Ancestors(id)'
    PROVE  Reachable \subseteq Reachable'
<1>1. CommitsOK' /\ RefsOK /\ HeadOK BY TypeParts, TypePartsNext
<1>2. HeadId' = id /\ id # None
  <2>1. HeadId' = id BY <1>1, MoveHeadType DEF StoreGrows
  <2>2. None \notin Ids' BY <1>1, NameAssumption DEF CommitsOK, Ids
  <2> QED BY <2>1, <2>2
<1>3. id \in Roots' BY <1>2 DEF Roots
<1>4. Histories' BY HistoriesHold, PTL DEF StoreGrows
<1>5. ASSUME NEW r \in Roots PROVE \E s \in Roots' : r \in Ancestors(s)'
  <2>1. r # None /\ r \in Ids BY <1>5, RootsType DEF Roots
  <2>2. CASE r = HeadId BY <1>3, <2>1, <2>2
  <2>3. CASE r # HeadId
    <3>1. r \in ToSet(stash) \/ \E b \in Branch : r = refs[b] /\ refs'[b] = refs[b]
      BY <1>1, <2>3 DEF Roots, MoveHead, HeadId, RefsOK
    <3>2. r \in Roots' BY <2>1, <3>1 DEF Roots
    <3>3. r \in Ancestors(r)' BY <1>4, <2>1 DEF Histories, StoreGrows
    <3> QED BY <3>2, <3>3
  <2> QED BY <2>2, <2>3
<1>6. Roots \subseteq Ids /\ Roots' \subseteq Ids'
  <2>1. (TypeOK => Roots \subseteq Ids)' BY RootsType, PTL
  <2> QED BY <2>1, RootsType
<1> QED BY <1>5, <1>6, RootsKeepReachable

\* A step that keeps every root.
LEMMA RootsStay ==
    ASSUME TypeOK, TypeOK', StoreGrows, Roots \subseteq Roots'
    PROVE  Reachable \subseteq Reachable'
<1>1. Histories' BY HistoriesHold, PTL DEF StoreGrows
<1>2. Roots \subseteq Ids /\ Roots' \subseteq Ids'
  <2>1. (TypeOK => Roots \subseteq Ids)' BY RootsType, PTL
  <2> QED BY <2>1, RootsType
<1>3. ASSUME NEW r \in Roots PROVE r \in Ancestors(r)'
  BY <1>1, <1>2 DEF Histories
<1> QED BY <1>2, <1>3, RootsKeepReachable

\* Commit puts the commit HEAD had among the parents of the new one.
LEMMA CommitExtends ==
    ASSUME TypeOK, TypeOK', NEW ix, CommitIndex(ix), stash' = stash
    PROVE  Reachable \subseteq Reachable'
<1> DEFINE c == [tree |-> WriteTree(ix), parents |-> Parents]
<1>1. PICK id \in 1 .. MaxCommits : CommitTree(c, id) /\ MoveHead(id)
  BY DEF CommitIndex
<1> HIDE DEF c
<1>2. StoreGrows BY <1>1, StoreGains
<1>3. CommitsOK /\ CommitsOK' BY TypeParts, TypePartsNext
<1>4. commits'[id] = c BY <1>1, <1>3, CommitTreeStores
<1>5. id \in Ids' BY <1>1, <1>3 DEF CommitTree, CommitsOK, Ids
<1>6. Histories' BY <1>2, HistoriesHold, PTL DEF StoreGrows
<1>7. ASSUME HeadId # None PROVE HeadId \in Ancestors(id)'
  <2>1. 1 \in DOMAIN c.parents /\ c.parents[1] = HeadId BY <1>7 DEF c, Parents
  <2>2. \A k \in DOMAIN c.parents : c.parents[k] \in Ancestors(id)'
    BY <1>4, <1>5, <1>6 DEF Histories
  <2> QED BY <2>1, <2>2
<1> QED BY <1>1, <1>2, <1>5, <1>7, MoveHeadExtends

\* A fast-forward only goes where the history has HEAD's commit.
LEMMA FastForwardExtends ==
    ASSUME TypeOK, TypeOK', UNCHANGED <<commits, stash>>, NEW theirs \in Ids,
           HeadId \in MergeBases(HeadId, theirs), MoveHead(theirs)
    PROVE  Reachable \subseteq Reachable'
<1>1. HeadId \in Ancestors(theirs) BY DEF MergeBases
<1>2. StoreGrows BY StoreKept
<1>3. Ancestors(theirs)' = Ancestors(theirs) BY <1>2, GrowsAgree
<1>4. theirs \in Ids' BY <1>2 DEF StoreGrows
<1> QED BY <1>1, <1>2, <1>3, <1>4, MoveHeadExtends

\* Every command extends the history or is meant to discard.
LEMMA NextExtendsHistory ==
    ASSUME TypeOK, TypeOK', Next
    PROVE  ExtendsHistory
<1>0. RefsOK /\ HeadOK /\ StashOK BY TypeParts
<1>1. ASSUME UNCHANGED <<refs, head, stash>> PROVE ExtendsHistory
  BY <1>1 DEF ExtendsHistory
<1>2. ASSUME Discards PROVE ExtendsHistory
  BY <1>2 DEF ExtendsHistory
<1>3. ASSUME Reachable \subseteq Reachable' PROVE ExtendsHistory
  BY <1>3 DEF ExtendsHistory
<1>4. CASE FileCommand
  BY <1>1, <1>4
  DEF FileCommand, Edit, AddFile, AddAll, RemoveFile, MoveFile, Clean, UnstageFile
<1>5. CASE CommitCommand
  <2>1. CASE Commit BY <1>3, <2>1, CommitExtends DEF Commit
  <2>2. CASE CommitAll
    <3>1. CASE Committable(AddedAll) BY <1>3, <2>2, <3>1, CommitExtends DEF CommitAll
    <3>2. CASE ~Committable(AddedAll) BY <1>1, <2>2, <3>2 DEF CommitAll
    <3> QED BY <3>1, <3>2
  <2>3. CASE AmendCommit BY <1>2, <2>3 DEF Discards
  <2> QED BY <1>5, <2>1, <2>2, <2>3 DEF CommitCommand
<1>6. CASE HeadCommand
  <2>1. ASSUME NEW b \in Branch, CreateBranch(b) PROVE ExtendsHistory
    <3>1. Roots \subseteq Roots'
      BY <1>0, <2>1 DEF CreateBranch, Roots, HeadId, RefsOK
    <3> QED BY <1>3, <2>1, <3>1, RootsStay, StoreKept DEF CreateBranch
  <2>2. ASSUME NEW b \in Branch, RenameCurrentBranch(b) PROVE ExtendsHistory
    <3>1. Roots \subseteq Roots'
      BY <1>0, <2>2 DEF RenameCurrentBranch, Roots, HeadId, RefsOK
    <3> QED BY <1>3, <2>2, <3>1, RootsStay, StoreKept DEF RenameCurrentBranch
  <2>3. ASSUME NEW b \in Branch, DeleteBranch(b) PROVE ExtendsHistory
    BY <1>2, <2>3 DEF Discards
  <2>4. ASSUME NEW target \in Branch \cup Ids, NEW force \in BOOLEAN, Checkout(target, force)
        PROVE  ExtendsHistory
    <3>1. CASE head \in Branch
      <4>1. Roots \subseteq Roots' BY <2>4, <3>1 DEF Checkout, Roots, HeadId
      <4> QED BY <1>3, <2>4, <4>1, RootsStay, StoreKept DEF Checkout
    <3>2. CASE head \notin Branch BY <1>2, <2>4, <3>2 DEF Discards
    <3> QED BY <3>1, <3>2
  <2>5. ASSUME NEW p \in Path, CheckoutFile(p) PROVE ExtendsHistory
    BY <1>1, <2>5 DEF CheckoutFile
  <2>6. ASSUME NEW id \in Ids, NEW mode \in {"soft", "mixed", "hard"}, Reset(id, mode)
        PROVE  ExtendsHistory
    BY <1>2, <2>6 DEF Discards
  <2> QED BY <1>6, <2>1, <2>2, <2>3, <2>4, <2>5, <2>6 DEF HeadCommand
<1>7. CASE MergeCommand
  <2>1. CASE MergeAbort BY <1>1, <2>1 DEF MergeAbort
  <2>2. ASSUME NEW branch \in Branch, Merge(branch) PROVE ExtendsHistory
    <3>1. refs[branch] \in Ids /\ UNCHANGED <<commits, stash>>
      BY <1>0, <2>2 DEF Merge, RefsOK
    <3>2. \/ UNCHANGED <<refs, head>>
          \/ HeadId \in MergeBases(HeadId, refs[branch]) /\ MoveHead(refs[branch])
      BY <2>2 DEF Merge, FastForward
    <3> QED BY <1>1, <1>3, <3>1, <3>2, FastForwardExtends
  <2> QED BY <1>7, <2>1, <2>2 DEF MergeCommand
<1>8. CASE StashCommand
  <2>1. CASE StashPush
    <3>1. PICK id \in 1 .. MaxCommits :
             /\ CommitTree([tree |-> WriteTree(Rehashed), parents |-> <<HeadId>>], id)
             /\ stash' = <<id>> \o stash
      BY <2>1 DEF StashPush
    <3>2. ToSet(stash) \subseteq ToSet(stash')
      <4>1. ASSUME NEW k \in DOMAIN stash
            PROVE  k + 1 \in DOMAIN stash' /\ stash'[k + 1] = stash[k]
        BY <1>0, <3>1 DEF StashOK
      <4> QED BY <4>1 DEF ToSet
    <3>3. Roots \subseteq Roots' BY <2>1, <3>2 DEF StashPush, Roots, HeadId
    <3> QED BY <1>3, <3>1, <3>3, RootsStay, StoreGains
  <2>2. ASSUME NEW k \in DOMAIN stash, StashApply(k) PROVE ExtendsHistory
    BY <1>1, <2>2 DEF StashApply
  <2>3. CASE StashClear \/ \E k \in DOMAIN stash : StashPop(k) \/ StashDrop(k)
    BY <1>2, <2>3 DEF Discards
  <2> QED BY <1>8, <2>1, <2>2, <2>3 DEF StashCommand
<1> QED BY <1>4, <1>5, <1>6, <1>7, <1>8 DEF Next

\* A command that writes a commit and forgets MERGE_HEAD has put the merged
\* commit in the history of HEAD, where it is the youngest both reach.
LEMMA NextConcludesMerge ==
    ASSUME TypeOK, TypeOK', Next
    PROVE  ConcludesMerge
<1> SUFFICES ASSUME mergeHead # None, mergeHead' = None, Len(commits') > Len(commits),
                    NEW m, m = mergeHead
             PROVE  MergeBases(HeadId, m)' = {m}
  BY DEF ConcludesMerge
<1>0. CommitsOK /\ CommitsOK' /\ MergeOK /\ RefsOK /\ HeadOK BY TypeParts, TypePartsNext
<1>1. commits' # commits BY <1>0, IdsAreNaturals
<1>2. \E ix : CommitIndex(ix)
  <2>1. FileCommand => UNCHANGED commits
    BY DEF FileCommand, Edit, AddFile, AddAll, RemoveFile, MoveFile, Clean, UnstageFile
  <2>2. HeadCommand => UNCHANGED commits
    BY DEF HeadCommand, CreateBranch, RenameCurrentBranch, DeleteBranch, Checkout,
           CheckoutFile, Reset
  <2>3. MergeCommand => UNCHANGED commits BY DEF MergeCommand, MergeAbort, Merge
  <2>4. StashCommand => UNCHANGED mergeHead
    BY DEF StashCommand, StashPush, StashApply, StashPop, StashDrop, StashClear
  <2>5. CommitCommand => UNCHANGED mergeHead \/ \E ix : CommitIndex(ix)
    BY DEF CommitCommand, Commit, CommitAll, AmendCommit
  <2> QED BY <1>1, <2>1, <2>2, <2>3, <2>4, <2>5 DEF Next
<1>3. PICK ix : CommitIndex(ix) BY <1>2
<1> DEFINE c == [tree |-> WriteTree(ix), parents |-> Parents]
<1>4. PICK id \in 1 .. MaxCommits : CommitTree(c, id) /\ MoveHead(id)
  BY <1>3 DEF CommitIndex
<1> HIDE DEF c
<1>5. StoreGrows BY <1>4, StoreGains
<1>6. commits'[id] = c /\ id \in Ids'
  BY <1>0, <1>4, CommitTreeStores DEF CommitTree, CommitsOK, Ids
<1>7. HeadId' = id BY <1>0, <1>4, <1>5, <1>6, MoveHeadType DEF StoreGrows
<1>8. Histories' BY <1>5, HistoriesHold, PTL DEF StoreGrows
<1>9. m \in Ids /\ m \in Ids' BY <1>0, <1>5 DEF MergeOK, StoreGrows
<1>10. m \in Ancestors(id)'
  <2>1. \E k \in DOMAIN c.parents : c.parents[k] = m
    <3>1. CASE HeadId = None BY <3>1 DEF c, Parents
    <3>2. CASE HeadId # None
      <4>1. 2 \in DOMAIN c.parents /\ c.parents[2] = mergeHead BY <3>2 DEF c, Parents
      <4> QED BY <4>1
    <3> QED BY <3>1, <3>2
  <2>2. \A k \in DOMAIN c.parents : c.parents[k] \in Ancestors(id)'
    BY <1>6, <1>8 DEF Histories
  <2> QED BY <2>1, <2>2
<1> DEFINE A == Ancestors(m)'
<1>11. /\ m \in A /\ A \subseteq Ids' /\ A \subseteq Ancestors(id)'
       /\ \A d \in A \ {m} : m \notin Ancestors(d)'
  <2>1. m \in A /\ A \subseteq Ids' /\ A \subseteq Ancestors(id)'
    BY <1>6, <1>8, <1>9, <1>10 DEF Histories
  <2>2. ASSUME NEW d \in A, d # m PROVE m \notin Ancestors(d)'
    <3>1. Ids' \subseteq Nat BY <1>0 DEF CommitsOK, Ids
    <3>2. d \in 1 .. m /\ Ancestors(d)' \subseteq 1 .. d
      BY <1>8, <1>9, <2>1, <2>2 DEF Histories
    <3> QED BY <1>9, <2>2, <3>1, <3>2
  <2> QED BY <2>1, <2>2
<1> HIDE DEF A
<1>12. MergeBases(id, m)' = {x \in A : \A d \in A \ {x} : x \notin Ancestors(d)'}
  BY <1>11 DEF MergeBases, A
<1>13. MergeBases(id, m)' = {m} BY <1>11, <1>12 DEF A
<1>14. MergeBases(HeadId, m)' = MergeBases(id, m)' BY <1>7 DEF MergeBases
<1> QED BY <1>13, <1>14

\* reset.go:54, checkout.go:142: a crash after the files were aligned finds HEAD
\* where it was, never ahead of them - in every repository.
THEOREM HeadAlwaysMovesLast == Spec => HeadMovesLast
<1>1. TypeOK /\ [Next]_vars => [MovesLast]_vars BY NextMovesLast
<1> QED BY <1>1, TypeCorrect, PTL DEF Spec, HeadMovesLast

\* checkout.go:21: what no object holds is safe from a checkout.
THEOREM CheckoutAlwaysKeepsWork == Spec => CheckoutKeepsWork
<1>1. TypeOK /\ [Next]_vars => [SparesWork]_vars BY CheckoutSparesWork
<1> QED BY <1>1, TypeCorrect, PTL DEF Spec, CheckoutKeepsWork

\* stash.go:100: a push saves the text of every tracked file.
THEOREM StashAlwaysKeepsTracked == Spec => StashKeepsTracked
<1>1. TypeOK /\ [Next]_vars => [SavesTracked]_vars BY NextSavesTracked
<1> QED BY <1>1, TypeCorrect, PTL DEF Spec, StashKeepsTracked

\* No commit is lost by a command that is not meant to discard one: Commit
\* (commit.go:108), a fast-forward, a rename, a checkout from a branch and a
\* stash keep every commit in reach, in every repository and after any history.
THEOREM HistoryAlwaysKept == Spec => HistoryKept
<1>1. TypeOK /\ TypeOK' /\ [Next]_vars => [ExtendsHistory]_vars BY NextExtendsHistory
<1> QED BY <1>1, TypeCorrect, PTL DEF Spec, HistoryKept

\* A merge that was committed is concluded: FindMergeBases (adaptor.go:325) then
\* gives the merged commit as the only base, and merging it again does nothing.
THEOREM MergeAlwaysConcluded == Spec => MergeConcluded
<1>1. TypeOK /\ TypeOK' /\ [Next]_vars => [ConcludesMerge]_vars BY NextConcludesMerge
<1> QED BY <1>1, TypeCorrect, PTL DEF Spec, MergeConcluded
===============================================================================
