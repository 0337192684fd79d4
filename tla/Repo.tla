---------------------------------- MODULE Repo ---------------------------------
(***************************************************************************)
(* A kitcat repository under its porcelain commands (internal/core), one   *)
(* command at a time: the commit graph, the branches and HEAD, the index,  *)
(* the working tree, MERGE_HEAD and the stash.                             *)
(*                                                                         *)
(* A commit is named by its position in commits; a tree maps every path to *)
(* a blob or to None (no entry).  Zero is the all-zero object id that      *)
(* HexToHash("") yields: an index entry may carry it, no object has it.    *)
(* File modes, directories, ignore rules, messages and the stat cache are  *)
(* left out; a command argument that names a directory is a set of paths.  *)
(***************************************************************************)
EXTENDS Integers, SequencesExt, CommitGraph

CONSTANTS
    Path, Blob,
    Marked,      \* the blobs whose text holds conflict markers
    Branch, Main,
    None, Zero,
    MaxCommits,  \* bound: commit objects ever written
    MaxStash     \* bound: entries of the stash log

ASSUME DataAssumption ==
    /\ Marked \subseteq Blob
    /\ None \notin Blob /\ Zero \notin Blob /\ Zero # None
    /\ None \notin [blob : Blob \cup {Zero}, stage : {0, 2}]

ASSUME NameAssumption ==
    /\ Main \in Branch
    /\ None \notin Branch /\ None \notin Nat /\ Branch \cap Nat = {}

ASSUME BoundAssumption == MaxCommits \in Nat /\ MaxStash \in Nat

VARIABLES
    commits,    \* the commit objects, [tree, parents], in order of creation
    refs,       \* refs/heads: branch -> commit id, or None
    head,       \* HEAD: a branch, or a commit id when detached
    index,      \* path -> [blob, stage], or None
    work,       \* path -> content on disk, or None
    mergeHead,  \* MERGE_HEAD: a commit id, or None
    stash       \* the stash log, newest first (ListStashes)

vars == <<commits, refs, head, index, work, mergeHead, stash>>
-------------------------------------------------------------------------------
Ids == DOMAIN commits

Entry == [blob : Blob \cup {Zero}, stage : {0, 2}]

\* What HEAD resolves to: GetLastCommit, readHead, GetHeadCommit.
HeadId == IF head \in Branch THEN refs[head] ELSE head

Tree == [Path -> Blob \cup {None, Zero}]

CommitObject == [tree : Tree, parents : Seq(Nat)]

EmptyTree == [p \in Path |-> None]

TreeOf(id) == IF id = None THEN EmptyTree ELSE commits[id].tree

HeadTree == TreeOf(HeadId)

\* WriteTree: the tree of an index; it ignores the stage.
WriteTree(ix) == [p \in Path |-> IF ix[p] = None THEN None ELSE ix[p].blob]

\* WriteIndexFromTree: the index of a tree, every entry resolved.
ReadTree(t) ==
    [p \in Path |-> IF t[p] = None THEN None ELSE [blob |-> t[p], stage |-> 0]]

Tracked == {p \in Path : index[p] # None}

\* IsWorkDirDirty: the index against HEAD, then the tracked files on disk.
Dirty ==
    \/ WriteTree(index) # HeadTree
    \/ \E p \in Tracked : work[p] \notin {None, index[p].blob}

\* Every blob of the tree is in the object store.
Readable(t) == \A p \in Path : t[p] # Zero

\* The commit graph: ids reachable from id, itself included.
Parentage == [i \in Ids |-> ToSet(commits[i].parents)]

Ancestors(id) == AncestorsIn(Parentage, id)

\* FindMergeBases: the common ancestors no other common ancestor reaches.
MergeBases(i, j) ==
    LET common == {c \in Ids : c \in Ancestors(i) /\ c \in Ancestors(j)}
    IN {c \in common : \A d \in common \ {c} : c \notin Ancestors(d)}
-------------------------------------------------------------------------------
(***************************************************************************)
(* CheckoutTree aligns the disk with a tree: it removes the tracked paths  *)
(* the tree lacks, then writes the tree's files in map order.  It stops at *)
(* the first object it cannot read, and what it did before stays.          *)
(***************************************************************************)
CheckoutTree(t) ==
    LET gone == {p \in Tracked : t[p] = None}
        laid(W) == [p \in Path |-> IF p \in W THEN t[p]
                                   ELSE IF p \in gone THEN None ELSE work[p]]
    IN IF Readable(t)
       THEN work' = laid({p \in Path : t[p] # None})
       ELSE \E W \in SUBSET {p \in Path : t[p] \in Blob} : work' = laid(W)

\* updateHead, UpdateBranchPointer, UpdateRef: the branch HEAD names, or HEAD.
MoveHead(id) ==
    IF head \in Branch
    THEN refs' = [refs EXCEPT ![head] = id] /\ UNCHANGED head
    ELSE head' = id /\ UNCHANGED refs

\* Plausible defect: the object is not written before its id is used.
CommitTreeUnwritten(c, id) ==
    /\ id = Len(commits) + 1 /\ id <= MaxCommits
    /\ UNCHANGED commits

\* CommitTree: objects are content-addressed, so writing the same commit
\* again yields the same id.
CommitTree(c, id) ==
    \/ id \in Ids /\ commits[id] = c /\ UNCHANGED commits
    \/ /\ id = Len(commits) + 1 /\ id <= MaxCommits
       /\ commits' = Append(commits, c)

Init ==
    /\ commits = <<>>
    /\ refs = [b \in Branch |-> None]
    /\ head = Main
    /\ index = [p \in Path |-> None]
    /\ work = [p \in Path |-> None]
    /\ mergeHead = None
    /\ stash = <<>>
-------------------------------------------------------------------------------
(* The working tree and the index *)

\* The user writes or deletes a file.
Edit(p, content) ==
    /\ work' = [work EXCEPT ![p] = content]
    /\ UNCHANGED <<commits, refs, head, index, mergeHead, stash>>

\* `add <path>`: stages the files found under the path.
AddFile(P) ==
    /\ \A p \in P : work[p] # None
    /\ index' = [p \in Path |-> IF p \in P THEN [blob |-> work[p], stage |-> 0]
                                ELSE index[p]]
    /\ UNCHANGED <<commits, refs, head, work, mergeHead, stash>>

\* `add -A`: stages every file and drops the entries of missing files.
AddedAll == ReadTree(work)

AddAll ==
    /\ index' = AddedAll
    /\ UNCHANGED <<commits, refs, head, work, mergeHead, stash>>

\* `rm`: no check of any kind.
RemoveFile(P, cached) ==
    /\ work' = [p \in Path |-> IF p \in P /\ ~cached THEN None ELSE work[p]]
    /\ index' = [p \in Path |-> IF p \in P THEN None ELSE index[p]]
    /\ UNCHANGED <<commits, refs, head, mergeHead, stash>>

\* `mv`: renames the file, and its entry when it has one.
MoveFile(src, dst, force) ==
    /\ src # dst /\ work[src] # None /\ (force \/ work[dst] = None)
    /\ work' = [work EXCEPT ![dst] = work[src], ![src] = None]
    /\ index' = IF index[src] = None THEN index
                ELSE [index EXCEPT ![dst] = index[src], ![src] = None]
    /\ UNCHANGED <<commits, refs, head, mergeHead, stash>>

\* `clean`: removes the untracked files.
Clean ==
    /\ work' = [p \in Path |-> IF p \in Tracked THEN work[p] ELSE None]
    /\ UNCHANGED <<commits, refs, head, index, mergeHead, stash>>

\* `reset <commit> -- <paths>`.
UnstageFile(id, P) ==
    /\ index' = [p \in Path |-> IF p \in P THEN ReadTree(TreeOf(id))[p]
                                ELSE index[p]]
    /\ UNCHANGED <<commits, refs, head, work, mergeHead, stash>>
-------------------------------------------------------------------------------
(* Commits *)

\* Plausible defect: only the text on disk is looked at, not the stages.
CommittableByText(ix) ==
    \A p \in Path : mergeHead # None /\ ix[p] # None => work[p] \notin Marked

\* Commit refuses unmerged entries and, during a merge, tracked files whose
\* text on disk still holds markers.
Committable(ix) ==
    \A p \in Path : ix[p] # None =>
        /\ ix[p].stage = 0
        /\ mergeHead # None => work[p] \notin Marked

\* Plausible defects: one of the two parents is forgotten.
ParentsNoMergeHead == IF HeadId = None THEN <<>> ELSE <<HeadId>>
ParentsNoHead == IF mergeHead = None THEN <<>> ELSE <<mergeHead>>

\* HEAD's commit, and MERGE_HEAD's when a merge is being concluded.
Parents ==
    (IF HeadId = None THEN <<>> ELSE <<HeadId>>)
      \o (IF mergeHead = None THEN <<>> ELSE <<mergeHead>>)

CommitIndex(ix) ==
    /\ Committable(ix)
    /\ \E id \in 1 .. MaxCommits :
         /\ CommitTree([tree |-> WriteTree(ix), parents |-> Parents], id)
         /\ MoveHead(id)
    /\ mergeHead' = None

Commit ==
    /\ CommitIndex(index)
    /\ UNCHANGED <<index, work, stash>>

\* `commit -a`: what AddAll staged stays staged when Commit then refuses.
CommitAll ==
    /\ index' = AddedAll
    /\ IF Committable(AddedAll)
       THEN CommitIndex(AddedAll)
       ELSE UNCHANGED <<commits, refs, head, mergeHead>>
    /\ UNCHANGED <<work, stash>>

\* `commit --amend`: the parents are appended to themselves (commit.go:170-173).
AmendCommit ==
    /\ mergeHead = None /\ HeadId # None
    /\ \E id \in 1 .. MaxCommits :
         /\ CommitTree([tree    |-> WriteTree(index),
                        parents |-> commits[HeadId].parents
                                      \o commits[HeadId].parents], id)
         /\ MoveHead(id)
    /\ UNCHANGED <<index, work, mergeHead, stash>>
-------------------------------------------------------------------------------
(* Branches and HEAD *)

CreateBranch(b) ==
    /\ refs[b] = None
    /\ head \in Branch /\ refs[head] # None
    /\ refs' = [refs EXCEPT ![b] = refs[head]]
    /\ UNCHANGED <<commits, head, index, work, mergeHead, stash>>

\* Plausible defect: HEAD keeps naming the branch that is removed.
RenameCurrentBranchOldHead(b) ==
    /\ head \in Branch /\ refs[b] = None /\ refs[head] # None
    /\ refs' = [refs EXCEPT ![b] = refs[head], ![head] = None]
    /\ UNCHANGED <<commits, head, index, work, mergeHead, stash>>

RenameCurrentBranch(b) ==
    /\ head \in Branch /\ refs[b] = None /\ refs[head] # None
    /\ refs' = [refs EXCEPT ![b] = refs[head], ![head] = None]
    /\ head' = b
    /\ UNCHANGED <<commits, index, work, mergeHead, stash>>

DeleteBranch(b) ==
    /\ head \in Branch /\ b # head /\ refs[b] # None
    /\ refs' = [refs EXCEPT ![b] = None]
    /\ UNCHANGED <<commits, head, index, work, mergeHead, stash>>

\* Plausible defect: no check for untracked files in the way.
CheckoutCollides(target, force) ==
    LET id == IF target \in Branch THEN refs[target] ELSE target
        t  == TreeOf(id)
    IN /\ id \in Ids
       /\ force \/ ~Dirty
       /\ CheckoutTree(t)
       /\ IF Readable(t) THEN index' = ReadTree(t) /\ head' = target
          ELSE UNCHANGED <<index, head>>
       /\ UNCHANGED <<commits, refs, mergeHead, stash>>

\* `checkout [-f] <branch or commit>`.
Checkout(target, force) ==
    LET id == IF target \in Branch THEN refs[target] ELSE target
        t  == TreeOf(id)
    IN /\ id \in Ids
       /\ force \/ /\ ~Dirty
                   /\ \A p \in Path : t[p] # None /\ work[p] # None => p \in Tracked
       /\ CheckoutTree(t)
       /\ IF Readable(t) THEN index' = ReadTree(t) /\ head' = target
          ELSE UNCHANGED <<index, head>>
       /\ UNCHANGED <<commits, refs, mergeHead, stash>>

\* `checkout -- <file>`: the file of the last commit.
CheckoutFile(p) ==
    /\ HeadTree[p] \in Blob
    /\ work[p] # None => p \in Tracked /\ work[p] = index[p].blob
    /\ work' = [work EXCEPT ![p] = HeadTree[p]]
    /\ index' = [index EXCEPT ![p] = [blob |-> HeadTree[p], stage |-> 0]]
    /\ UNCHANGED <<commits, refs, head, mergeHead, stash>>

\* `reset --soft | --mixed | --hard <commit>`.
Reset(id, mode) ==
    LET t == TreeOf(id)
    IN /\ IF mode = "hard" THEN CheckoutTree(t) ELSE UNCHANGED work
       /\ IF mode = "hard" /\ ~Readable(t)
          THEN UNCHANGED <<index, refs, head>>
          ELSE /\ index' = IF mode = "soft" THEN index ELSE ReadTree(t)
               /\ MoveHead(id)
       /\ UNCHANGED <<commits, mergeHead, stash>>
-------------------------------------------------------------------------------
(* Merging *)

Engine == INSTANCE MergeEngine
            WITH Hash <- Blob \cup {Zero}, Mode <- {"100644"}

\* What MergeTrees decides for each path and takes for it, modes aside.
Sides(b, o, t) == [p \in Path |-> Engine!Side(b[p], o[p], t[p])]

Picked(b, o, t) ==
    [p \in Path |-> Engine!Chosen(Sides(b, o, t)[p], b[p], o[p], t[p])]

Conflicts(b, o, t) == {p \in Path : Sides(b, o, t)[p] = "conflict"}

(***************************************************************************)
(* ApplyMergePlan: deletions, clean updates, then the conflicts, whose     *)
(* text is whatever Merge3 makes of it and whose entry is ours at stage 2  *)
(* - the zero id when ours deleted the path.  An object that cannot be     *)
(* read stops it before the index is written.                              *)
(***************************************************************************)
ApplyMergePlan(b, o, t) ==
    LET picked    == Picked(b, o, t)
        deleted   == {p \in Path : Sides(b, o, t)[p] \in {"ours", "theirs"}
                                     /\ picked[p] = None}
        clean     == {p \in Path : picked[p] # None}
        conflicts == Conflicts(b, o, t)
        laid(W) == [p \in Path |-> IF p \in W THEN picked[p]
                                   ELSE IF p \in deleted THEN None ELSE work[p]]
    IN IF Readable(picked)
       THEN /\ \E text \in [conflicts -> Blob] :
                 work' = [p \in Path |-> IF p \in conflicts THEN text[p]
                                         ELSE laid(clean)[p]]
            /\ index' = [p \in Path |->
                 IF p \in clean THEN [blob |-> picked[p], stage |-> 0]
                 ELSE IF p \in deleted THEN None
                 ELSE IF p \in conflicts
                 THEN [blob |-> IF o[p] = None THEN Zero ELSE o[p], stage |-> 2]
                 ELSE index[p]]
       ELSE /\ \E W \in SUBSET {p \in clean : picked[p] # Zero} : work' = laid(W)
            /\ UNCHANGED index

\* The merge that is not a fast-forward leaves its result for Commit.
ThreeWayMerge(base, theirs) ==
    LET b == TreeOf(base)
        t == TreeOf(theirs)
    IN /\ ApplyMergePlan(b, HeadTree, t)
       /\ mergeHead' = IF Readable(Picked(b, HeadTree, t)) THEN theirs ELSE mergeHead

\* Plausible defect: the index is left behind.
FastForwardOldIndex(theirs) ==
    /\ CheckoutTree(TreeOf(theirs))
    /\ IF Readable(TreeOf(theirs)) THEN MoveHead(theirs) ELSE UNCHANGED <<refs, head>>
    /\ UNCHANGED <<index, mergeHead>>

\* The base is HEAD: materialise theirs, then move the branch.
FastForward(theirs) ==
    /\ CheckoutTree(TreeOf(theirs))
    /\ IF Readable(TreeOf(theirs))
       THEN index' = ReadTree(TreeOf(theirs)) /\ MoveHead(theirs)
       ELSE UNCHANGED <<index, refs, head>>
    /\ UNCHANGED mergeHead

\* `merge <branch>`; when the base is theirs there is nothing to do.
Merge(branch) ==
    /\ ~Dirty /\ refs[branch] # None /\ HeadId # None
    /\ \E base \in MergeBases(HeadId, refs[branch]) :
         \/ base = HeadId /\ FastForward(refs[branch])
         \/ /\ base \notin {HeadId, refs[branch]}
            /\ ThreeWayMerge(base, refs[branch])
            /\ UNCHANGED <<refs, head>>
    /\ UNCHANGED <<commits, stash>>

\* `merge --abort`: a hard reset to HEAD, then the merge state is removed.
MergeAbort ==
    /\ mergeHead # None /\ HeadId # None
    /\ CheckoutTree(HeadTree)
    /\ IF Readable(HeadTree) THEN index' = ReadTree(HeadTree) /\ mergeHead' = None
       ELSE UNCHANGED <<index, mergeHead>>
    /\ UNCHANGED <<commits, refs, head, stash>>
-------------------------------------------------------------------------------
(* The stash *)

\* Plausible defect: the WIP commit records what was staged only.
RehashedNot == index

\* The index StashPush writes: tracked files on disk are hashed again.
Rehashed ==
    [p \in Path |-> IF p \in Tracked /\ work[p] # None
                    THEN [index[p] EXCEPT !.blob = work[p]] ELSE index[p]]

\* `stash [push]`: a WIP commit of the index, then a hard reset to HEAD.
StashPush ==
    /\ HeadId # None /\ Dirty /\ Len(stash) < MaxStash
    /\ \E id \in 1 .. MaxCommits :
         /\ CommitTree([tree |-> WriteTree(Rehashed), parents |-> <<HeadId>>], id)
         /\ stash' = <<id>> \o stash
    /\ CheckoutTree(HeadTree)
    /\ index' = IF Readable(HeadTree) THEN ReadTree(HeadTree) ELSE Rehashed
    /\ UNCHANGED <<refs, head, mergeHead>>

\* UpdateWorkspaceAndIndex on the k-th stash entry, on a clean tree.
Unstash(k) ==
    LET t == TreeOf(stash[k])
    IN /\ ~Dirty
       /\ CheckoutTree(t)
       /\ index' = IF Readable(t) THEN ReadTree(t) ELSE index

StashApply(k) ==
    /\ Unstash(k)
    /\ UNCHANGED <<commits, refs, head, mergeHead, stash>>

StashPop(k) ==
    /\ Unstash(k)
    /\ stash' = IF Readable(TreeOf(stash[k])) THEN RemoveAt(stash, k) ELSE stash
    /\ UNCHANGED <<commits, refs, head, mergeHead>>

StashDrop(k) ==
    /\ stash' = RemoveAt(stash, k)
    /\ UNCHANGED <<commits, refs, head, index, work, mergeHead>>

StashClear ==
    /\ stash' = <<>>
    /\ UNCHANGED <<commits, refs, head, index, work, mergeHead>>
-------------------------------------------------------------------------------
Arguments == SUBSET Path \ {{}}

FileCommand ==
    \/ \E p \in Path, c \in Blob \cup {None} : Edit(p, c)
    \/ \E P \in Arguments : AddFile(P)
    \/ AddAll
    \/ \E P \in Arguments, cached \in BOOLEAN : RemoveFile(P, cached)
    \/ \E src, dst \in Path, force \in BOOLEAN : MoveFile(src, dst, force)
    \/ Clean
    \/ \E id \in Ids, P \in Arguments : UnstageFile(id, P)

CommitCommand == Commit \/ CommitAll \/ AmendCommit

HeadCommand ==
    \/ \E b \in Branch : CreateBranch(b) \/ RenameCurrentBranch(b) \/ DeleteBranch(b)
    \/ \E target \in Branch \cup Ids, force \in BOOLEAN : Checkout(target, force)
    \/ \E p \in Path : CheckoutFile(p)
    \/ \E id \in Ids, mode \in {"soft", "mixed", "hard"} : Reset(id, mode)

MergeCommand == MergeAbort \/ \E b \in Branch : Merge(b)

StashCommand ==
    \/ StashPush
    \/ \E k \in DOMAIN stash : StashApply(k) \/ StashPop(k) \/ StashDrop(k)
    \/ StashClear

Next == FileCommand \/ CommitCommand \/ HeadCommand \/ MergeCommand \/ StashCommand

Spec == Init /\ [][Next]_vars
-------------------------------------------------------------------------------
(* Properties *)

\* Every id the repository holds names a stored commit, and a commit's parents
\* were stored before it: refs, HEAD, MERGE_HEAD and the stash never dangle.
TypeOK ==
    /\ commits \in Seq(CommitObject)
    /\ \A i \in Ids : \A k \in DOMAIN commits[i].parents :
            commits[i].parents[k] \in 1 .. i - 1
    /\ refs \in [Branch -> Ids \cup {None}]
    /\ head \in Branch \cup Ids
    /\ index \in [Path -> Entry \cup {None}]
    /\ work \in [Path -> Blob \cup {None}]
    /\ mergeHead \in Ids \cup {None}
    /\ stash \in Seq(Ids)

\* Once there is a commit, HEAD resolves to one: no sequence of renames,
\* deletions, checkouts and resets leaves HEAD on a branch without a commit.
\* Otherwise Commit would silently start a second history (commit.go:59).
HeadResolves == commits # <<>> => HeadId # None

\* An unmerged index entry only exists while a merge can still be aborted:
\* whatever removes MERGE_HEAD leaves no entry at stage 2.  AmendCommit
\* relies on it: it checks MERGE_HEAD but not the stages (commit.go:151).
UnmergedImpliesMerging ==
    \A p \in Tracked : index[p].stage # 0 => mergeHead # None

\* Reached from a branch, from HEAD or from the stash.
Roots == ({refs[b] : b \in Branch} \cup {HeadId} \cup ToSet(stash)) \ {None}

Reachable == UNION {Ancestors(i) : i \in Roots}

\* The commands that are meant to give commits up.
Discards ==
    \/ AmendCommit
    \/ \E b \in Branch : DeleteBranch(b)
    \/ \E id \in Ids, mode \in {"soft", "mixed", "hard"} : Reset(id, mode)
    \/ head \notin Branch
         /\ \E target \in Branch \cup Ids, force \in BOOLEAN : Checkout(target, force)
    \/ StashClear
    \/ \E k \in DOMAIN stash : StashPop(k) \/ StashDrop(k)

\* A step that moves refs, HEAD or the stash and keeps all that was reached, or
\* is such a command.
ExtendsHistory ==
    <<refs, head, stash>>' # <<refs, head, stash>> =>
        Reachable \subseteq Reachable' \/ Discards

\* No other command makes a commit unreachable: Commit and a fast-forward
\* extend the branch, a rename carries it, a checkout leaves it behind.
HistoryKept == [][ExtendsHistory]_vars

\* The index and the working tree are those of the commit HEAD moves to, but
\* for the commands that move it to the index instead.
MovesLast ==
    HeadId' # HeadId =>
      \/ /\ index' = ReadTree(HeadTree')
         /\ \A p \in Path : HeadTree'[p] # None => work'[p] = HeadTree'[p]
      \/ \E id \in Ids : Reset(id, "soft") \/ Reset(id, "mixed")
      \/ CommitCommand

\* The INVARIANT comments of reset.go:54 and checkout.go:142: HEAD moves to
\* another commit only when index and working tree already reflect it.
HeadMovesLast == [][MovesLast]_vars

\* A step that takes content off the disk the index does not record.
LosesWork ==
    \E p \in Path : /\ work'[p] # work[p] /\ work[p] # None
                    /\ p \notin Tracked \/ work[p] # index[p].blob

\* It is not one of a checkout.
SparesWork ==
    LosesWork => /\ \A target \in Branch \cup Ids : ~Checkout(target, FALSE)
                 /\ \A p \in Path : ~CheckoutFile(p)

\* A checkout that is not forced, of a branch, a commit or a file, overwrites
\* or deletes no content that is not in the index, hence in the object store.
CheckoutKeepsWork == [][SparesWork]_vars

\* The newest entry of the stash is a commit of what is on disk.
SavesTracked ==
    Len(stash') > Len(stash) =>
      \A p \in Tracked : work[p] # None => commits'[stash'[1]].tree[p] = work[p]

\* What StashPush takes off the disk it saves: the WIP commit holds the text
\* on disk of every tracked file, so pop can bring it back.
StashKeepsTracked == [][SavesTracked]_vars

\* The merged commit is the one base of HEAD and itself once its commit is there.
ConcludesMerge ==
    mergeHead # None /\ mergeHead' = None /\ Len(commits') > Len(commits) =>
        \A m \in {mergeHead} : MergeBases(HeadId, m)' = {m}

\* Once the commit of a merge is written, merging the same commit again finds
\* it as the one merge base and has nothing to do.
MergeConcluded == [][ConcludesMerge]_vars
-------------------------------------------------------------------------------
(* What comments and documentation say, and the code does not do *)

\* commit.go:41: a merge commit never records text with conflict markers.
MarkersNotCommitted ==
    \A i \in Ids :
        Cardinality(ToSet(commits[i].parents)) = 2
            => \A p \in Path : commits[i].tree[p] \notin Marked
===============================================================================
