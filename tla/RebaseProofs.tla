------------------------------ MODULE RebaseProofs -----------------------------
(***************************************************************************)
(* Unmerged entries belong to a merge or to a rebase, an abort goes back,  *)
(* and no entry of a list is skipped: for every set of paths, contents and *)
(* branches, any bound, any number of rebases and of crashes in them.      *)
(***************************************************************************)
EXTENDS Rebase, RepoProofs, FiniteSetTheorems

\* A RebaseState of stored commits.
Saved ==
    [headName : Branch, onto : Ids, origHead : Ids \cup {None}, todo : Seq(Ids),
     step : Nat \ {0}]

\* A running rebase has a state on disk, and until it is done one in memory.
SequencerOK ==
    /\ at \in {"idle", "onto", "resume", "resumed", "replay", "commit", "stop",
               "save", "clear"}
    /\ state \in Saved \cup {None} /\ mem \in Saved \cup {None}
    /\ cut \in BOOLEAN
    /\ at # "idle" => state \in Saved
    /\ at \notin {"idle", "clear"} => mem \in Saved
    /\ at = "stop" => mem.step <= Len(mem.todo)

\* Where an index may be unmerged.
Merged ==
    \/ cut \/ mergeHead # None \/ Resolved(index)
    \/ at = "stop"
    \/ at = "idle" /\ stopped # None /\ state # None

RInv == TypeOK /\ SequencerOK /\ Merged
-------------------------------------------------------------------------------
\* No command of Repo forgets a commit.
LEMMA NextGrows ==
    ASSUME TypeOK, Next
    PROVE  Ids \subseteq Ids'
<1>1. CommitsOK
  BY TypeParts
<1>2. ASSUME NEW c, NEW id, CommitTree(c, id)
      PROVE  Ids \subseteq Ids'
  <2>1. Len(commits) \in Nat /\ Len(Append(commits, c)) = Len(commits) + 1
    BY <1>1 DEF CommitsOK
  <2> QED BY <1>2, <2>1 DEF CommitTree, Ids
<1>3. UNCHANGED commits => Ids \subseteq Ids'
  BY DEF Ids
<1>4. CASE CommitCommand
  BY <1>2, <1>3, <1>4 DEF CommitCommand, Commit, CommitAll, AmendCommit, CommitIndex
<1>5. CASE StashCommand
  BY <1>2, <1>3, <1>5 DEF StashCommand, StashPush, StashApply, StashPop, StashDrop,
                          StashClear
<1>6. CASE FileCommand \/ HeadCommand \/ MergeCommand
  BY <1>3, <1>6 DEF FileCommand, Edit, AddFile, AddAll, RemoveFile, MoveFile, Clean,
                    UnstageFile, HeadCommand, CreateBranch, RenameCurrentBranch,
                    DeleteBranch, Checkout, CheckoutFile, Reset, MergeCommand,
                    MergeAbort, Merge
<1> QED BY <1>4, <1>5, <1>6 DEF Next

\* A saved state stays one when commits are added.
LEMMA SavedStays ==
    ASSUME Ids \subseteq Ids'
    PROVE  Saved \subseteq Saved'
<1>1. Seq(Ids) \subseteq Seq(Ids')
  BY SeqWidens
<1> QED BY <1>1 DEF Saved

\* A saved state is a state.
LEMMA SavedIsState ==
    ASSUME TypeOK, NEW s \in Saved
    PROVE  s # None
<1>1. Ids \subseteq Nat
  BY TypeParts, IdsAreNaturals
<1>2. Seq(Ids) \subseteq Seq(Nat)
  BY <1>1, SeqWidens
<1> QED BY <1>1, <1>2, StateAssumption DEF Saved, RebaseState

\* The list the user makes of the commits to replay.
LEMMA TodoType ==
    ASSUME TypeOK, NEW C \in SUBSET Ids, NEW todo \in SetToAllKPermutations(C)
    PROVE  todo \in Seq(Ids)
<1>1. IsFiniteSet(Ids)
  BY TypeParts, IdsAreNaturals, FS_Interval
<1>2. PICK S \in SUBSET C : todo \in SetToSeqs(S)
  BY DEF SetToAllKPermutations
<1>3. Cardinality(S) \in Nat
  BY <1>1, <1>2, FS_Subset, FS_CardinalityType
<1>4. todo \in [1 .. Cardinality(S) -> S]
  BY <1>2 DEF SetToSeqs
<1> QED BY <1>3, <1>4
-------------------------------------------------------------------------------
\* A hard reset keeps the types, and leaves a merged index if it gets that far.
LEMMA HardReset ==
    ASSUME TypeOK, NEW id \in Ids, Reset(id, "hard")
    PROVE  /\ TypeOK' /\ Ids' = Ids /\ mergeHead' = mergeHead
           /\ IF Readable(TreeOf(id)) THEN Resolved(index') ELSE index' = index
<1>1. TypeOK'
  BY HeadCommandType DEF HeadCommand
<1>2. Ids' = Ids /\ mergeHead' = mergeHead
  BY DEF Reset, Ids
<1> QED BY <1>1, <1>2, ReadTreeResolved DEF Reset

\* commitRebaseStep adds a commit and leaves the index alone.
LEMMA CommitStepType ==
    ASSUME TypeOK, NEW entry, CommitStep(entry)
    PROVE  TypeOK' /\ Ids \subseteq Ids' /\ UNCHANGED <<index, mergeHead>>
<1> DEFINE parents == IF HeadId = None THEN <<>> ELSE <<HeadId>>
           c == [tree |-> WriteTree(index), parents |-> parents]
<1>1. /\ CommitsOK /\ RefsOK /\ HeadOK /\ IndexOK /\ WorkOK /\ MergeOK /\ StashOK
      /\ HeadId \in Ids \cup {None} /\ Ids \subseteq Nat
  BY TypeParts, HeadIdType, IdsAreNaturals
<1>2. c \in CommitObject /\ \A k \in DOMAIN c.parents : c.parents[k] \in Ids
  <2>1. WriteTree(index) \in Tree
    BY <1>1, WriteTreeType DEF IndexOK
  <2>2. parents \in Seq(Nat) /\ \A k \in DOMAIN parents : parents[k] \in Ids
    BY <1>1
  <2> QED BY <2>1, <2>2 DEF CommitObject
<1>3. PICK id \in 1 .. MaxCommits : CommitTree(c, id) /\ MoveHead(id)
  BY DEF CommitStep
<1> HIDE DEF c
<1>4. CommitsOK' /\ Ids \subseteq Ids' /\ id \in Ids'
  BY <1>1, <1>2, <1>3, CommitTreeType
<1>5. RefsOK' /\ HeadOK'
  BY <1>1, <1>3, <1>4, MoveHeadType
<1>6. UNCHANGED <<index, work, mergeHead, stash>>
  BY DEF CommitStep
<1>7. MergeOK' /\ StashOK' /\ IndexOK' /\ WorkOK'
  BY <1>1, <1>4, <1>6, StillIds DEF IndexOK, WorkOK
<1> QED BY <1>4, <1>5, <1>6, <1>7, TypePartsNext

\* What a damaged save leaves can be loaded.
LEMMA WithoutType ==
    ASSUME state \in Saved, NEW files
    PROVE  Without(files) \in Saved
<1> DEFINE o == IF "orig-head" \in files THEN None ELSE state.origHead
           t == IF "git-rebase-todo" \in files THEN <<>> ELSE state.todo
           s == IF "msgnum" \in files THEN 1 ELSE state.step
<1>1. o \in Ids \cup {None} /\ t \in Seq(Ids) /\ s \in Nat \ {0}
  BY DEF Saved
<1>2. Without(files) = [[[state EXCEPT !.origHead = o] EXCEPT !.todo = t] EXCEPT !.step = s]
  BY DEF Without, Saved
<1> HIDE DEF o, t, s
<1> QED BY <1>1, <1>2 DEF Saved

\* Commands of Repo, between the processes of a rebase.
LEMMA OtherCommand ==
    ASSUME RInv, at = "idle", Next, UNCHANGED sequencer
    PROVE  RInv'
<1>1. TypeOK'
  BY NextType DEF RInv
<1>2. Saved \subseteq Saved'
  BY NextGrows, SavedStays DEF RInv
<1>3. SequencerOK'
  <2>1. UNCHANGED <<at, state, mem, cut>>
    BY DEF sequencer
  <2> QED BY <1>2, <2>1 DEF RInv, SequencerOK
<1>4. CASE cut \/ (stopped # None /\ state # None)
  <2>1. Merged'
    BY <1>4 DEF Merged, sequencer
  <2> QED BY <1>1, <1>3, <2>1 DEF RInv
<1>5. CASE UnmergedImpliesMerging
  <2>1. UnmergedImpliesMerging'
    BY <1>5, NextUnmerged DEF RInv
  <2>2. mergeHead' # None \/ Resolved(index')
    BY <2>1, UnmergedParts
  <2>3. Merged'
    BY <2>2 DEF Merged
  <2> QED BY <1>1, <1>3, <2>3 DEF RInv
<1>6. cut \/ (stopped # None /\ state # None) \/ UnmergedImpliesMerging
  BY UnmergedParts DEF RInv, Merged
<1> QED BY <1>4, <1>5, <1>6

\* The commands that start, resume and abort a rebase.
LEMMA RebaseCommandKeeps ==
    ASSUME RInv, RebaseCommand
    PROVE  RInv'
<1>1. ASSUME NEW b \in Branch, StartRebase(b)
      PROVE  RInv'
  <2>1. TypeOK' /\ Ids' = Ids /\ UNCHANGED <<mergeHead, index, cut>> /\ at' = "onto"
    BY <1>1 DEF RInv, StartRebase, vars, TypeOK, Ids
  <2>2. PICK base \in MergeBases(HeadId, refs[b]) :
           \E todo \in SetToAllKPermutations(CommitsForRebase(HeadId, base)) :
              state' = [headName |-> head, onto |-> refs[b], origHead |-> HeadId,
                        todo |-> todo, step |-> 1]
    BY <1>1 DEF StartRebase
  <2>3. PICK todo \in SetToAllKPermutations(CommitsForRebase(HeadId, base)) :
              state' = [headName |-> head, onto |-> refs[b], origHead |-> HeadId,
                        todo |-> todo, step |-> 1]
    BY <2>2
  <2>4. todo \in Seq(Ids)
    <3>1. CommitsForRebase(HeadId, base) \subseteq Ids
      BY DEF CommitsForRebase
    <3> QED BY <2>3, <3>1, TodoType DEF RInv
  <2>5. head \in Branch /\ refs[b] \in Ids /\ HeadId \in Ids
    BY <1>1, TypeParts, HeadIdType DEF RInv, StartRebase, RefsOK
  <2>6. state' \in Saved /\ mem' = state'
    BY <1>1, <2>3, <2>4, <2>5 DEF StartRebase, Saved
  <2>7. SequencerOK'
    BY <2>1, <2>6 DEF RInv, SequencerOK, Saved
  <2>8. Merged'
    BY <1>1, <2>1 DEF RInv, Merged, StartRebase
  <2> QED BY <2>1, <2>7, <2>8 DEF RInv
<1>2. ASSUME Continue
      PROVE  RInv'
  <2>1. TypeOK' /\ Ids' = Ids /\ UNCHANGED <<mergeHead, index, state, cut>>
    BY <1>2 DEF RInv, Continue, vars, TypeOK, Ids
  <2>2. at = "idle" /\ state # None /\ at' \in {"replay", "resume"} /\ mem' = state
    BY <1>2 DEF Continue
  <2>3. SequencerOK'
    BY <2>1, <2>2 DEF RInv, SequencerOK, Saved
  <2>4. stopped # None => Resolved(index)
    BY <1>2 DEF Continue, Resolved, Tracked
  <2>5. Merged'
    BY <2>1, <2>2, <2>4 DEF RInv, Merged
  <2> QED BY <2>1, <2>3, <2>5 DEF RInv
<1>3. ASSUME Abort
      PROVE  RInv'
  <2>1. state.origHead \in Ids /\ Reset(state.origHead, "hard") /\ at = "idle"
    BY <1>3 DEF Abort, RInv, SequencerOK, Saved
  <2>2. /\ TypeOK' /\ Ids' = Ids /\ mergeHead' = mergeHead
        /\ IF Readable(TreeOf(state.origHead)) THEN Resolved(index') ELSE index' = index
    BY <2>1, HardReset DEF RInv
  <2>3. /\ UNCHANGED <<state, stopped, mem, cut>> /\ state \in Saved
        /\ at' = IF Readable(TreeOf(state.origHead)) THEN "clear" ELSE "idle"
    BY <1>3 DEF Abort, RInv, SequencerOK
  <2>4. SequencerOK'
    BY <2>1, <2>2, <2>3 DEF RInv, SequencerOK, Saved
  <2>5. Merged'
    BY <2>1, <2>2, <2>3 DEF RInv, Merged
  <2> QED BY <2>2, <2>4, <2>5 DEF RInv
<1> QED BY <1>1, <1>2, <1>3 DEF RebaseCommand
-------------------------------------------------------------------------------
\* The reset to the new base, which may stop at an object it cannot read.
LEMMA ResetOntoKeeps == ASSUME RInv, ResetOnto PROVE RInv'
<1>1. at = "onto" /\ mem \in Saved /\ mem.onto \in Ids /\ Reset(mem.onto, "hard")
  BY DEF ResetOnto, RInv, SequencerOK, Saved
<1>2. /\ TypeOK' /\ Ids' = Ids /\ mergeHead' = mergeHead
      /\ IF Readable(TreeOf(mem.onto)) THEN Resolved(index') ELSE index' = index
  BY <1>1, HardReset DEF RInv
<1>3. /\ UNCHANGED <<state, stopped, cut>>
      /\ \/ at' = "replay" /\ mem' = mem
         \/ at' = "idle" /\ mem' = None
  BY DEF ResetOnto, Return
<1>4. SequencerOK'
  BY <1>1, <1>2, <1>3 DEF RInv, SequencerOK, Saved
<1>5. Merged'
  BY <1>1, <1>2, <1>3 DEF RInv, Merged
<1> QED BY <1>2, <1>4, <1>5 DEF RInv

\* Committing an entry, the one that stopped or the one just picked.
LEMMA CommitKeeps == ASSUME RInv, CommitStopped \/ CommitPick PROVE RInv'
<1>1. TypeOK' /\ Ids \subseteq Ids' /\ UNCHANGED <<index, mergeHead>>
  BY CommitStepType DEF RInv, CommitStopped, CommitPick
<1>2. /\ UNCHANGED <<state, stopped, mem, cut>>
      /\ at \in {"resume", "commit"} /\ at' \in {"resumed", "save"}
  BY DEF CommitStopped, CommitPick
<1>3. SequencerOK'
  BY <1>1, <1>2, SavedStays DEF RInv, SequencerOK
<1>4. Merged'
  BY <1>1, <1>2 DEF RInv, Merged
<1> QED BY <1>1, <1>3, <1>4 DEF RInv

\* A turn of the loop: its merge leaves unmerged entries only where it conflicts,
\* and then the rebase is about to stop.
LEMMA PickKeeps == ASSUME RInv, Pick PROVE RInv'
<1> DEFINE c == commits[mem.todo[mem.step]]
           b == IF c.parents = <<>> THEN EmptyTree ELSE TreeOf(c.parents[1])
<1>1. /\ at = "replay" /\ mem \in Saved /\ state \in Saved
      /\ mem.step \in 1 .. Len(mem.todo) /\ mem.todo[mem.step] \in Ids
  BY DEF Pick, RInv, SequencerOK, Saved
<1>2. /\ CommitsOK /\ RefsOK /\ HeadOK /\ IndexOK /\ WorkOK /\ MergeOK /\ StashOK
      /\ HeadId \in Ids \cup {None}
  BY TypeParts, HeadIdType DEF RInv
<1>3. HeadTree \in Tree /\ c.tree \in Tree /\ b \in Tree
  <2>1. c \in CommitObject
    BY <1>1, <1>2 DEF CommitsOK, Ids
  <2>2. c.parents # <<>> => c.parents[1] \in Ids
    <3>1. c.parents # <<>> => 1 \in DOMAIN c.parents
      BY <2>1 DEF CommitObject
    <3> QED BY <1>1, <1>2, <3>1 DEF CommitsOK, Ids
  <2>3. EmptyTree \in Tree
    BY DEF EmptyTree, Tree
  <2> QED BY <1>2, <2>1, <2>2, <2>3, TreeType DEF HeadTree, CommitObject
<1>4. UNCHANGED <<commits, refs, head, mergeHead, stash, state, stopped, cut>>
  BY DEF Pick
<1>5. \/ UNCHANGED <<index, work>> /\ at' = "idle" /\ mem' = None
      \/ /\ ApplyMergePlan(b, HeadTree, c.tree)
         /\ \/ ~Readable(Picked(b, HeadTree, c.tree)) /\ at' = "idle" /\ mem' = None
            \/ /\ Readable(Picked(b, HeadTree, c.tree)) /\ mem' = mem
               /\ at' = IF Conflicts(b, HeadTree, c.tree) = {} THEN "commit" ELSE "stop"
  BY DEF Pick, Return
<1> HIDE DEF c, b
<1>6. WorkOK' /\ IndexOK'
  <2>1. CASE UNCHANGED <<index, work>>
    BY <1>2, <2>1 DEF IndexOK, WorkOK
  <2>2. CASE ApplyMergePlan(b, HeadTree, c.tree)
    BY <1>3, <2>2, ApplyType DEF RInv
  <2> QED BY <1>5, <2>1, <2>2
<1>7. TypeOK' /\ Ids' = Ids
  <2>1. CommitsOK' /\ RefsOK' /\ HeadOK' /\ MergeOK' /\ StashOK' /\ Ids' = Ids
    BY <1>2, <1>4 DEF CommitsOK, RefsOK, HeadOK, MergeOK, StashOK, Ids
  <2> QED BY <1>6, <2>1, TypePartsNext
<1>8. SequencerOK'
  <2>1. mem.step <= Len(mem.todo)
    BY <1>1
  <2> QED BY <1>1, <1>4, <1>5, <1>7, <2>1 DEF RInv, SequencerOK, Saved
<1>9. Merged'
  <2>1. CASE ~Readable(Picked(b, HeadTree, c.tree)) \/ UNCHANGED <<index, work>>
    BY <1>1, <1>4, <1>5, <2>1 DEF ApplyMergePlan, Merged, RInv
  <2>2. CASE at' = "stop"
    BY <2>2 DEF Merged
  <2>3. CASE /\ ApplyMergePlan(b, HeadTree, c.tree) /\ at' = "commit"
             /\ Readable(Picked(b, HeadTree, c.tree)) /\ Conflicts(b, HeadTree, c.tree) = {}
    <3>1. Resolved(index) => Resolved(index')
      BY <2>3 DEF ApplyMergePlan, Resolved
    <3> QED BY <1>1, <1>4, <3>1 DEF RInv, Merged
  <2> QED BY <1>5, <2>1, <2>2, <2>3
<1> QED BY <1>7, <1>8, <1>9 DEF RInv

\* The steps that write files of the rebase only.
LEMMA StateStepKeeps ==
    ASSUME RInv,
           \/ RemoveStopped \/ Stop \/ SaveRebaseState \/ SaveFails \/ Finish
           \/ ClearRebaseState \/ CommitFails
    PROVE  RInv'
<1>1. UNCHANGED <<vars, cut>>
  BY DEF RemoveStopped, Stop, SaveRebaseState, SaveFails, Advance, Finish,
         ClearRebaseState, CommitFails
<1>2. TypeOK' /\ Saved' = Saved /\ UNCHANGED <<mergeHead, index>>
  BY <1>1 DEF RInv, vars, TypeOK, Ids, Saved
<1>3. CASE Stop
  <2>1. mem \in Saved /\ state \in Saved /\ mem.step \in 1 .. Len(mem.todo)
    BY <1>3 DEF Stop, RInv, SequencerOK, Saved
  <2>2. /\ stopped' \in Ids /\ state' = state
        /\ at' = "idle" /\ mem' = None
    BY <1>3, <2>1 DEF Stop, Return, Saved
  <2>3. stopped' # None /\ state' # None
    BY <2>1, <2>2, TypeParts, IdsAreNaturals, SavedIsState DEF RInv
  <2>4. SequencerOK'
    BY <1>1, <1>2, <2>1, <2>2 DEF RInv, SequencerOK
  <2> QED BY <1>2, <2>2, <2>3, <2>4 DEF RInv, Merged
<1>4. CASE SaveRebaseState \/ SaveFails
  <2>1. at = "save" /\ at' = "replay" /\ mem' = [mem EXCEPT !.step = @ + 1]
    BY <1>4 DEF SaveRebaseState, SaveFails, Advance
  <2>2. state \in Saved /\ mem \in Saved /\ mem' \in Saved
    <3>1. state \in Saved /\ mem \in Saved
      BY <2>1 DEF RInv, SequencerOK
    <3> QED BY <2>1, <3>1 DEF Saved
  <2>3. state' \in Saved
    <3>1. state' = mem' \/ \E files : state' = Without(files)
      BY <1>4 DEF SaveRebaseState, SaveFails
    <3> QED BY <2>1, <2>2, <3>1, WithoutType
  <2>4. SequencerOK'
    BY <1>1, <1>2, <2>1, <2>2, <2>3 DEF RInv, SequencerOK
  <2>5. Merged'
    BY <1>1, <1>2, <2>1 DEF RInv, Merged
  <2> QED BY <1>2, <2>4, <2>5 DEF RInv
<1>5. CASE RemoveStopped \/ Finish \/ CommitFails \/ ClearRebaseState
  <2>1. /\ at \in {"resumed", "replay", "commit", "resume", "clear"}
        /\ \/ at' = "idle" /\ mem' = None
           \/ at' = "save" /\ at = "resumed" /\ mem' = mem
           \/ at' = "clear" /\ mem' = mem
        /\ state' = state \/ (state' = None /\ at' = "idle")
    <3>1. CASE RemoveStopped
      BY <3>1 DEF RemoveStopped
    <3>2. CASE Finish
      BY <3>2 DEF Finish
    <3>3. CASE CommitFails
      BY <3>3 DEF CommitFails, Return
    <3>4. CASE ClearRebaseState
      BY <3>4 DEF ClearRebaseState, Return
    <3> QED BY <1>5, <3>1, <3>2, <3>3, <3>4
  <2>2. SequencerOK'
    BY <1>1, <1>2, <2>1 DEF RInv, SequencerOK
  <2>3. Merged'
    BY <1>1, <1>2, <2>1 DEF RInv, Merged
  <2> QED BY <1>2, <2>2, <2>3 DEF RInv
<1> QED BY <1>3, <1>4, <1>5

\* The process dies: at a conflict, stopped-sha is there or the rebase is cut.
LEMMA CrashKeeps == ASSUME RInv, Crash PROVE RInv'
<1>1. UNCHANGED vars /\ at # "idle" /\ at' = "idle" /\ mem' = None /\ state \in Saved
  BY DEF Crash, Return, RInv, SequencerOK
<1>2. cut' = (cut \/ (at = "stop" /\ stopped' = None)) /\ cut' \in BOOLEAN
  BY DEF Crash, RInv, SequencerOK
<1>3. TypeOK' /\ Ids' = Ids /\ Saved' = Saved /\ UNCHANGED <<mergeHead, index>>
  BY <1>1 DEF RInv, vars, TypeOK, Ids, Saved
<1>4. state' \in Saved /\ state' # None
  <2>1. state' \in Saved
    BY <1>1, WithoutType DEF Crash
  <2> QED BY <2>1, SavedIsState DEF RInv
<1>5. SequencerOK'
  BY <1>1, <1>2, <1>3, <1>4 DEF SequencerOK
<1>6. Merged'
  BY <1>1, <1>2, <1>3, <1>4 DEF RInv, Merged
<1> QED BY <1>3, <1>5, <1>6 DEF RInv

\* Every step keeps the invariant.
LEMMA RebaseStep == ASSUME RInv, [RNext]_rvars PROVE RInv'
<1>1. CASE at = "idle" /\ Next /\ UNCHANGED sequencer
  BY <1>1, OtherCommand
<1>2. CASE RebaseCommand
  BY <1>2, RebaseCommandKeeps
<1>3. CASE Proceed
  BY <1>3, ResetOntoKeeps, CommitKeeps, PickKeeps, StateStepKeeps DEF Proceed
<1>4. CASE Crash
  BY <1>4, CrashKeeps
<1>5. CASE UNCHANGED rvars
  BY <1>5 DEF rvars, vars, sequencer, RInv, TypeOK, Ids, SequencerOK, Saved, Merged,
              Resolved
<1> QED BY <1>1, <1>2, <1>3, <1>4, <1>5 DEF RNext

\* The invariant of the types holds where no rebase is.
LEMMA RInitOK == Init /\ RInit => RInv
<1> SUFFICES ASSUME Init, RInit PROVE RInv
  OBVIOUS
<1>1. TypeOK BY InitType
<1>2. SequencerOK BY DEF RInit, SequencerOK
<1>3. Merged BY DEF Init, Merged, Resolved
<1> QED BY <1>1, <1>2, <1>3 DEF RInv

\* Unmerged entries belong to a merge or to a rebase, whatever the commands and
\* the crashes, but for a rebase that died before it wrote stopped-sha.
THEOREM UnmergedHasAnOwner == RSpec => []UnmergedBelongs
<1>1. Init /\ RInit => RInv
  BY RInitOK
<1>2. RInv /\ [RNext]_rvars => RInv'
  BY RebaseStep
<1>3. RInv => UnmergedBelongs
  <2> SUFFICES ASSUME RInv PROVE UnmergedBelongs
    OBVIOUS
  <2>1. state \in Saved => state # None
    BY SavedIsState DEF RInv
  <2> QED BY <2>1 DEF RInv, SequencerOK, Merged, UnmergedBelongs, Resolved, Tracked
<1> QED BY <1>1, <1>2, <1>3, PTL DEF RSpec
-------------------------------------------------------------------------------
(* What a rebase goes back to, and what it has done *)

\* A state names the commit HEAD was on, if it names one.
OrigInv ==
    /\ state # None => state.origHead \in {None, before}
    /\ mem # None => mem.origHead \in {None, before}

\* Every step keeps it: the states are loaded, saved and damaged, never made up.
LEMMA OrigStep == ASSUME RInv, OrigInv, [RNext]_rvars PROVE OrigInv'
<1>1. ASSUME UNCHANGED before, state' = state \/ state' = None,
             mem' = mem \/ mem' = None \/ (mem' = state /\ state # None)
      PROVE  OrigInv'
  BY <1>1 DEF OrigInv
<1>2. ASSUME state \in Saved, NEW files PROVE Without(files).origHead \in {None, before}
  <2>1. state # None BY <1>2, SavedIsState DEF RInv
  <2>2. Without(files).origHead \in {None, state.origHead} BY <1>2 DEF Without, Saved
  <2> QED BY <2>1, <2>2 DEF OrigInv
<1>3. ASSUME at = "idle", Next, UNCHANGED sequencer PROVE OrigInv'
  BY <1>3, <1>1 DEF sequencer
<1>4. ASSUME NEW b \in Branch, StartRebase(b) PROVE OrigInv'
  <2>1. PICK todo : state' = [headName |-> head, onto |-> refs[b], origHead |-> HeadId,
                              todo |-> todo, step |-> 1]
    BY <1>4 DEF StartRebase
  <2> QED BY <1>4, <2>1 DEF StartRebase, OrigInv
<1>5. CASE Continue \/ Abort BY <1>1, <1>5 DEF Continue, Abort
<1>6. CASE \/ ResetOnto \/ CommitStopped \/ RemoveStopped \/ Pick \/ Stop \/ CommitPick
           \/ Finish \/ ClearRebaseState \/ CommitFails
  BY <1>1, <1>6 DEF ResetOnto, CommitStopped, RemoveStopped, Pick, Stop, CommitPick, Finish,
         ClearRebaseState, CommitFails, Return
<1>7. CASE SaveRebaseState \/ SaveFails
  <2>1. /\ at = "save" /\ mem' = [mem EXCEPT !.step = @ + 1] /\ UNCHANGED before
        /\ state' = mem' \/ \E files : state' = Without(files)
    BY <1>7 DEF SaveRebaseState, SaveFails, Advance
  <2>2. state \in Saved /\ mem \in Saved /\ mem # None
    BY <2>1, SavedIsState DEF RInv, SequencerOK
  <2>3. mem'.origHead \in {None, before} BY <2>1, <2>2 DEF OrigInv, Saved
  <2> QED BY <1>2, <2>1, <2>2, <2>3 DEF OrigInv
<1>8. CASE Crash
  <2>1. /\ mem' = None /\ state \in Saved /\ UNCHANGED before
        /\ \E files : state' = Without(files)
    BY <1>8 DEF Crash, Return, RInv, SequencerOK
  <2> QED BY <1>2, <2>1 DEF OrigInv
<1>9. CASE UNCHANGED rvars BY <1>1, <1>9 DEF rvars, sequencer
<1> QED BY <1>3, <1>4, <1>5, <1>6, <1>7, <1>8, <1>9 DEF RNext, RebaseCommand, Proceed

\* An abort that ends with the branch back puts it where it was when the rebase
\* began, whatever was saved, lost and run in between.
THEOREM AbortAlwaysRestores == RSpec => AbortRestores
<1>1. Init /\ RInit => RInv /\ OrigInv
  BY RInitOK DEF RInit, OrigInv
<1>2. RInv /\ OrigInv /\ [RNext]_rvars => RInv' /\ OrigInv'
  BY RebaseStep, OrigStep
<1>3. RInv /\ OrigInv /\ [RNext]_rvars => [GoesBack]_rvars
  <2> SUFFICES ASSUME RInv, OrigInv, at' = "clear", Abort, head = state.headName
               PROVE  HeadId' = before
    BY DEF GoesBack
  <2>1. /\ state # None /\ state.origHead # None /\ Reset(state.origHead, "hard")
        /\ Readable(TreeOf(state.origHead))
    BY DEF Abort
  <2>2. state \in Saved BY <2>1 DEF RInv, SequencerOK
  <2>3. state.origHead = before /\ state.headName \in Branch
    BY <2>1, <2>2 DEF OrigInv, Saved
  <2>4. refs' = [refs EXCEPT ![head] = before] /\ head' = head
    BY <2>1, <2>3 DEF Reset, MoveHead
  <2>5. RefsOK BY TypeParts DEF RInv
  <2> QED BY <2>3, <2>4, <2>5 DEF HeadId, RefsOK
<1> QED BY <1>1, <1>2, <1>3, PTL DEF RSpec, AbortRestores

-------------------------------------------------------------------------------
(* What a rebase has done of its list *)

\* The first k entries of s are in t, in order.
Done(s, k, t) ==
    \E pos \in [1 .. k -> DOMAIN t] :
        /\ \A i \in 1 .. k : s[i] = t[pos[i]]
        /\ \A i, j \in 1 .. k : i < j => pos[i] < pos[j]

\* The first n entries of the list of r have been committed, if it has a list.
Progress(r, n) ==
    r.todo # <<>> => n \in 0 .. Len(r.todo) /\ Done(r.todo, n, replayed)

\* The entry that stopped is on the list, and those before it are done.
StoppedNext ==
    state.todo # <<>> =>
        \E k \in state.step .. Len(state.todo) :
            stopped = state.todo[k] /\ Done(state.todo, k - 1, replayed)

\* How far the state on disk has got: never further than the commits.
OnDisk ==
    /\ state = None => stopped = None
    /\ state # None => Progress(state, state.step - 1)
    /\ state # None /\ stopped \notin {None, Zero} => StoppedNext

\* How far the running rebase has got: it may be ahead of its files by a save.
InMemory ==
    at \notin {"idle", "clear"} =>
        /\ Progress(mem, IF at \in {"resumed", "save"} THEN mem.step ELSE mem.step - 1)
        /\ state.todo \in {mem.todo, <<>>} /\ state.step <= mem.step
        /\ IF at \in {"resume", "resumed"} THEN state = mem /\ stopped \notin {None, Zero}
                                           ELSE stopped = None
        /\ at = "commit" => mem.step <= Len(mem.todo)

\* The first n entries of the list of r are what has been committed.
Exactly(r, n) ==
    /\ n = Len(replayed) /\ n <= Len(r.todo)
    /\ \A i \in 1 .. n : replayed[i] = r.todo[i]

\* Without crashes and failed saves, memory and files agree.
NoFaults ==
    faults = 0 /\ state # None /\ at # "clear" =>
        /\ at # "idle" => mem = state
        /\ Exactly(state, IF at \in {"resumed", "save"} THEN state.step ELSE state.step - 1)
        /\ stopped # None => /\ state.step <= Len(state.todo)
                             /\ stopped = state.todo[state.step]

SkipInv ==
    /\ replayed \in Seq(Nat) /\ stopped \in Nat \cup {None, Zero} /\ faults \in Nat
    /\ OnDisk /\ InMemory /\ NoFaults

\* What is done stays done.
LEMMA DoneStays ==
    ASSUME NEW t \in Seq(Nat), NEW e \in Nat, NEW s, NEW k \in Nat, NEW j \in 0 .. k,
           Done(s, k, t)
    PROVE  Done(s, j, t) /\ Done(s, j, Append(t, e))
<1>1. PICK pos \in [1 .. k -> DOMAIN t] :
        /\ \A i \in 1 .. k : s[i] = t[pos[i]]
        /\ \A i, h \in 1 .. k : i < h => pos[i] < pos[h]
  BY DEF Done
<1>2. 1 .. j \subseteq 1 .. k OBVIOUS
<1> DEFINE at1 == [i \in 1 .. j |-> pos[i]]
<1>3. at1 \in [1 .. j -> DOMAIN t] BY <1>1, <1>2
<1>4. DOMAIN t \subseteq DOMAIN Append(t, e) /\ \A i \in DOMAIN t : Append(t, e)[i] = t[i]
  OBVIOUS
<1>5. at1 \in [1 .. j -> DOMAIN Append(t, e)] BY <1>3, <1>4
<1>6. \A i \in 1 .. j : at1[i] = pos[i] OBVIOUS
<1>7. \A i, h \in 1 .. j : i < h => at1[i] < at1[h] BY <1>1, <1>2, <1>6
<1>8. \A i \in 1 .. j : s[i] = t[at1[i]] BY <1>1, <1>2, <1>6
<1>9. \A i \in 1 .. j : s[i] = Append(t, e)[at1[i]] BY <1>3, <1>4, <1>8
<1> HIDE DEF at1
<1> QED BY <1>3, <1>5, <1>7, <1>8, <1>9 DEF Done

\* The next entry, once committed, is done too.
LEMMA DoneNext ==
    ASSUME NEW t \in Seq(Nat), NEW e \in Nat, NEW s, NEW k \in Nat \ {0},
           s[k] = e, Done(s, k - 1, t)
    PROVE  Done(s, k, Append(t, e))
<1>1. PICK pos \in [1 .. k - 1 -> DOMAIN t] :
        /\ \A i \in 1 .. k - 1 : s[i] = t[pos[i]]
        /\ \A i, h \in 1 .. k - 1 : i < h => pos[i] < pos[h]
  BY DEF Done
<1> DEFINE u == Append(t, e)
           last == Len(t) + 1
           to == [i \in 1 .. k |-> IF i = k THEN last ELSE pos[i]]
<1>2. /\ DOMAIN t = 1 .. Len(t) /\ DOMAIN u = 1 .. last /\ u[last] = e
      /\ \A i \in DOMAIN t : u[i] = t[i]
  OBVIOUS
<1>3. \A i \in 1 .. k : i # k => i \in 1 .. k - 1 OBVIOUS
<1>4. \A i \in 1 .. k - 1 : pos[i] \in 1 .. Len(t) BY <1>1, <1>2
<1>5. \A i \in 1 .. k : to[i] = IF i = k THEN last ELSE pos[i] OBVIOUS
<1> HIDE DEF u, last
<1>6. to \in [1 .. k -> DOMAIN u] BY <1>2, <1>3, <1>4 DEF last
<1> HIDE DEF to
<1>7. \A i \in 1 .. k : s[i] = u[to[i]] BY <1>1, <1>2, <1>3, <1>4, <1>5
<1>8. ASSUME NEW i \in 1 .. k, NEW h \in 1 .. k, i < h PROVE to[i] < to[h]
  <2>1. i \in 1 .. k - 1 /\ to[i] = pos[i] /\ pos[i] \in 1 .. Len(t)
    BY <1>4, <1>5, <1>8
  <2>2. CASE h = k BY <1>5, <2>1, <2>2 DEF last
  <2>3. CASE h # k BY <1>1, <1>3, <1>5, <1>8, <2>1, <2>3
  <2> QED BY <2>2, <2>3
<1> QED BY <1>6, <1>7, <1>8 DEF Done, u

\* A list that is done is a subsequence of what has been committed.
LEMMA DoneIsSubsequence ==
    ASSUME NEW s \in Seq(Nat), NEW t \in Seq(Nat), Done(s, Len(s), t)
    PROVE  IsSubsequence(s, t)
<1>1. DOMAIN s = 1 .. Len(s) OBVIOUS
<1> QED BY <1>1 DEF Done, IsSubsequence

\* Nothing has to be done of nothing.
LEMMA NothingToDo == ASSUME NEW s, NEW t PROVE Done(s, 0, t)
<1> DEFINE pos == [i \in 1 .. 0 |-> i]
<1>1. pos \in [1 .. 0 -> DOMAIN t] OBVIOUS
<1>2. /\ \A i \in 1 .. 0 : s[i] = t[pos[i]]
      /\ \A i, h \in 1 .. 0 : i < h => pos[i] < pos[h]
  OBVIOUS
<1> QED BY <1>1, <1>2 DEF Done

\* What a state is made of.
LEMMA SavedParts ==
    ASSUME TypeOK, NEW r \in Saved
    PROVE  /\ r # None /\ r.step \in Nat \ {0} /\ r.todo \in Seq(Nat)
           /\ \A k \in 1 .. Len(r.todo) : r.todo[k] \in Nat
<1>1. Seq(Ids) \subseteq Seq(Nat) BY TypeParts, IdsAreNaturals, SeqWidens
<1>2. r.todo \in Seq(Nat) /\ r.step \in Nat \ {0} BY <1>1 DEF Saved
<1> QED BY <1>2, SavedIsState

\* A damaged state has the list of the old one or none, and is not ahead of it.
LEMMA WithoutParts ==
    ASSUME TypeOK, state \in Saved, NEW files
    PROVE  /\ Without(files).todo \in {state.todo, <<>>}
           /\ Without(files).step \in {state.step, 1}
BY DEF Without, Saved

\* Progress on a list is progress on what is left of it.
LEMMA ProgressStays ==
    ASSUME TypeOK, NEW r \in Saved, NEW q \in Saved, replayed \in Seq(Nat),
           NEW n \in Nat, NEW m \in 0 .. n, Progress(r, n), q.todo \in {r.todo, <<>>}
    PROVE  Progress(q, m)
<1> SUFFICES ASSUME q.todo # <<>> PROVE m \in 0 .. Len(q.todo) /\ Done(q.todo, m, replayed)
  BY DEF Progress
<1>1. q.todo = r.todo /\ r.todo \in Seq(Nat) /\ Len(r.todo) \in Nat BY SavedParts
<1>2. n \in 0 .. Len(r.todo) /\ Done(r.todo, n, replayed) BY <1>1 DEF Progress
<1>3. Done(r.todo, m, replayed) BY <1>2, DoneStays, 0 \in Nat
<1> QED BY <1>1, <1>2, <1>3

\* The same for the entry that stopped.
LEMMA StoppedStays ==
    ASSUME TypeOK, state \in Saved, state' \in Saved, UNCHANGED <<stopped, replayed>>,
           state'.todo \in {state.todo, <<>>}, state'.step \in {state.step, 1},
           StoppedNext
    PROVE  StoppedNext'
<1> SUFFICES ASSUME state'.todo # <<>>
             PROVE  \E k \in state'.step .. Len(state'.todo) :
                       stopped = state'.todo[k] /\ Done(state'.todo, k - 1, replayed)
  BY DEF StoppedNext
<1>1. state'.todo = state.todo /\ state.step \in Nat \ {0} /\ Len(state.todo) \in Nat
  BY SavedParts
<1>2. PICK k \in state.step .. Len(state.todo) :
           stopped = state.todo[k] /\ Done(state.todo, k - 1, replayed)
  BY <1>1 DEF StoppedNext
<1>3. k \in state'.step .. Len(state'.todo) BY <1>1, <1>2
<1> QED BY <1>1, <1>2, <1>3

\* A commit of the next entry is progress; the files keep theirs.
LEMMA CommitProgress ==
    ASSUME TypeOK, NEW r \in Saved, replayed \in Seq(Nat), NEW entry \in Nat,
           replayed' = Append(replayed, entry)
    PROVE  /\ \A n \in Nat : Done(r.todo, n, replayed) => Done(r.todo, n, replayed')
           /\ \A k \in 1 .. Len(r.todo), m \in Nat :
                /\ r.todo[k] = entry /\ Done(r.todo, k - 1, replayed) /\ m <= k
                => m \in 0 .. Len(r.todo) /\ Done(r.todo, m, replayed')
<1>1. r.todo \in Seq(Nat) /\ Len(r.todo) \in Nat BY SavedParts
<1>2. ASSUME NEW n \in Nat, Done(r.todo, n, replayed) PROVE Done(r.todo, n, replayed')
  <2>1. n \in 0 .. n OBVIOUS
  <2> QED BY <1>2, <2>1, DoneStays
<1>3. ASSUME NEW k \in 1 .. Len(r.todo), NEW m \in Nat, r.todo[k] = entry,
             Done(r.todo, k - 1, replayed), m <= k
      PROVE  m \in 0 .. Len(r.todo) /\ Done(r.todo, m, replayed')
  <2>1. k \in Nat \ {0} /\ m \in 0 .. k /\ replayed' \in Seq(Nat) BY <1>1, <1>3
  <2>2. Done(r.todo, k, replayed') BY <1>3, <2>1, DoneNext
  <2>3. Done(r.todo, m, replayed') BY <2>1, <2>2, DoneStays, 0 \in Nat
  <2> QED BY <1>1, <1>3, <2>3
<1> QED BY <1>2, <1>3

\* The steps that move the running rebase on, and leave its files, its list and
\* what it has committed alone.
LEMMA SkipMoves ==
    ASSUME RInv, SkipInv, UNCHANGED <<state, stopped, replayed, faults>>,
           \/ UNCHANGED <<at, mem>>
           \/ at \in {"idle", "onto", "replay", "commit", "resume"} /\ at' = "idle"
           \/ at \in {"idle", "replay"} /\ at' = "clear"
           \/ at = "onto" /\ at' = "replay" /\ mem' = mem
           \/ /\ at = "replay" /\ at' \in {"commit", "stop"} /\ mem' = mem
              /\ mem.step <= Len(mem.todo)
           \/ at = "idle" /\ mem' = state /\ state # None /\ stopped = None /\ at' = "replay"
           \/ /\ at = "idle" /\ mem' = state /\ state # None /\ stopped \notin {None, Zero}
              /\ at' = "resume"
    PROVE  SkipInv'
<1>1. OnDisk' BY DEF SkipInv, OnDisk, Progress, StoppedNext
<1>2. InMemory'
  <2>1. ASSUME at' \in {"idle", "clear"} PROVE InMemory' BY <2>1 DEF InMemory
  <2>2. ASSUME UNCHANGED <<at, mem>> PROVE InMemory'
    BY <2>2 DEF SkipInv, InMemory, Progress
  <2>3. CASE /\ at \in {"onto", "replay"} /\ at' \in {"replay", "commit", "stop"} /\ mem' = mem
             /\ at' = "commit" => mem.step <= Len(mem.todo)
    BY <2>3 DEF SkipInv, InMemory, Progress
  <2>4. CASE at = "idle" /\ mem' = state /\ state # None /\ stopped = None /\ at' = "replay"
    <3>1. state.step <= state.step BY <2>4, SavedParts DEF RInv, SequencerOK
    <3> QED BY <2>4, <3>1 DEF SkipInv, OnDisk, InMemory, Progress
  <2>5. CASE /\ at = "idle" /\ mem' = state /\ state # None /\ stopped \notin {None, Zero}
             /\ at' = "resume"
    <3>1. state.step <= state.step BY <2>5, SavedParts DEF RInv, SequencerOK
    <3> QED BY <2>5, <3>1 DEF SkipInv, OnDisk, InMemory, Progress
  <2> QED BY <2>1, <2>2, <2>3, <2>4, <2>5
<1>3. NoFaults'
  <2> SUFFICES ASSUME faults = 0, state # None, at' # "clear"
               PROVE  /\ at' # "idle" => mem' = state
                      /\ Exactly(state, IF at' \in {"resumed", "save"} THEN state.step
                                        ELSE state.step - 1)
                      /\ stopped # None => /\ state.step <= Len(state.todo)
                                           /\ stopped = state.todo[state.step]
    BY DEF NoFaults, Exactly
  <2> QED BY DEF SkipInv, NoFaults
<1> QED BY <1>1, <1>2, <1>3 DEF SkipInv

\* A rebase begins with its whole list before it.
LEMMA SkipStart ==
    ASSUME RInv, RInv', SkipInv, NEW b \in Branch, StartRebase(b)
    PROVE  SkipInv'
<1>1. /\ state = None /\ stopped' = None /\ at' = "onto" /\ mem' = state' /\ replayed' = <<>>
      /\ faults' = faults /\ state'.step = 1
  BY DEF StartRebase, SkipInv, OnDisk
<1>2. Len(state'.todo) \in Nat
  <2>1. state' \in Saved' BY <1>1 DEF RInv, SequencerOK
  <2>2. state'.todo \in Seq(Ids') BY <2>1 DEF Saved
  <2> QED BY <2>2
<1>3. Done(state'.todo, 0, replayed') BY NothingToDo
<1>4. (state'.todo # <<>> => 0 \in 0 .. Len(state'.todo) /\ Done(state'.todo, 0, replayed'))
      /\ state'.step - 1 = 0
  BY <1>1, <1>2, <1>3
<1>5. OnDisk' BY <1>1, <1>4 DEF OnDisk, Progress
<1>6. InMemory' BY <1>1, <1>4 DEF InMemory, Progress
<1>7. NoFaults' BY <1>1, <1>2, <1>4 DEF NoFaults, Exactly
<1>8. replayed' \in Seq(Nat) /\ stopped' \in Nat \cup {None, Zero} /\ faults' \in Nat
  BY <1>1 DEF SkipInv
<1> QED BY <1>5, <1>6, <1>7, <1>8 DEF SkipInv

\* A commit of the entry that stopped, or of the one just picked.
LEMMA SkipCommit ==
    ASSUME RInv, RInv', SkipInv, CommitStopped \/ CommitPick
    PROVE  SkipInv'
<1> DEFINE entry == IF at = "resume" THEN stopped ELSE mem.todo[mem.step]
<1>1. /\ at \in {"resume", "commit"} /\ replayed' = Append(replayed, entry)
      /\ UNCHANGED <<state, stopped, mem, faults>>
      /\ at' = IF at = "resume" THEN "resumed" ELSE "save"
  BY DEF CommitStopped, CommitPick, CommitStep
<1>2. state \in Saved /\ mem \in Saved /\ TypeOK BY <1>1 DEF RInv, SequencerOK
<1>3. /\ state # None /\ mem.step \in Nat \ {0} /\ mem.todo \in Seq(Nat)
      /\ state.step \in Nat \ {0} /\ state.todo \in Seq(Nat) /\ replayed \in Seq(Nat)
      /\ state.todo \in {mem.todo, <<>>} /\ state.step <= mem.step
  BY <1>1, <1>2, SavedParts DEF SkipInv, InMemory
<1>4. at = "commit" => mem.step \in 1 .. Len(mem.todo) /\ stopped = None
  BY <1>1, <1>3 DEF SkipInv, InMemory
<1>5. at = "resume" => state = mem /\ stopped \notin {None, Zero}
  BY <1>1 DEF SkipInv, InMemory
<1>6. at = "resume" /\ mem.todo # <<>> =>
         \E k \in mem.step .. Len(mem.todo) :
            entry = mem.todo[k] /\ Done(mem.todo, k - 1, replayed)
  BY <1>3, <1>5 DEF SkipInv, OnDisk, StoppedNext
<1>7. mem.todo # <<>> =>
         \E k \in mem.step .. Len(mem.todo) :
            entry = mem.todo[k] /\ Done(mem.todo, k - 1, replayed)
  <2>1. CASE at = "commit"
    <3>1. /\ entry = mem.todo[mem.step]
          /\ mem.todo # <<>> => Done(mem.todo, mem.step - 1, replayed)
      BY <2>1 DEF SkipInv, InMemory, Progress
    <3>2. mem.step \in mem.step .. Len(mem.todo) BY <1>3, <1>4, <2>1
    <3> QED BY <3>1, <3>2
  <2> QED BY <1>1, <1>6, <2>1
<1> HIDE DEF entry
<1>8. entry \in Nat /\ replayed' \in Seq(Nat)
  <2>1. entry \in Nat BY <1>1, <1>2, <1>4, <1>5, SavedParts DEF SkipInv, entry
  <2> QED BY <1>1, <1>3, <2>1
<1>9. OnDisk'
  <2>1. Progress(state, state.step - 1)'
    <3>1. state.step - 1 \in Nat BY <1>3
    <3> QED
      BY <1>1, <1>2, <1>3, <1>8, <3>1, CommitProgress DEF SkipInv, OnDisk, Progress
  <2>2. ASSUME stopped \notin {None, Zero} PROVE StoppedNext'
    <3> SUFFICES ASSUME state.todo # <<>>
                 PROVE  \E k \in state.step .. Len(state.todo) :
                           stopped = state.todo[k] /\ Done(state.todo, k - 1, replayed')
      BY <1>1 DEF StoppedNext
    <3>1. PICK k \in state.step .. Len(state.todo) :
               stopped = state.todo[k] /\ Done(state.todo, k - 1, replayed)
      BY <1>3, <2>2 DEF SkipInv, OnDisk, StoppedNext
    <3>2. k - 1 \in Nat /\ k - 1 \in 0 .. Len(state.todo) BY <1>3, <3>1
    <3>3. Done(state.todo, k - 1, replayed')
      BY <1>1, <1>2, <1>3, <1>8, <3>1, <3>2, CommitProgress
    <3> QED BY <3>1, <3>3
  <2> QED BY <1>1, <1>3, <2>1, <2>2 DEF OnDisk
<1>10. InMemory'
  <2>1. mem.todo # <<>> =>
           mem.step \in 0 .. Len(mem.todo) /\ Done(mem.todo, mem.step, replayed')
    <3> SUFFICES ASSUME mem.todo # <<>>
                 PROVE  mem.step \in 0 .. Len(mem.todo) /\ Done(mem.todo, mem.step, replayed')
      OBVIOUS
    <3>1. PICK k \in mem.step .. Len(mem.todo) :
               entry = mem.todo[k] /\ Done(mem.todo, k - 1, replayed)
      BY <1>7
    <3>2. k \in 1 .. Len(mem.todo) /\ mem.step <= k /\ mem.step \in Nat BY <1>3, <3>1
    <3> QED BY <1>1, <1>2, <1>3, <1>8, <3>1, <3>2, CommitProgress
  <2> QED BY <1>1, <1>3, <1>4, <1>5, <2>1 DEF InMemory, Progress
<1>11. NoFaults'
  <2> SUFFICES ASSUME faults = 0
               PROVE  /\ mem = state /\ Exactly(state, state.step)'
                      /\ stopped # None => /\ state.step <= Len(state.todo)
                                           /\ stopped = state.todo[state.step]
    BY <1>1 DEF NoFaults
  <2>1. /\ mem = state /\ Exactly(state, state.step - 1)
        /\ stopped # None => /\ state.step <= Len(state.todo)
                             /\ stopped = state.todo[state.step]
    BY <1>1, <1>3 DEF SkipInv, NoFaults
  <2>2. state.step <= Len(state.todo) /\ entry = state.todo[state.step]
    BY <1>1, <1>4, <1>5, <2>1 DEF entry
  <2>3. Len(replayed') = Len(replayed) + 1 /\ replayed'[Len(replayed) + 1] = entry
        /\ \A i \in 1 .. Len(replayed) : replayed'[i] = replayed[i]
    BY <1>1, <1>3, <1>8
  <2>4. /\ Len(replayed) = state.step - 1
        /\ \A i \in 1 .. state.step - 1 : replayed[i] = state.todo[i]
    BY <2>1 DEF Exactly
  <2>5. \A i \in 1 .. state.step : i = state.step \/ i \in 1 .. state.step - 1 BY <1>3
  <2>6. \A i \in 1 .. state.step : replayed'[i] = state.todo[i]
    <3>1. Len(replayed) + 1 = state.step BY <1>3, <2>4
    <3>2. replayed'[state.step] = state.todo[state.step] BY <2>2, <2>3, <3>1
    <3>3. \A i \in 1 .. state.step - 1 : replayed'[i] = state.todo[i] BY <2>3, <2>4
    <3> QED BY <2>5, <3>2, <3>3
  <2>7. state.step = Len(replayed') BY <1>3, <2>3, <2>4
  <2> QED BY <1>1, <2>1, <2>2, <2>6, <2>7 DEF Exactly
<1> QED BY <1>1, <1>8, <1>9, <1>10, <1>11 DEF SkipInv

\* Removing stopped-sha: its entry is committed already.
LEMMA SkipRemove == ASSUME RInv, SkipInv, RemoveStopped PROVE SkipInv'
<1>1. /\ at = "resumed" /\ at' = "save" /\ stopped' = None
      /\ UNCHANGED <<state, mem, faults, replayed>>
  BY DEF RemoveStopped
<1>2. OnDisk' BY <1>1 DEF SkipInv, OnDisk, Progress
<1>3. InMemory' BY <1>1 DEF SkipInv, InMemory, Progress
<1>4. NoFaults' BY <1>1 DEF SkipInv, NoFaults, Exactly
<1> QED BY <1>1, <1>2, <1>3, <1>4 DEF SkipInv

\* Writing stopped-sha: its entry is the first that is not committed.
LEMMA SkipStop == ASSUME RInv, SkipInv, Stop PROVE SkipInv'
<1>1. /\ at = "stop" /\ at' = "idle" /\ mem' = None /\ stopped' = mem.todo[mem.step]
      /\ UNCHANGED <<state, faults, replayed>>
  BY DEF Stop, Return
<1>2. state \in Saved /\ mem \in Saved /\ TypeOK /\ mem.step <= Len(mem.todo)
  BY <1>1 DEF RInv, SequencerOK
<1>3. /\ mem.step \in 1 .. Len(mem.todo) /\ stopped' \in Nat /\ state # None
      /\ mem.todo # <<>>
  BY <1>1, <1>2, SavedParts
<1>4. /\ state.todo \in {mem.todo, <<>>} /\ mem.step \in state.step .. Len(mem.todo)
      /\ Done(mem.todo, mem.step - 1, replayed)
  <2>1. /\ state.todo \in {mem.todo, <<>>} /\ state.step <= mem.step
        /\ Done(mem.todo, mem.step - 1, replayed)
    BY <1>1, <1>3 DEF SkipInv, InMemory, Progress
  <2>2. state.step \in Nat BY <1>2, SavedParts
  <2> QED BY <1>3, <2>1, <2>2
<1>5. StoppedNext' BY <1>1, <1>4 DEF StoppedNext
<1>6. OnDisk' BY <1>1, <1>3, <1>5 DEF SkipInv, OnDisk, Progress
<1>7. InMemory' BY <1>1 DEF InMemory
<1>8. NoFaults'
  <2>1. faults = 0 => mem = state /\ Exactly(state, state.step - 1)
    BY <1>1, <1>3 DEF SkipInv, NoFaults
  <2> QED BY <1>1, <1>2, <2>1 DEF NoFaults, Exactly
<1> QED BY <1>1, <1>3, <1>6, <1>7, <1>8 DEF SkipInv

\* Saving the next step, with or without an error.
LEMMA SkipSave ==
    ASSUME RInv, RInv', SkipInv, SaveRebaseState \/ SaveFails
    PROVE  SkipInv'
<1>1. /\ at = "save" /\ at' = "replay" /\ mem' = [mem EXCEPT !.step = @ + 1]
      /\ UNCHANGED <<vars, stopped, replayed>>
      /\ \/ state' = mem' /\ UNCHANGED faults
         \/ faults' = faults + 1 /\ \E files : state' = Without(files)
  BY DEF SaveRebaseState, SaveFails, Advance
<1>2. state \in Saved /\ mem \in Saved /\ TypeOK /\ Saved' = Saved
  BY <1>1 DEF RInv, SequencerOK, vars, Saved, Ids
<1>3. state' \in Saved /\ mem' \in Saved BY <1>1, <1>2 DEF RInv, SequencerOK
<1>4. mem'.todo = mem.todo /\ mem'.step = mem.step + 1 BY <1>1, <1>2 DEF Saved
<1>5. /\ mem.step \in Nat \ {0} /\ state.step \in Nat \ {0}
      /\ state # None /\ state' # None /\ mem'.step - 1 = mem.step
  BY <1>2, <1>3, <1>4, SavedParts
<1>6. /\ stopped = None /\ state.todo \in {mem.todo, <<>>} /\ state.step <= mem.step
      /\ Progress(mem, mem.step) /\ Progress(state, state.step - 1)
  BY <1>1, <1>5 DEF SkipInv, InMemory, OnDisk
<1>7. Progress(mem, mem.step - 1)' BY <1>1, <1>4, <1>5, <1>6 DEF Progress
<1>8. CASE state' = mem'
  <2>1. OnDisk' BY <1>1, <1>5, <1>6, <1>7, <1>8 DEF OnDisk
  <2>2. state'.step <= mem'.step BY <1>4, <1>5, <1>8
  <2>3. InMemory' BY <1>1, <1>6, <1>7, <1>8, <2>2 DEF InMemory
  <2>4. NoFaults'
    <3>1. CASE UNCHANGED faults
      <4>1. faults = 0 => mem = state /\ Exactly(mem, mem.step)
        BY <1>1, <1>5 DEF SkipInv, NoFaults
      <4>2. Exactly(mem, mem.step) => Exactly(mem, mem.step - 1)'
        BY <1>1, <1>4, <1>5 DEF Exactly
      <4> QED BY <1>1, <1>6, <1>8, <3>1, <4>1, <4>2 DEF NoFaults
    <3>2. CASE faults' = faults + 1 BY <3>2 DEF SkipInv, NoFaults
    <3> QED BY <1>1, <3>1, <3>2
  <2> QED BY <1>1, <2>1, <2>3, <2>4 DEF SkipInv
<1>9. CASE faults' = faults + 1 /\ \E files : state' = Without(files)
  <2>1. state'.todo \in {state.todo, <<>>} /\ state'.step \in {state.step, 1}
    BY <1>2, <1>9, WithoutParts
  <2>2. /\ state'.step - 1 \in 0 .. state.step - 1 /\ state.step - 1 \in Nat
        /\ state'.step <= mem'.step
    BY <1>4, <1>5, <1>6, <2>1
  <2>3. Progress(state', state'.step - 1)
    BY <1>2, <1>3, <1>6, <2>1, <2>2, ProgressStays DEF SkipInv
  <2>4. OnDisk' BY <1>1, <1>5, <1>6, <2>3 DEF OnDisk, Progress
  <2>5. InMemory' BY <1>1, <1>4, <1>6, <1>7, <2>1, <2>2 DEF InMemory
  <2>6. NoFaults' /\ faults' \in Nat BY <1>9 DEF SkipInv, NoFaults
  <2> QED BY <1>1, <2>4, <2>5, <2>6 DEF SkipInv
<1> QED BY <1>1, <1>8, <1>9

\* The end of a rebase leaves no state to be ahead of.
LEMMA SkipClear == ASSUME RInv, SkipInv, ClearRebaseState PROVE SkipInv'
BY DEF ClearRebaseState, Return, SkipInv, OnDisk, InMemory, NoFaults

\* The process dies: what is on disk may be less than before, never more.
LEMMA SkipCrash == ASSUME RInv, RInv', SkipInv, Crash PROVE SkipInv'
<1>1. /\ at # "idle" /\ at' = "idle" /\ mem' = None /\ faults' = faults + 1
      /\ UNCHANGED <<vars, replayed>> /\ stopped' \in {stopped, None, Zero}
      /\ \E files : state' = Without(files)
  BY DEF Crash, Return
<1>2. state \in Saved /\ TypeOK /\ Saved' = Saved
  BY <1>1 DEF RInv, SequencerOK, vars, Saved, Ids
<1>3. state'.todo \in {state.todo, <<>>} /\ state'.step \in {state.step, 1} /\ state' \in Saved
  BY <1>1, <1>2, WithoutParts, WithoutType
<1>4. state # None /\ state' # None /\ state.step \in Nat \ {0}
  BY <1>2, <1>3, SavedParts
<1>5. state.step - 1 \in Nat /\ state'.step - 1 \in 0 .. state.step - 1 BY <1>3, <1>4
<1>6. Progress(state, state.step - 1) /\ (stopped \notin {None, Zero} => StoppedNext)
  BY <1>4 DEF SkipInv, OnDisk
<1>7. Progress(state', state'.step - 1)
  BY <1>2, <1>3, <1>5, <1>6, ProgressStays DEF SkipInv
<1>8. stopped' \notin {None, Zero} => StoppedNext'
  BY <1>1, <1>2, <1>3, <1>6, StoppedStays
<1>9. OnDisk' BY <1>1, <1>4, <1>7, <1>8 DEF OnDisk, Progress
<1>10. InMemory' /\ NoFaults' /\ faults' \in Nat BY <1>1 DEF SkipInv, InMemory, NoFaults
<1> QED BY <1>1, <1>9, <1>10 DEF SkipInv

\* Every step keeps what has been done.
LEMMA SkipStep == ASSUME RInv, SkipInv, [RNext]_rvars PROVE SkipInv'
<1>1. RInv' BY RebaseStep
<1>2. ASSUME UNCHANGED sequencer PROVE SkipInv' BY <1>2, SkipMoves DEF sequencer
<1>3. CASE RebaseCommand
  <2>1. CASE Continue
    <3>1. /\ UNCHANGED <<state, stopped, replayed, faults>> /\ at = "idle" /\ mem' = state
          /\ state # None
          /\ \/ stopped = None /\ at' = "replay"
             \/ stopped \notin {None, Zero} /\ at' = "resume"
      BY <2>1 DEF Continue
    <3> QED BY <3>1, SkipMoves
  <2>2. CASE Abort BY <2>2, SkipMoves DEF Abort
  <2> QED BY <1>1, <1>3, <2>1, <2>2, SkipStart DEF RebaseCommand
<1>4. CASE ResetOnto \/ Pick \/ Finish \/ CommitFails
  BY <1>4, SkipMoves DEF ResetOnto, Pick, Finish, CommitFails, Return
<1>5. CASE Proceed
  BY <1>1, <1>4, <1>5, SkipCommit, SkipRemove, SkipStop, SkipSave, SkipClear DEF Proceed
<1>6. CASE Crash BY <1>1, <1>6, SkipCrash
<1> QED BY <1>2, <1>3, <1>5, <1>6 DEF RNext, rvars

\* At the end of a list every entry of it has been committed, in order, whatever
\* conflicts, crashes and failed saves came in between, and exactly once without
\* crashes and failed saves.
THEOREM NothingEverSkipped == RSpec => NothingSkipped
<1>1. Init /\ RInit => RInv /\ SkipInv
  BY RInitOK DEF RInit, SkipInv, OnDisk, InMemory, NoFaults
<1>2. RInv /\ SkipInv /\ [RNext]_rvars => RInv' /\ SkipInv'
  BY RebaseStep, SkipStep
<1>3. RInv /\ SkipInv /\ [RNext]_rvars => [SkipsNothing]_rvars
  <2> SUFFICES ASSUME RInv, SkipInv, Finish
               PROVE  /\ mem.todo # <<>> => IsSubsequence(mem.todo, replayed)
                      /\ faults = 0 => replayed = mem.todo
    BY DEF SkipsNothing
  <2>1. at = "replay" /\ mem.step > Len(mem.todo) /\ mem \in Saved /\ state \in Saved
    BY DEF Finish, RInv, SequencerOK
  <2>2. /\ mem.todo \in Seq(Nat) /\ replayed \in Seq(Nat) /\ mem.step \in Nat /\ state # None
        /\ Len(mem.todo) \in Nat
    BY <2>1, SavedParts DEF RInv, SkipInv
  <2>3. ASSUME mem.todo # <<>> PROVE IsSubsequence(mem.todo, replayed)
    <3>1. mem.step - 1 \in 0 .. Len(mem.todo) /\ Done(mem.todo, mem.step - 1, replayed)
      BY <2>1, <2>3 DEF SkipInv, InMemory, Progress
    <3>2. mem.step - 1 = Len(mem.todo) BY <2>1, <2>2, <3>1
    <3> QED BY <2>2, <3>1, <3>2, DoneIsSubsequence
  <2>4. ASSUME faults = 0 PROVE replayed = mem.todo
    <3>1. mem = state /\ Exactly(mem, mem.step - 1)
      BY <2>1, <2>2, <2>4 DEF SkipInv, NoFaults
    <3>2. /\ Len(replayed) = Len(mem.todo)
          /\ \A i \in 1 .. Len(replayed) : replayed[i] = mem.todo[i]
      BY <2>1, <2>2, <3>1 DEF Exactly
    <3>3. replayed \in [1 .. Len(replayed) -> Nat] /\ mem.todo \in [1 .. Len(mem.todo) -> Nat]
      BY <2>2
    <3> QED BY <3>2, <3>3
  <2> QED BY <2>3, <2>4
<1> QED BY <1>1, <1>2, <1>3, PTL DEF RSpec, NothingSkipped
===============================================================================
