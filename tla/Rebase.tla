---------------------------------- MODULE Rebase -------------------------------
(***************************************************************************)
(* The rebase sequencer (core/rebase.go, rebase_state.go, revwalk.go) on a *)
(* repository: `rebase` writes its state under rebase-merge/, resets the   *)
(* branch to its new base and replays one commit after the other, each by  *)
(* a tree merge and a commit.  It stops at a conflict; `rebase --continue` *)
(* and `rebase --abort` start from the files.  The process may die between *)
(* any two of its writes or in a save, and a save may fail.  Between its   *)
(* processes the other commands of Repo run.                               *)
(***************************************************************************)
EXTENDS Repo

CONSTANT MaxFaults  \* bound: crashes and failed saves in a behaviour

ASSUME FaultAssumption == MaxFaults \in Nat

\* RebaseState (rebase_state.go); step is CurrentStep counted from 1, as msgnum is.
RebaseState ==
    [headName : Branch, onto : Nat, origHead : Nat \cup {None}, todo : Seq(Nat), step : Nat]

ASSUME StateAssumption == None \notin RebaseState

VARIABLES
    state,    \* rebase-merge/ on disk (RebaseState), or None
    stopped,  \* rebase-merge/stopped-sha, None without it, Zero when empty
    at,       \* what the running rebase does next, "idle" when none runs
    mem,      \* its RebaseState in memory, or None
    faults,   \* the crashes and failed saves so far
    replayed, \* history: the entries committed since the rebase began
    before,   \* history: the commit HEAD was on when it began
    cut       \* history: whether one died at a conflict without a stopped-sha

sequencer == <<state, stopped, at, mem, faults, replayed, before, cut>>

rvars == <<vars, sequencer>>

RInit ==
    /\ state = None /\ stopped = None /\ at = "idle" /\ mem = None
    /\ faults = 0 /\ replayed = <<>> /\ before = None /\ cut = FALSE

\* collectCommitsForRebase: depth first from id to base, parents before children.
Walk(id, base) ==
    LET dfs[i \in Ids, result \in Seq(Ids)] ==
            IF i = base \/ Contains(result, i) THEN result
            ELSE Append(FoldLeft(LAMBDA r, p : dfs[p, r], result,
                                 commits[i].parents), i)
    IN dfs[id, <<>>]

CommitsForRebase(id, base) == {i \in Ids : Contains(Walk(id, base), i)}

\* Rebase, up to the first save.  The entries are listed parents first, and with
\* -i the user drops and reorders them.
StartRebase(b) ==
    /\ at = "idle" /\ state = None
    /\ ~Dirty /\ head \in Branch /\ HeadId # None /\ refs[b] # None
    /\ \E base \in MergeBases(HeadId, refs[b]) :
       \E todo \in SetToAllKPermutations(CommitsForRebase(HeadId, base)) :
         /\ todo # <<>>
         /\ state' = [headName |-> head, onto |-> refs[b], origHead |-> HeadId,
                      todo |-> todo, step |-> 1]
    /\ at' = "onto" /\ mem' = state'
    /\ replayed' = <<>> /\ before' = HeadId
    /\ UNCHANGED <<vars, stopped, faults, cut>>

\* The process ends, and its memory with it.
Return == at' = "idle" /\ mem' = None

\* The hard reset to the new base.
ResetOnto ==
    /\ at = "onto"
    /\ Reset(mem.onto, "hard")
    /\ IF Readable(TreeOf(mem.onto)) THEN at' = "replay" /\ UNCHANGED mem ELSE Return
    /\ UNCHANGED <<state, stopped, faults, replayed, before, cut>>

\* Plausible defect: the stages are not looked at.
ContinueUnchecked ==
    /\ at = "idle" /\ state # None /\ stopped # Zero
    /\ at' = IF stopped = None THEN "replay" ELSE "resume"
    /\ mem' = state
    /\ UNCHANGED <<vars, state, stopped, faults, replayed, before, cut>>

\* RebaseContinue: a stopped entry is committed first, once it is resolved.  An
\* empty stopped-sha ends in a panic.
Continue ==
    /\ at = "idle" /\ state # None /\ stopped # Zero
    /\ stopped # None => \A p \in Tracked : index[p].stage = 0
    /\ at' = IF stopped = None THEN "replay" ELSE "resume"
    /\ mem' = state
    /\ UNCHANGED <<vars, state, stopped, faults, replayed, before, cut>>

\* commitRebaseStep: the index, on HEAD.
CommitStep(entry) ==
    /\ \E id \in 1 .. MaxCommits :
         /\ CommitTree([tree    |-> WriteTree(index),
                        parents |-> IF HeadId = None THEN <<>> ELSE <<HeadId>>], id)
         /\ MoveHead(id)
    /\ replayed' = Append(replayed, entry)
    /\ UNCHANGED <<index, work, mergeHead, stash>>

CommitStopped ==
    /\ at = "resume"
    /\ CommitStep(stopped)
    /\ at' = "resumed"
    /\ UNCHANGED <<state, stopped, mem, faults, before, cut>>

RemoveStopped ==
    /\ at = "resumed"
    /\ stopped' = None
    /\ at' = "save"
    /\ UNCHANGED <<vars, state, mem, faults, replayed, before, cut>>

\* One turn of the loop: the entry's change, from its first parent, on HEAD.
Pick ==
    /\ at = "replay" /\ mem.step <= Len(mem.todo)
    /\ LET c == commits[mem.todo[mem.step]]
           b == IF c.parents = <<>> THEN EmptyTree ELSE TreeOf(c.parents[1])
       IN IF HeadId = None
          THEN Return /\ UNCHANGED <<index, work>>
          ELSE /\ ApplyMergePlan(b, HeadTree, c.tree)
               /\ IF ~Readable(Picked(b, HeadTree, c.tree)) THEN Return
                  ELSE /\ at' = IF Conflicts(b, HeadTree, c.tree) = {} THEN "commit"
                                ELSE "stop"
                       /\ UNCHANGED mem
    /\ UNCHANGED <<commits, refs, head, mergeHead, stash>>
    /\ UNCHANGED <<state, stopped, faults, replayed, before, cut>>

\* Plausible defect: the entry that stopped counts as done.
StopAdvances ==
    /\ at = "stop"
    /\ stopped' = mem.todo[mem.step]
    /\ state' = [state EXCEPT !.step = mem.step + 1]
    /\ Return
    /\ UNCHANGED <<vars, faults, replayed, before, cut>>

\* A conflict: stopped-sha is written and the process ends.
Stop ==
    /\ at = "stop"
    /\ stopped' = mem.todo[mem.step]
    /\ Return
    /\ UNCHANGED <<vars, state, faults, replayed, before, cut>>

CommitPick ==
    /\ at = "commit"
    /\ CommitStep(mem.todo[mem.step])
    /\ at' = "save"
    /\ UNCHANGED <<state, stopped, mem, faults, before, cut>>

Advance ==
    /\ at = "save"
    /\ mem' = [mem EXCEPT !.step = @ + 1]
    /\ at' = "replay"
    /\ UNCHANGED <<vars, stopped, replayed, before, cut>>

\* Plausible defect: orig-head is read again instead of kept.
SaveRebaseStateOfHead ==
    Advance /\ state' = [mem' EXCEPT !.origHead = HeadId] /\ UNCHANGED faults

SaveRebaseState == Advance /\ state' = mem' /\ UNCHANGED faults

\* What LoadRebaseState makes of a directory in which some files are empty or
\* gone: no orig-head, nothing to do, the first entry.
Without(files) ==
    [state EXCEPT !.origHead = IF "orig-head" \in files THEN None ELSE @,
                  !.todo     = IF "git-rebase-todo" \in files THEN <<>> ELSE @,
                  !.step     = IF "msgnum" \in files THEN 1 ELSE @]

\* A save truncates one file after the other and may end at each; the first
\* save may not have got to a file, and ClearRebaseState removes them in no order.
Damage ==
    CASE at = "save"  -> {{}, {"orig-head"}, {"git-rebase-todo"}, {"msgnum"}}
      [] at = "onto"  -> {{}, {"git-rebase-todo"}, {"orig-head", "git-rebase-todo"}}
      [] at = "clear" -> SUBSET {"orig-head", "git-rebase-todo", "msgnum"}
      [] OTHER        -> {{}}

\* The error of a save is ignored; the loop goes on.
SaveFails ==
    /\ Advance /\ faults < MaxFaults
    /\ \E files \in Damage : state' = Without(files)
    /\ faults' = faults + 1

\* The end of the list: success is reported.
Finish ==
    /\ at = "replay" /\ mem.step > Len(mem.todo)
    /\ at' = "clear"
    /\ UNCHANGED <<vars, state, stopped, mem, faults, replayed, before, cut>>

\* RebaseAbort: a hard reset to orig-head; an empty orig-head ends in a panic.
Abort ==
    /\ at = "idle" /\ state # None /\ state.origHead # None
    /\ Reset(state.origHead, "hard")
    /\ at' = IF Readable(TreeOf(state.origHead)) THEN "clear" ELSE "idle"
    /\ UNCHANGED <<state, stopped, mem, faults, replayed, before, cut>>

ClearRebaseState ==
    /\ at = "clear"
    /\ state' = None /\ stopped' = None /\ Return
    /\ UNCHANGED <<vars, faults, replayed, before, cut>>

\* The object store takes no more: the command returns the error.
CommitFails ==
    /\ at \in {"commit", "resume"} /\ Len(commits) = MaxCommits
    /\ Return
    /\ UNCHANGED <<vars, state, stopped, faults, replayed, before, cut>>

\* The process dies, between two writes or in one.
Crash ==
    /\ at # "idle" /\ faults < MaxFaults
    /\ Return
    /\ \E files \in Damage : state' = Without(files)
    /\ stopped' \in {stopped} \cup (IF at = "stop" THEN {Zero}
                                    ELSE IF at = "clear" THEN {None} ELSE {})
    /\ faults' = faults + 1
    /\ cut' = (cut \/ (at = "stop" /\ stopped' = None))
    /\ UNCHANGED <<vars, replayed, before>>

Proceed ==
    \/ ResetOnto \/ CommitStopped \/ RemoveStopped \/ Pick \/ Stop \/ CommitPick
    \/ SaveRebaseState \/ SaveFails \/ Finish \/ ClearRebaseState \/ CommitFails

RebaseCommand == Continue \/ Abort \/ \E b \in Branch : StartRebase(b)

RNext ==
    \/ at = "idle" /\ Next /\ UNCHANGED sequencer
    \/ RebaseCommand \/ Proceed \/ Crash

RSpec == Init /\ RInit /\ [][RNext]_rvars
-------------------------------------------------------------------------------
\* t is s with repetitions and other entries in between.
IsSubsequence(s, t) ==
    \E pos \in [DOMAIN s -> DOMAIN t] :
        /\ \A i \in DOMAIN s : s[i] = t[pos[i]]
        /\ \A i, j \in DOMAIN s : i < j => pos[i] < pos[j]

\* What is committed when the end of the list is reached.
SkipsNothing ==
    Finish => /\ mem.todo # <<>> => IsSubsequence(mem.todo, replayed)
              /\ faults = 0 => replayed = mem.todo

\* Where an abort leaves the branch it began on.
GoesBack == at' = "clear" /\ Abort /\ head = state.headName => HeadId' = before

\* When the sequencer says it is done with a list, every entry of the list has
\* been committed, in order, whatever conflicts, crashes and failed saves came
\* in between; and without crashes and failed saves, exactly once.  (An empty list
\* is what is left when a save of git-rebase-todo was cut short.)
NothingSkipped == [][SkipsNothing]_rvars

\* Amend, stash and the next merge or rebase take the index for merged once
\* there is neither MERGE_HEAD nor rebase-merge/: an unmerged entry only exists
\* while there is one of the two.  The exception is a rebase that died between
\* the conflict in the index and stopped-sha (rebase.go:133-139): --continue then
\* does not look at the stages.
UnmergedBelongs ==
    cut \/ \A p \in Tracked : index[p].stage # 0 => mergeHead # None \/ state # None

\* README.md:429: --abort restores HEAD to its pre-rebase state, from any point
\* and after any number of saves, as long as HEAD is on the branch again on
\* which the rebase began.
AbortRestores == [][GoesBack]_rvars
-------------------------------------------------------------------------------
\* README.md:401: the commits are replayed onto the tip of the target branch:
\* what the sequencer commits descends from it.
ReplaysOnto == [][ CommitPick => mem.onto \in Ancestors(HeadId) ]_rvars
===============================================================================
