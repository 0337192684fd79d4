-------------------------------- MODULE MCRebase -------------------------------
(***************************************************************************)
(* A branch with two commits of its own and one it does not have, each     *)
(* changing something, for TLC: the state `commit`, `branch`, `checkout`,  *)
(* `commit` lead to.  From there, rebases, and the commands a user runs    *)
(* while one is stopped.                                                   *)
(***************************************************************************)
EXTENDS Rebase, TLC

Forked ==
    /\ RInit
    /\ \E base, first, second, theirs \in [Path -> Blob \cup {None}],
          other \in Branch \ {Main} :
         /\ base # first /\ first # second /\ base # theirs
         /\ commits = << [tree |-> base,   parents |-> <<>>],
                         [tree |-> first,  parents |-> <<1>>],
                         [tree |-> second, parents |-> <<2>>],
                         [tree |-> theirs, parents |-> <<1>>] >>
         /\ refs = [b \in Branch |-> IF b = Main THEN 3
                                     ELSE IF b = other THEN 4 ELSE None]
         /\ index = ReadTree(second)
         /\ work = second
    /\ head = Main /\ mergeHead = None /\ stash = <<>>

\* What resolves a conflict, and what gets in the way of a rebase.
UserCommand ==
    /\ at = "idle" /\ state # None /\ UNCHANGED sequencer
    /\ \/ \E p \in Path, c \in Blob \cup {None} : Edit(p, c)
       \/ AddAll
       \/ stopped # None /\ Commit
       \/ \E b \in Branch : Checkout(b, FALSE)
       \/ Reset(HeadId, "hard")

\* One rebase, from its start to its end.
RebaseWorkflow ==
    \/ before = None /\ \E b \in Branch : StartRebase(b)
    \/ UserCommand \/ Continue \/ Abort \/ Proceed \/ Crash

RebaseSpec == Forked /\ [][RebaseWorkflow]_rvars

Symmetry ==
    Permutations(Path) \cup Permutations(Blob) \cup Permutations(Branch \ {Main})
===============================================================================
