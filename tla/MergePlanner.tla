----------------------------- MODULE MergePlanner ------------------------------
(***************************************************************************)
(* The planner at work: Init chooses the three trees a merge or a pick     *)
(* starts from (core/merge.go, core/rebase.go), one step computes the      *)
(* plan.  The properties say what the plan owes its inputs.                *)
(***************************************************************************)
EXTENDS MergeEngine

VARIABLES
    base, ours, theirs,  \* the three inputs of MergeTrees
    plan                 \* the MergePlan, NoPlan before it is computed

vars == <<base, ours, theirs, plan>>

NoPlan == [CleanUpdates |-> <<>>, Deletions |-> {None}, Conflicts |-> <<>>]

Init ==
    /\ base \in Tree /\ ours \in Tree /\ theirs \in Tree
    /\ plan = NoPlan

Plan ==
    /\ plan = NoPlan
    /\ plan' = MergeTrees(base, ours, theirs)
    /\ UNCHANGED <<base, ours, theirs>>

Spec == Init /\ [][Plan]_vars

Planned == plan # NoPlan
-------------------------------------------------------------------------------
\* The paths some tree of the three holds (allPaths).
AllPaths == {p \in Path : base[p] # None \/ ours[p] # None \/ theirs[p] # None}

(***************************************************************************)
(* Every path of the three trees gets exactly one verdict, and no other    *)
(* path is mentioned: ApplyMergePlan runs the three phases one after the   *)
(* other, so a path in two of them would be written by the later one.      *)
(***************************************************************************)
OneVerdict ==
    LET C == DOMAIN plan.CleanUpdates
        D == plan.Deletions
        X == DOMAIN plan.Conflicts
    IN Planned =>
         /\ C \cup D \cup X = AllPaths
         /\ C \cap D = {} /\ C \cap X = {} /\ D \cap X = {}

(***************************************************************************)
(* The definition of a three-way merge, stated on changes instead of       *)
(* cases: no change keeps the base content, one new content (on one side   *)
(* or the same on both) wins, two different new contents conflict.         *)
(***************************************************************************)
ThreeWay ==
    Planned => \A p \in Path :
        LET b       == HashOf(base[p])
            changes == {HashOf(ours[p]), HashOf(theirs[p])} \ {b}
            result  == HashOf(Merged(plan)[p])
        IN IF p \in DOMAIN plan.Conflicts
           THEN \E x, y \in changes : x # y
           ELSE (changes = {} /\ result = b) \/ changes = {result}

(***************************************************************************)
(* Merging A into B and B into A conflict on the same paths and agree on   *)
(* the content of all the others.                                          *)
(***************************************************************************)
Symmetric ==
    LET flip == MergeTrees(base, theirs, ours)
    IN Planned =>
         /\ DOMAIN plan.Conflicts = DOMAIN flip.Conflicts
         /\ \A p \in Path : HashOf(Merged(plan)[p]) = HashOf(Merged(flip)[p])

(***************************************************************************)
(* A merge without conflicts absorbs theirs: merging theirs again, from    *)
(* the same base, changes no content and raises no conflict.               *)
(***************************************************************************)
Absorbs ==
    LET again == MergeTrees(base, Merged(plan), theirs)
    IN Planned /\ DOMAIN plan.Conflicts = {} =>
         /\ DOMAIN again.Conflicts = {}
         /\ \A p \in Path : HashOf(Merged(again)[p]) = HashOf(Merged(plan)[p])
===============================================================================
