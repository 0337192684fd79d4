------------------------------- MODULE MCRefStore ------------------------------
(***************************************************************************)
(* A small repository for TLC: empty, or with two branches that have       *)
(* diverged by one commit each, with or without a merge of the other one   *)
(* under way.                                                              *)
(***************************************************************************)
EXTENDS RefStore, TLC

CONSTANT Side

Symmetry == Permutations(Process)

Diverged ==
    /\ objects = << [type |-> "commit", links |-> <<>>],
                    [type |-> "commit", links |-> <<1>>],
                    [type |-> "commit", links |-> <<1>>] >>
    /\ refs = [n \in Name |-> IF n = Main THEN 2 ELSE IF n = Side THEN 3 ELSE None]
    /\ head = Main
    /\ mergeHead \in {None, 3}
    /\ logs = [n \in Branch \cup {HEAD} |-> <<>>]
    /\ proc = [p \in Process |-> Idle]
    /\ begun = 0 /\ crashes = 0 /\ missed = {}
    /\ raced = {} /\ settled = {1, 2, 3} /\ discarded = {}
-------------------------------------------------------------------------------
(***************************************************************************)
(* Two explorations in one run: two commands that overlap as they like,    *)
(* one of which dies or some accesses of which to logs fail; or one        *)
(* command after the other, up to the bounds, that die, or a single one of *)
(* which any accesses fail.                                                *)
(***************************************************************************)
VARIABLE scope

Within ==
    IF scope = "overlapping"
    THEN /\ begun' <= 2 /\ crashes' <= 1
         /\ missed' = {} \/ (crashes' = 0 /\ missed' = {"log"})
    ELSE /\ begun' = begun \/ Resting
         /\ missed' = {} \/ (crashes' = 0 /\ begun' <= 1)

ScopedInit == (Init \/ Diverged) /\ scope \in {"overlapping", "in turn"}

ScopedNext == Next /\ Within /\ UNCHANGED scope

ScopedSpec == ScopedInit /\ [][ScopedNext]_<<vars, scope>>
===============================================================================
