------------------------------ MODULE MergeEngine ------------------------------
(***************************************************************************)
(* The three-way tree merge of internal/merge/engine.go.                   *)
(*                                                                         *)
(* A tree snapshot (map[string]storage.TreeEntry, flattened by ParseTree)  *)
(* is a total function from paths to entries: an entry is a blob hash with *)
(* a file mode, and None stands for a path the map does not hold.  The     *)
(* code reads the hash of a missing entry as the empty string, which no    *)
(* blob has: that is None again.                                           *)
(***************************************************************************)
EXTENDS FiniteSets, Naturals

CONSTANTS
    Path,   \* repository paths
    Hash,   \* blob hashes
    Mode,   \* file modes, already parsed (parseMode)
    None    \* no entry, and the hash of no entry

Entry == [hash : Hash, mode : Mode]

\* A missing entry is not an entry, and its hash is no blob's.
ASSUME MergeAssumption == None \notin Hash /\ None \notin Entry

Tree == [Path -> Entry \cup {None}]

HashOf(entry) == IF entry = None THEN None ELSE entry.hash
-------------------------------------------------------------------------------
\* Plausible defects of the case analysis, used to challenge the properties.
SideSameChangeConflicts(b, o, t) ==
    IF o = b /\ t = b THEN "base"
    ELSE IF t = b THEN "ours" ELSE IF o = b THEN "theirs" ELSE "conflict"

SideOursOnBothChanged(b, o, t) ==
    IF o = b /\ t = b THEN "base" ELSE IF o # b THEN "ours" ELSE "theirs"

(***************************************************************************)
(* The five cases, in the code's order, on the hashes of one path:         *)
(* unchanged on both sides, same change on both, only ours, only theirs,   *)
(* and a conflict.  Modes take no part in the comparison.                  *)
(***************************************************************************)
Side(b, o, t) ==
    IF o = b /\ t = b THEN "base"
    ELSE IF o = t \/ t = b THEN "ours"
    ELSE IF o = b THEN "theirs"
    ELSE "conflict"

\* The entry of the side that was chosen for one path.
Chosen(side, b, o, t) ==
    CASE side = "base"     -> b
      [] side = "ours"     -> o
      [] side = "theirs"   -> t
      [] side = "conflict" -> None

\* A planner that forgets that the chosen side may have deleted the path.
MergeTreesDropsDeletions(base, ours, theirs) ==
    LET side(p)  == Side(HashOf(base[p]), HashOf(ours[p]), HashOf(theirs[p]))
        entry(p) == Chosen(side(p), base[p], ours[p], theirs[p])
    IN [CleanUpdates |-> [p \in {q \in Path : entry(q) # None} |-> entry(p)],
        Deletions    |-> {p \in Path : side(p) = "ours" /\ entry(p) = None},
        Conflicts    |-> [p \in {q \in Path : side(q) = "conflict"} |->
                            [base   |-> HashOf(base[p]),
                             ours   |-> HashOf(ours[p]),
                             theirs |-> HashOf(theirs[p])]]]

(***************************************************************************)
(* MergePlan: what to write, what to delete, what to ask the user about.   *)
(***************************************************************************)
MergeTrees(base, ours, theirs) ==
    LET side(p)  == Side(HashOf(base[p]), HashOf(ours[p]), HashOf(theirs[p]))
        entry(p) == Chosen(side(p), base[p], ours[p], theirs[p])
    IN [CleanUpdates |-> [p \in {q \in Path : entry(q) # None} |-> entry(p)],
        Deletions    |-> {p \in Path :
                            side(p) \in {"ours", "theirs"} /\ entry(p) = None},
        Conflicts    |-> [p \in {q \in Path : side(q) = "conflict"} |->
                            [base   |-> HashOf(base[p]),
                             ours   |-> HashOf(ours[p]),
                             theirs |-> HashOf(theirs[p])]]]

\* The tree a plan without conflicts stands for.
Merged(plan) ==
    [p \in Path |-> IF p \in DOMAIN plan.CleanUpdates
                    THEN plan.CleanUpdates[p] ELSE None]
===============================================================================
