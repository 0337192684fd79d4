--------------------------------- MODULE CommitGraph ---------------------------
(***************************************************************************)
(* The commit graph as history walks see it.  An object is named by its    *)
(* position, and parents maps every stored object to the set of its        *)
(* parents.                                                                *)
(***************************************************************************)
EXTENDS Integers

\* What a walk from an object meets, the object itself included.
AncestorsIn(parents, id) ==
    LET anc[i \in DOMAIN parents] == {i} \cup UNION {anc[p] : p \in parents[i]}
    IN anc[id]
===============================================================================
