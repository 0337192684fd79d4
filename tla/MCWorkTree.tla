------------------------------ MODULE MCWorkTree ------------------------------
(***************************************************************************)
(* A directory with one file, room for a file in its place, and a file     *)
(* that status overlooks: .kitcatconfig, which .kitcat/** matches as well. *)
(* The contents have one size.                                             *)
(***************************************************************************)
EXTENDS WorkTree, TLC

CONSTANTS a, d, config

MCPath == {<<d>>, <<config>>, <<d, a>>}

MCPatterns ==
    {[kind |-> "dir", path |-> <<d>>], [kind |-> "glob", path |-> <<d>>],
     [kind |-> "glob", path |-> <<config>>], [kind |-> "glob", path |-> <<d, Star>>],
     [kind |-> "deep", prefix |-> <<d>>, suffix |-> <<>>],
     [kind |-> "deep", prefix |-> <<>>, suffix |-> <<a>>],
     [kind |-> "deep", prefix |-> <<Dir>>, suffix |-> <<>>]}

MCStartsWith(n, s) == n = s \/ <<n, s>> = <<config, Dir>>

MCSize(b) == 1

Symmetry == Permutations(Blob)
===============================================================================
