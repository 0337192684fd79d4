--------------------------------- MODULE MCRepo --------------------------------
(***************************************************************************)
(* Small repositories for TLC.                                             *)
(***************************************************************************)
EXTENDS Repo, TLC

\* Paths are interchangeable; so are the contents of the same kind and the
\* branches other than Main.
Symmetry ==
    Permutations(Path) \cup Permutations(Marked) \cup Permutations(Blob \ Marked)
      \cup Permutations(Branch \ {Main})
-------------------------------------------------------------------------------
(***************************************************************************)
(* Two branches that have diverged by one commit each, with the working    *)
(* tree of main checked out: what `commit`, `branch`, `checkout`, `commit` *)
(* lead to, no text with markers among them.  From there, the commands of  *)
(* the merge workflow.                                                     *)
(***************************************************************************)
Diverged ==
    \E base, ours, theirs \in [Path -> (Blob \ Marked) \cup {None}], other \in Branch \ {Main} :
        /\ commits = << [tree |-> base,   parents |-> <<>>],
                        [tree |-> ours,   parents |-> <<1>>],
                        [tree |-> theirs, parents |-> <<1>>] >>
        /\ refs = [b \in Branch |-> IF b = Main THEN 2
                                    ELSE IF b = other THEN 3 ELSE None]
        /\ head = Main
        /\ index = ReadTree(ours)
        /\ work = ours
        /\ mergeHead = None
        /\ stash = <<>>

MergeWorkflow ==
    \/ \E p \in Path, c \in Blob \cup {None} : Edit(p, c)
    \/ \E p \in Path : AddFile({p}) \/ RemoveFile({p}, FALSE)
    \/ AddAll
    \/ Commit \/ CommitAll
    \/ MergeCommand
    \/ \E b \in Branch : Checkout(b, FALSE)
    \/ Reset(HeadId, "hard")
    \/ StashPush \/ \E k \in DOMAIN stash : StashPop(k)

-------------------------------------------------------------------------------
(***************************************************************************)
(* Three explorations in one run, each with bounds of its own: a behaviour *)
(* chooses one and stays in it.                                            *)
(***************************************************************************)
VARIABLE scope

\* The paths and the contents that a tree, the index or the disk holds.
UsedPaths ==
    {p \in Path : \/ work[p] # None \/ index[p] # None
                  \/ \E i \in Ids : commits[i].tree[p] # None}

UsedBlobs ==
    {work[p] : p \in Path} \cup {index[p].blob : p \in Tracked}
      \cup {commits[i].tree[p] : i \in Ids, p \in Path}

\* "files": every command on all paths, two commits.  "history": one path and
\* one content, without the stash, three commits in any shape of graph.
\* "merge": the merge workflow on one path.
Within ==
    CASE scope = "files"   -> Len(commits) <= 2 /\ UsedBlobs \cap Marked = {}
      [] scope = "history" -> /\ Len(commits) <= 3 /\ stash = <<>> /\ UsedBlobs \cap Marked = {}
                              /\ Cardinality(UsedPaths) <= 1
                              /\ Cardinality(UsedBlobs \cap Blob) <= 1
      [] scope = "merge"   -> Cardinality(UsedPaths) <= 1

ScopedInit ==
    /\ \/ scope \in {"files", "history"} /\ Init
       \/ scope = "merge" /\ Diverged
    /\ Within

ScopedNext ==
    /\ UNCHANGED scope
    /\ \/ scope # "merge" /\ Next
       \/ scope = "merge" /\ MergeWorkflow
    /\ Within'

ScopedSpec == ScopedInit /\ [][ScopedNext]_<<vars, scope>>
===============================================================================
