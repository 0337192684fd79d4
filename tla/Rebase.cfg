\* Rebases of two commits over one path, with a crash or a failed save.
CONSTANTS
    Path = {p1}
    Blob = {b1, b2}
    Marked = {}
    Branch = {main, dev}
    Main = main
    None = None
    Zero = Zero
    MaxCommits = 6
    MaxStash = 0
    MaxFaults = 1
SPECIFICATION RebaseSpec
SYMMETRY Symmetry
INVARIANTS UnmergedBelongs
PROPERTIES NothingSkipped AbortRestores
\* The scenario ends with the rebase.
CHECK_DEADLOCK FALSE
