\* A crash after the first save and before the reset to the new base.
CONSTANTS
    Path = {p1}
    Blob = {b1, b2}
    Marked = {}
    Branch = {main, dev}
    Main = main
    None = None
    Zero = Zero
    MaxCommits = 6
    MaxStash = 0
    MaxFaults = 1
SPECIFICATION RebaseSpec
SYMMETRY Symmetry
PROPERTIES ReplaysOnto
\* The scenario ends with the rebase.
CHECK_DEADLOCK FALSE
