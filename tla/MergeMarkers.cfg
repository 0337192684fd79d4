\* A merge commit that records conflict markers.
CONSTANTS
    Path = {p1}
    Blob = {b1, b2, m1}
    Marked = {m1}
    Branch = {main, dev}
    Main = main
    None = None
    Zero = Zero
    MaxCommits = 4
    MaxStash = 0
SPECIFICATION ScopedSpec
SYMMETRY Symmetry
INVARIANTS MarkersNotCommitted
