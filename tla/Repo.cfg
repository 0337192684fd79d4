\* Two paths and two branches; which bounds hold at the same time is chosen by
\* scope (MCRepo).
CONSTANTS
    Path = {p1, p2}
    Blob = {b1, b2, m1}
    Marked = {m1}
    Branch = {main, dev}
    Main = main
    None = None
    Zero = Zero
    MaxCommits = 4
    MaxStash = 1
SPECIFICATION ScopedSpec
SYMMETRY Symmetry
INVARIANTS TypeOK HeadResolves UnmergedImpliesMerging
PROPERTIES HeadMovesLast CheckoutKeepsWork StashKeepsTracked HistoryKept MergeConcluded
