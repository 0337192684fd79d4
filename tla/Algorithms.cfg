\* Trees of two paths, three contents, two modes; texts of up to three lines
\* over three, pairs of six lines over two; an index of up to two entries whose
\* paths have every length modulo eight.
CONSTANTS
    Path = {p1, p2}
    Hash = {h1, h2, h3}
    Mode = {m644, m755}
    None = None
    Line = {l1, l2, l3}
    MaxLines = 3
    LongText = 6
    Diff <- DiffMain
    Lengths = {1, 2, 3, 4, 5, 6, 7, 8}
    Fills = {0}
    Extensions = {0, 5}
    MaxEntries = 2
    MaxBlocks = 2
    SHA1 <- LengthHash
SPECIFICATION AlgorithmsSpec
INVARIANTS
    OneVerdict ThreeWay Symmetric Absorbs
    DiffShortest NothingLostInMerge TextSymmetric ConflictsMeet
    IndexRoundTrip
SYMMETRY Symmetry
\* Each algorithm runs once.
CHECK_DEADLOCK FALSE
