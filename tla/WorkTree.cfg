CONSTANTS
    a = a
    d = d
    config = config
    Dir = Dir
    StartsWith <- MCStartsWith
    Path <- MCPath
    Patterns <- MCPatterns
    Size <- MCSize
    Blob = {x, y}
    Star = Star
    None = None
    MaxClock = 3
    MaxLines = 1
SPECIFICATION Spec
SYMMETRY Symmetry
INVARIANTS TypeOK StatHonest DirtyShows
PROPERTIES AddAllComplete CleanAddsNothing CleanKeeps
