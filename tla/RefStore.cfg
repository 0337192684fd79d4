CONSTANTS
    Process = {c1, c2}
    Branch = {main, dev, new}
    Main = main
    Side = dev
    Tag = {tag}
    HEAD = HEAD
    None = None
    Nowhere = nowhere
    MaxObjects = 5
    MaxCommands = 3
    MaxCrashes = 2
SPECIFICATION ScopedSpec
SYMMETRY Symmetry
INVARIANTS TypeOK HeadResolves SettledKept Recoverable
PROPERTIES MergeKept
CHECK_DEADLOCK FALSE
