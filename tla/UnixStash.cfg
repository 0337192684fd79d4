\* Two commands on the stash log at once, one of which may die, and lock files
\* for the name and every descriptor.
CONSTANTS
    Process = {c1, c2}
    Inode = {i1, i2, i3}
    None = None
    MaxCrashes = 1
    MaxPush = 3
    MaxDrop = 2
SPECIFICATION USpec
INVARIANTS Ordered
PROPERTIES CommandsEnd WholeOutcome
\* Once two rewrites have clashed nothing new is started.
CHECK_DEADLOCK FALSE
