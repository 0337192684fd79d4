\* The smallest instance in which two writers hold the lock.
CONSTANTS
    Process = {w1, w2}
    Inode = {i1, i2, i3}
    None = None
    MaxCrashes = 0
SPECIFICATION FairSpec
PROPERTIES ImplementsMutex
