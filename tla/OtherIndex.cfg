\* Three processes that lock, change and unlock the index, two of which may crash
\* anywhere; any write may fail.
CONSTANTS
    Process = {w1, w2, w3}
    Kind = {"update", "rewrite"}
    MaxTries = 2
    MaxCrashes = 2
SPECIFICATION OSpec
INVARIANTS ReadableAtRest
PROPERTIES ImplementsMutex LockReturns SomebodyEnters StaleStays ImplementsRegister
