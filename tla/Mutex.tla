---------------------------------- MODULE Mutex --------------------------------
(***************************************************************************)
(* What the callers of storage.lock and storage.unlock rely on: at most    *)
(* one process is between the two.                                         *)
(***************************************************************************)
CONSTANT Process

VARIABLE holders  \* the processes between lock and unlock

Init == holders = {}

Acquire(p) == holders = {} /\ holders' = {p}

Release(p) == holders = {p} /\ holders' = {}

Next == \E p \in Process : Acquire(p) \/ Release(p)

Spec == Init /\ [][Next]_holders
===============================================================================
