-------------------------------- MODULE FlockLock ------------------------------
(***************************************************************************)
(* The lock of internal/storage/lockUnix.go: flock on a companion ".lock"  *)
(* file, which unlock removes after it has released and closed it.         *)
(*                                                                         *)
(* The kernel ties a flock to the open file, not to its name: a process    *)
(* that opened the file before it was removed locks a file nobody else can *)
(* open any more.  The kernel drops the flocks of a process that dies.     *)
(***************************************************************************)
EXTENDS Naturals, Processes

CONSTANTS
    Inode,      \* the files that may carry the ".lock" name one after another
    None,
    MaxCrashes  \* bound: crashes in a behaviour

ASSUME FlockAssumption == None \notin Inode /\ None \notin Process /\ MaxCrashes \in Nat

VARIABLES
    dirEntry,  \* the file that has the ".lock" name, or None
    fd,        \* the lock file a process has open, or None
    flock,     \* the process that holds the flock of a file, or None
    pc,        \* where a process is
    crashes

vars == <<dirEntry, fd, flock, pc, crashes>>

Init ==
    /\ dirEntry = None
    /\ fd = [p \in Process |-> None]
    /\ flock = [i \in Inode |-> None]
    /\ pc = [p \in Process |-> "outside"]
    /\ crashes = 0

\* What creation yields: a file that no name and no descriptor refers to; which
\* one makes no difference.
Fresh == CHOOSE i \in Inode : i # dirEntry /\ \A p \in Process : fd[p] # i

\* OpenFile with O_CREATE: the file that has the name, or a new one.
Open(p) ==
    /\ pc[p] = "outside"
    /\ dirEntry' = IF dirEntry = None THEN Fresh ELSE dirEntry
    /\ fd' = [fd EXCEPT ![p] = dirEntry']
    /\ pc' = [pc EXCEPT ![p] = "waiting"]
    /\ UNCHANGED <<flock, crashes>>

\* Flock with LOCK_EX returns.
LockFile(p) ==
    /\ pc[p] = "waiting" /\ flock[fd[p]] = None
    /\ flock' = [flock EXCEPT ![fd[p]] = p]
    /\ pc' = [pc EXCEPT ![p] = "inside"]
    /\ UNCHANGED <<dirEntry, fd, crashes>>

\* Plausible defect: the descriptor leaks, and the flock with it.
ReleaseLeaks(p) ==
    /\ pc[p] = "inside"
    /\ pc' = [pc EXCEPT ![p] = "removing"]
    /\ UNCHANGED <<dirEntry, fd, flock, crashes>>

\* unlock: LOCK_UN and Close ...
Release(p) ==
    /\ pc[p] = "inside"
    /\ flock' = [flock EXCEPT ![fd[p]] = None]
    /\ fd' = [fd EXCEPT ![p] = None]
    /\ pc' = [pc EXCEPT ![p] = "removing"]
    /\ UNCHANGED <<dirEntry, crashes>>

\* Plausible defect: the lock file is left behind, as it once was.
RemoveNothing(p) ==
    /\ pc[p] = "removing"
    /\ pc' = [pc EXCEPT ![p] = "outside"]
    /\ UNCHANGED <<dirEntry, fd, flock, crashes>>

\* ... then Remove of whatever file has the name by now.
Remove(p) ==
    /\ pc[p] = "removing"
    /\ dirEntry' = None
    /\ pc' = [pc EXCEPT ![p] = "outside"]
    /\ UNCHANGED <<fd, flock, crashes>>

\* The process dies; another one may be started in its place.
Crash(p) ==
    /\ pc[p] # "outside" /\ crashes < MaxCrashes
    /\ flock' = [i \in Inode |-> IF flock[i] = p THEN None ELSE flock[i]]
    /\ fd' = [fd EXCEPT ![p] = None]
    /\ pc' = [pc EXCEPT ![p] = "outside"]
    /\ crashes' = crashes + 1
    /\ UNCHANGED dirEntry

Next ==
    \E p \in Process : Open(p) \/ LockFile(p) \/ Release(p) \/ Remove(p) \/ Crash(p)

Spec == Init /\ [][Next]_vars

\* A critical section ends and unlock runs to its end; a process whose file
\* stays unlocked gets the flock.  Nobody has to call lock.
Fairness ==
    \A p \in Process :
        WF_vars(LockFile(p)) /\ WF_vars(Release(p)) /\ WF_vars(Remove(p))

FairSpec == Spec /\ Fairness
-------------------------------------------------------------------------------
Holders == {p \in Process : pc[p] = "inside"}

M == INSTANCE Mutex WITH holders <- Holders

\* README.md:207 and index.go:87: the lock ensures that only one writer is
\* between lock and unlock.
ImplementsMutex == M!Spec
===============================================================================
