--------------------------------- MODULE ExclLock ------------------------------
(***************************************************************************)
(* The lock of internal/storage/lockOther.go, for systems without flock: a *)
(* process holds the lock when its O_EXCL creation of the ".lock" file     *)
(* succeeded, polls while the file exists, and gives up at a deadline.     *)
(* A crash leaves the file behind.                                         *)
(***************************************************************************)
EXTENDS Naturals, Processes

CONSTANTS
    MaxTries,   \* ticks before the deadline (5 s / 10 ms in the code)
    MaxCrashes  \* bound: crashes in a behaviour

ASSUME LockAssumption == MaxTries \in Nat /\ MaxCrashes \in Nat

VARIABLES
    lockFile,  \* the ".lock" file exists
    pc,        \* where a process is: outside, in lock, or between lock and unlock
    tries,     \* the failed attempts of the current call of lock
    crashes

vars == <<lockFile, pc, tries, crashes>>

Init ==
    /\ lockFile = FALSE
    /\ pc = [p \in Process |-> "outside"]
    /\ tries = [p \in Process |-> 0]
    /\ crashes = 0

Start(p) ==
    /\ pc[p] = "outside"
    /\ pc' = [pc EXCEPT ![p] = "trying"]
    /\ tries' = [tries EXCEPT ![p] = 0]
    /\ UNCHANGED <<lockFile, crashes>>

\* Plausible defect: no O_EXCL, an existing file is opened.
CreateShared(p) ==
    /\ pc[p] = "trying"
    /\ lockFile' = TRUE
    /\ pc' = [pc EXCEPT ![p] = "inside"]
    /\ UNCHANGED <<tries, crashes>>

\* OpenFile with O_CREATE|O_EXCL succeeds.
Create(p) ==
    /\ pc[p] = "trying" /\ ~lockFile
    /\ lockFile' = TRUE
    /\ pc' = [pc EXCEPT ![p] = "inside"]
    /\ UNCHANGED <<tries, crashes>>

\* Plausible defect: one attempt too many.
RetryOnceMore(p) ==
    /\ pc[p] = "trying" /\ lockFile /\ tries[p] <= MaxTries
    /\ tries' = [tries EXCEPT ![p] = @ + 1]
    /\ UNCHANGED <<lockFile, pc, crashes>>

\* The file exists; a tick comes before the deadline.
Retry(p) ==
    /\ pc[p] = "trying" /\ lockFile /\ tries[p] < MaxTries
    /\ tries' = [tries EXCEPT ![p] = @ + 1]
    /\ UNCHANGED <<lockFile, pc, crashes>>

\* Plausible defects: a deadline that is never reached, and one that takes the
\* file of whoever is slow for stale.
TimeOutNever(p) ==
    /\ pc[p] = "trying" /\ lockFile /\ tries[p] > MaxTries
    /\ pc' = [pc EXCEPT ![p] = "outside"]
    /\ UNCHANGED <<lockFile, tries, crashes>>

TimeOutBreaksLock(p) ==
    /\ pc[p] = "trying" /\ lockFile
    /\ pc' = [pc EXCEPT ![p] = "outside"]
    /\ lockFile' = FALSE
    /\ UNCHANGED <<tries, crashes>>

\* The file exists; the deadline comes first, and lock fails.
TimeOut(p) ==
    /\ pc[p] = "trying" /\ lockFile
    /\ pc' = [pc EXCEPT ![p] = "outside"]
    /\ UNCHANGED <<lockFile, tries, crashes>>

\* Plausible defect: closed, not removed.
UnlockKeepsFile(p) ==
    /\ pc[p] = "inside"
    /\ pc' = [pc EXCEPT ![p] = "outside"]
    /\ UNCHANGED <<lockFile, tries, crashes>>

Unlock(p) ==
    /\ pc[p] = "inside"
    /\ lockFile' = FALSE
    /\ pc' = [pc EXCEPT ![p] = "outside"]
    /\ UNCHANGED <<tries, crashes>>

\* The process dies; another one may be started in its place.
Crash(p) ==
    /\ pc[p] # "outside" /\ crashes < MaxCrashes
    /\ pc' = [pc EXCEPT ![p] = "outside"]
    /\ crashes' = crashes + 1
    /\ UNCHANGED <<lockFile, tries>>

Attempt(p) == Create(p) \/ Retry(p) \/ TimeOut(p)

Next == \E p \in Process : Start(p) \/ Attempt(p) \/ Unlock(p) \/ Crash(p)

Spec == Init /\ [][Next]_vars
-------------------------------------------------------------------------------
TypeOK ==
    /\ lockFile \in BOOLEAN
    /\ pc \in [Process -> {"outside", "trying", "inside"}]
    /\ tries \in [Process -> 0 .. MaxTries]
    /\ crashes \in 0 .. MaxCrashes

Holders == {p \in Process : pc[p] = "inside"}

\* Whatever crashes, however slow a holder is next to the deadline of the
\* others, the lock implements mutual exclusion.
M == INSTANCE Mutex WITH holders <- Holders

ImplementsMutex == M!Spec

\* Every call of lock returns, also when a crash left a stale file behind.
LockReturns == \A p \in Process : pc[p] = "trying" ~> pc[p] # "trying"

\* As long as nobody crashes, the file never outlives its holder: when a
\* process waits, some process gets the lock.
SomebodyEnters ==
    (\E p \in Process : pc[p] = "trying") ~> (crashes > 0 \/ Holders # {})

\* A lock file without a holder is never removed again: after a crash between
\* lock and unlock, every later call of lock times out.
StaleStays == [][ lockFile /\ Holders = {} => lockFile' /\ Holders' = {} ]_vars
===============================================================================
