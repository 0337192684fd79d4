-------------------------------- MODULE UnixStash ------------------------------
(***************************************************************************)
(* The stash log under the lock its Unix build has: the steps of           *)
(* StashStore, with FlockLock in the place of the abstract mutex, and the  *)
(* death of a command at any step.                                         *)
(***************************************************************************)
EXTENDS FlockLock

CONSTANTS MaxPush, MaxDrop  \* bounds, see StashStore

ASSUME StashAssumption == MaxPush \in Nat /\ MaxDrop \in Nat

VARIABLES log, tmp, pushed, step, arg, seen, file, at, clash

Store == INSTANCE StashStore WITH holders <- Holders

lockVars == <<dirEntry, fd, flock, pc, crashes>>
stashVars == <<log, tmp, pushed, step, arg, seen, file, at, clash>>
uvars == <<lockVars, stashVars>>

UInit == Init /\ Store!Init

\* lock: PushStash, ClearStash and DropStash, when they get that far.
Locking(p) ==
    /\ Open(p) /\ Store!WantsLock(p) /\ UNCHANGED stashVars

Locked(p) == LockFile(p) /\ UNCHANGED stashVars

\* unlock, in its two steps; the command returns with the second.
Unlock(p) ==
    /\ step[p] = "unlock"
    /\ \/ Release(p) /\ UNCHANGED stashVars
       \/ Remove(p) /\ Store!Return(p) /\ UNCHANGED <<log, tmp, pushed, clash>>

\* The steps of the command itself.
Work(p) == UNCHANGED lockVars /\ (Store!List(p) \/ Store!Writing(p))

\* Bound: nothing is started any more once two rewrites have clashed.
Begin(p) == ~clash /\ UNCHANGED lockVars /\ Store!Starting(p)

Fail(p) == UNCHANGED lockVars /\ Store!WriteFails(p)

\* The process dies; the temporary file and the lock file stay.
Die(p) == Crash(p) /\ Store!Return(p) /\ UNCHANGED <<log, tmp, pushed, clash>>

UNext ==
    \E p \in Process :
        Begin(p) \/ Work(p) \/ Fail(p) \/ Locking(p) \/ Locked(p) \/ Unlock(p) \/ Die(p)

\* A command that was started goes on until it returns, fails or dies.
USpec ==
    /\ UInit /\ [][UNext]_uvars
    /\ \A p \in Process :
         WF_uvars(Work(p) \/ Locking(p) \/ Unlock(p)) /\ WF_uvars(Locked(p))
-------------------------------------------------------------------------------
\* Every command that is started ends, whoever else fails, dies or comes back
\* for ever: it gets the lock, because no newcomer can open the file it waits
\* for once unlock has removed that, and it gives the lock back.
CommandsEnd == \A p \in Process : step[p] # "idle" ~> step[p] = "idle"

Ordered == Store!Ordered
WholeOutcome == Store!WholeOutcome
===============================================================================
