-------------------------------- MODULE StashStore -----------------------------
(***************************************************************************)
(* The stash log (internal/storage/stash_store.go) and `stash pop`         *)
(* (core/stash.go:202) when several commands use it at once.               *)
(*                                                                         *)
(* Every writer holds the lock of the log while it writes, but DropStash   *)
(* reads the log before it asks for the lock, and StashPop has read it     *)
(* once before that.  Entries are numbered in the order they were          *)
(* appended; no commit is pushed twice.  Lines have one length, so a write *)
(* at an offset hits one line; a gap left before it reads as line 0.       *)
(***************************************************************************)
EXTENDS Naturals, FiniteSetsExt, SequencesExt, Processes

CONSTANTS
    None,
    MaxPush,  \* bound: entries ever pushed
    MaxDrop   \* bound: the largest index a drop or a pop is given, plus one

VARIABLES
    log,      \* the lines of stash.log, oldest first
    tmp,      \* those of stash.log.tmp, or None when there is no such file
    pushed,   \* how many entries were ever appended
    holders,  \* who holds the lock (Mutex)
    step,     \* where a command is
    arg,      \* the index a drop or a pop was given, counted from 1
    seen,     \* what DropStash listed, newest first
    file,     \* the name of the file a command writes to: "log", "tmp",
              \* "gone" once another file was renamed over it, "none"
    at,       \* lines written so far
    clash     \* whether two commands ever rewrote the temporary file at once

stashVars == <<log, tmp, pushed, step, arg, seen, file, at, clash>>
vars == <<stashVars, holders>>

Lock == INSTANCE Mutex

Init ==
    /\ log = <<>> /\ tmp = None /\ pushed = 0 /\ holders = {} /\ clash = FALSE
    /\ step = [p \in Process |-> "idle"]
    /\ arg = [p \in Process |-> 1]
    /\ seen = [p \in Process |-> <<>>]
    /\ file = [p \in Process |-> "none"]
    /\ at = [p \in Process |-> 0]

Goto(p, s) == step' = [step EXCEPT ![p] = s]

\* The command returns, or dies; its variables are gone.
Return(p) ==
    /\ Goto(p, "idle")
    /\ arg' = [arg EXCEPT ![p] = 1]
    /\ seen' = [seen EXCEPT ![p] = <<>>]
    /\ file' = [file EXCEPT ![p] = "none"]
    /\ at' = [at EXCEPT ![p] = 0]

\* The lines a drop keeps, in the order of the file.
Kept(p) == Reverse(RemoveAt(seen[p], arg[p]))
-------------------------------------------------------------------------------
\* PushStash and ClearStash: the lock, then the write.
PushStart(p) ==
    /\ step[p] = "idle" /\ Goto(p, "push")
    /\ pushed + Cardinality({q \in Process : step[q] \in {"push", "append"}}) < MaxPush
    /\ UNCHANGED <<log, tmp, pushed, holders, arg, seen, file, at, clash>>

ClearStart(p) ==
    /\ step[p] = "idle" /\ Goto(p, "clear")
    /\ UNCHANGED <<log, tmp, pushed, holders, arg, seen, file, at, clash>>

\* DropStash with k; StashPop calls it with the index of the entry it applied,
\* which was there.
DropStart(p, k) ==
    /\ step[p] = "idle" /\ Goto(p, "list")
    /\ arg' = [arg EXCEPT ![p] = k]
    /\ UNCHANGED <<log, tmp, pushed, holders, seen, file, at, clash>>

PopStart(p, k) == k <= Len(log) /\ DropStart(p, k)

\* DropStash lists the entries, still without the lock.
List(p) ==
    /\ step[p] = "list"
    /\ IF arg[p] \in DOMAIN log
       THEN /\ Goto(p, "drop") /\ seen' = [seen EXCEPT ![p] = Reverse(log)]
            /\ UNCHANGED <<arg, file, at>>
       ELSE Return(p)
    /\ UNCHANGED <<log, tmp, pushed, holders, clash>>

WantsLock(p) == step[p] \in {"push", "clear", "drop"} /\ p \notin holders

Acquire(p) == WantsLock(p) /\ Lock!Acquire(p) /\ UNCHANGED stashVars
-------------------------------------------------------------------------------
\* PushStash under the lock: OpenFile ...
OpenLog(p) ==
    /\ step[p] = "push" /\ p \in holders
    /\ Goto(p, "append") /\ file' = [file EXCEPT ![p] = "log"]
    /\ UNCHANGED <<log, tmp, pushed, holders, arg, seen, at, clash>>

\* ... and one line, which O_APPEND puts at the end of the file that was opened.
AppendEntry(p) ==
    /\ step[p] = "append" /\ Goto(p, "unlock")
    /\ pushed' = pushed + 1
    /\ log' = IF file[p] = "log" THEN Append(log, pushed') ELSE log
    /\ file' = [file EXCEPT ![p] = "none"]
    /\ UNCHANGED <<tmp, holders, arg, seen, at, clash>>

Truncate(p) ==
    /\ step[p] = "clear" /\ p \in holders
    /\ log' = <<>>
    /\ Goto(p, "unlock")
    /\ UNCHANGED <<tmp, pushed, holders, arg, seen, file, at, clash>>

\* Plausible defect: what an earlier command left in the file stays.
CreateTmpKeeps(p) ==
    /\ step[p] = "drop" /\ p \in holders
    /\ tmp' = IF tmp = None THEN <<>> ELSE tmp
    /\ file' = [file EXCEPT ![p] = "tmp"]
    /\ clash' = (clash \/ \E q \in Process : step[q] = "rewrite")
    /\ Goto(p, "rewrite")
    /\ UNCHANGED <<log, pushed, holders, arg, seen, at>>

\* DropStash under the lock: Create empties a file that is there ...
CreateTmp(p) ==
    /\ step[p] = "drop" /\ p \in holders
    /\ tmp' = <<>>
    /\ file' = [file EXCEPT ![p] = "tmp"]
    /\ clash' = (clash \/ \E q \in Process : step[q] = "rewrite")
    /\ Goto(p, "rewrite")
    /\ UNCHANGED <<log, pushed, holders, arg, seen, at>>

WriteAt(lines, i, line) ==
    [j \in 1 .. Max({Len(lines), i}) |->
        IF j = i THEN line ELSE IF j <= Len(lines) THEN lines[j] ELSE 0]

\* Plausible defect: the lines are written in the order of the list.
WriteLineReversed(p) ==
    /\ step[p] = "rewrite" /\ at[p] < Len(Kept(p))
    /\ at' = [at EXCEPT ![p] = @ + 1]
    /\ LET written(f) == WriteAt(f, at'[p], Reverse(Kept(p))[at'[p]])
       IN /\ tmp' = IF file[p] = "tmp" THEN written(tmp) ELSE tmp
          /\ log' = IF file[p] = "log" THEN written(log) ELSE log
    /\ UNCHANGED <<pushed, holders, step, arg, seen, file, clash>>

\* ... a line at a time goes to the file that was created ...
WriteLine(p) ==
    /\ step[p] = "rewrite" /\ at[p] < Len(Kept(p))
    /\ at' = [at EXCEPT ![p] = @ + 1]
    /\ LET written(f) == WriteAt(f, at'[p], Kept(p)[at'[p]])
       IN /\ tmp' = IF file[p] = "tmp" THEN written(tmp) ELSE tmp
          /\ log' = IF file[p] = "log" THEN written(log) ELSE log
    /\ UNCHANGED <<pushed, holders, step, arg, seen, file, clash>>

\* ... unless a write fails: the name is removed again.
WriteFails(p) ==
    /\ step[p] = "rewrite" /\ at[p] < Len(Kept(p))
    /\ tmp' = None
    /\ file' = [q \in Process |-> IF q = p THEN "none"
                                  ELSE IF file[q] = "tmp" THEN "gone" ELSE file[q]]
    /\ Goto(p, "unlock")
    /\ UNCHANGED <<log, pushed, holders, arg, seen, at, clash>>

\* ... and Rename puts whatever file has the temporary name in place of the log.
Rename(p) ==
    /\ step[p] = "rewrite" /\ at[p] = Len(Kept(p))
    /\ IF tmp = None THEN UNCHANGED <<log, tmp>> /\ file' = [file EXCEPT ![p] = "none"]
       ELSE /\ log' = tmp /\ tmp' = None
            /\ file' = [q \in Process |->
                          IF q = p THEN "none"
                          ELSE CASE file[q] = "tmp" -> "log" [] file[q] = "log" -> "gone"
                                 [] OTHER -> file[q]]
    /\ Goto(p, "unlock")
    /\ UNCHANGED <<pushed, holders, arg, seen, at, clash>>

Release(p) ==
    /\ step[p] = "unlock" /\ Return(p)
    /\ Lock!Release(p)
    /\ UNCHANGED <<log, tmp, pushed, clash>>
-------------------------------------------------------------------------------
Writing(p) ==
    \/ OpenLog(p) \/ AppendEntry(p) \/ Truncate(p)
    \/ CreateTmp(p) \/ WriteLine(p) \/ Rename(p)

Starting(p) ==
    \/ PushStart(p) \/ ClearStart(p)
    \/ \E k \in 1 .. MaxDrop : PopStart(p, k) \/ DropStart(p, k)

Next ==
    \E p \in Process :
        \/ Starting(p) \/ List(p) \/ Writing(p) \/ WriteFails(p)
        \/ Acquire(p) \/ Release(p)

\* A command runs to its end once the lock lets it; nobody has to start one.
Spec ==
    /\ Init /\ [][Next]_vars
    /\ \A p \in Process : WF_vars(List(p) \/ Writing(p) \/ Acquire(p) \/ Release(p))
-------------------------------------------------------------------------------
\* stash_store.go:135: "callers always see the most recent stash first", and no
\* entry twice.  It takes a clash of two rewrites to break that, which a lock
\* that excludes rules out: no stale list, failed write or crash does.
Ordered == clash \/ \A i, j \in DOMAIN log : i < j => log[i] < log[j]

\* What one step makes of the log: an entry more, nothing, or some list without
\* the entry dropped from it.
WritesWhole ==
    \/ log' = log \/ clash
    \/ log' = Append(log, pushed')
    \/ log' = <<>>
    \/ \E p \in Process : step[p] = "rewrite" /\ log' = Kept(p)

\* The log is always the whole outcome of one command, also when a command before
\* it died or failed in the middle of its rewrite (stash_store.go:209-233).
WholeOutcome == [][WritesWhole]_vars

\* README.md:485 on `stash drop`: "Removes a stash entry without applying it."
\* One entry, of the log as it is, and no other.
DropRemovesOne ==
    [][\A p \in Process :
         step[p] = "rewrite" /\ step'[p] = "unlock" /\ log' # log =>
            \E k \in DOMAIN log : log' = RemoveAt(log, k)]_vars
===============================================================================
