--------------------------------- MODULE IndexTxn ------------------------------
(***************************************************************************)
(* The critical sections of the index file (internal/storage/index.go):    *)
(* UpdateIndex loads the entries, lets a callback change them and writes   *)
(* them back; WriteIndexFromTree writes without loading.  Writing is       *)
(* os.WriteFile (plumbing/update_index.go:71): it truncates the file, then *)
(* fills it, and ReadIndex refuses what lies between.  It may fail before  *)
(* the file is touched and after it was truncated.                         *)
(*                                                                         *)
(* A change is named by the process whose callback makes it.  Enter, Leave *)
(* and Die go with the steps of the lock, which the modules that use this  *)
(* one supply.                                                             *)
(***************************************************************************)
EXTENDS Processes

CONSTANT Kind  \* "update": UpdateIndex; "rewrite": WriteIndexFromTree

ASSUME KindAssumption == Kind \subseteq {"update", "rewrite"}

VARIABLES
    index,  \* the changes the file holds over its last rewrite
    torn,   \* the file has been truncated and not filled
    phase,  \* where a process is in its critical section
    kind,   \* which one it is, "none" outside
    buf,    \* the map it holds in memory
    cut     \* history: the last write was cut short, by a death or an error

ixvars == <<index, torn, phase, kind, buf, cut>>

IxInit ==
    /\ index = {} /\ torn = FALSE
    /\ phase = [p \in Process |-> "out"]
    /\ kind = [p \in Process |-> "none"]
    /\ buf = [p \in Process |-> {}]
    /\ cut = FALSE

Enter(p) ==
    /\ phase[p] = "out"
    /\ phase' = [phase EXCEPT ![p] = "locked"]
    /\ \E k \in Kind : kind' = [kind EXCEPT ![p] = k]
    /\ UNCHANGED <<index, torn, buf, cut>>

\* LoadIndex, and the callback on what it read; it fails on a torn file.
Load(p) ==
    /\ phase[p] = "locked" /\ kind[p] = "update"
    /\ IF torn
       THEN phase' = [phase EXCEPT ![p] = "failed"] /\ UNCHANGED buf
       ELSE /\ phase' = [phase EXCEPT ![p] = "loaded"]
            /\ buf' = [buf EXCEPT ![p] = index \cup {p}]
    /\ UNCHANGED <<index, torn, kind, cut>>

\* Plausible defect: the file is opened for writing before the callback runs.
CallbackFailsOpened(p) ==
    /\ phase[p] = "loaded" /\ kind[p] = "update"
    /\ phase' = [phase EXCEPT ![p] = "failed"]
    /\ index' = {} /\ torn' = TRUE
    /\ UNCHANGED <<kind, buf, cut>>

\* The callback returns an error: nothing is written.
CallbackFails(p) ==
    /\ phase[p] = "loaded" /\ kind[p] = "update"
    /\ phase' = [phase EXCEPT ![p] = "failed"]
    /\ UNCHANGED <<index, torn, kind, buf, cut>>

\* WriteIndexFromTree: the entries of a tree.
FromTree(p) ==
    /\ phase[p] = "locked" /\ kind[p] = "rewrite"
    /\ phase' = [phase EXCEPT ![p] = "loaded"]
    /\ buf' = [buf EXCEPT ![p] = {}]
    /\ UNCHANGED <<index, torn, kind, cut>>

Truncate(p) ==
    /\ phase[p] = "loaded"
    /\ phase' = [phase EXCEPT ![p] = "writing"]
    /\ index' = {} /\ torn' = TRUE /\ cut' = FALSE
    /\ UNCHANGED <<kind, buf>>

Fill(p) ==
    /\ phase[p] = "writing"
    /\ phase' = [phase EXCEPT ![p] = "written"]
    /\ index' = buf[p] /\ torn' = FALSE
    /\ UNCHANGED <<kind, buf, cut>>

\* The file cannot be opened for writing: nothing is written.
OpenFails(p) ==
    /\ phase[p] = "loaded"
    /\ phase' = [phase EXCEPT ![p] = "failed"]
    /\ UNCHANGED <<index, torn, kind, buf, cut>>

\* The disk is full, or the device fails: the write ends with an error and the
\* file is left as the truncation and what was written made it.
FillFails(p) ==
    /\ phase[p] = "writing"
    /\ phase' = [phase EXCEPT ![p] = "failed"]
    /\ cut' = TRUE
    /\ UNCHANGED <<index, torn, kind, buf>>

\* The variables of the critical section are gone.
Forget(p) ==
    /\ kind' = [kind EXCEPT ![p] = "none"]
    /\ buf' = [buf EXCEPT ![p] = {}]

\* Plausible defect: the lock is given back before the file is written.
LeaveEarly(p) ==
    /\ phase[p] \in {"loaded", "written", "failed"}
    /\ phase' = [phase EXCEPT ![p] = IF @ = "loaded" THEN @ ELSE "out"]
    /\ UNCHANGED <<index, torn, kind, buf, cut>>

Leave(p) ==
    /\ phase[p] \in {"written", "failed"}
    /\ phase' = [phase EXCEPT ![p] = "out"]
    /\ Forget(p)
    /\ UNCHANGED <<index, torn, cut>>

\* The process dies: the file stays as it is.
Die(p) ==
    /\ phase' = [phase EXCEPT ![p] = "out"]
    /\ Forget(p)
    /\ cut' = (cut \/ phase[p] = "writing")
    /\ UNCHANGED <<index, torn>>

Body(p) ==
    \/ Load(p) \/ CallbackFails(p) \/ FromTree(p)
    \/ OpenFails(p) \/ Truncate(p) \/ Fill(p) \/ FillFails(p)
===============================================================================
