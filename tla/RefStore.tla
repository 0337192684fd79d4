--------------------------------- MODULE RefStore ------------------------------
(***************************************************************************)
(* The objects and the ref files under commands that run at the same time  *)
(* or die half-way.  No lock guards refs, HEAD or reflogs; what the code   *)
(* relies on is that every file is replaced in one step (SafeWrite and     *)
(* HashAndWriteObject rename a finished temporary file) and that commands  *)
(* touch the files in the right order.  A step here is one such access; it *)
(* may fail, and where the code ignores that the command goes on.          *)
(*                                                                         *)
(* An object is named by its position in objects; trees and blobs, index   *)
(* and working tree are left out (Repo, IndexTxn have them), and so is     *)
(* that two commits with equal text of the same second are one object.     *)
(***************************************************************************)
EXTENDS Integers, SequencesExt, Processes, CommitGraph

CONSTANTS
    Branch, Main, Tag, HEAD, None,
    Nowhere,      \* a string that names no object
    MaxObjects,   \* bound: objects ever written
    MaxCommands,  \* bound: commands ever started
    MaxCrashes    \* bound: commands that die

ASSUME RefAssumption ==
    /\ Main \in Branch /\ HEAD \notin Branch
    /\ None \notin Nat /\ None \notin Branch /\ None \notin Tag
    /\ Nowhere \notin Nat \cup {None}
    /\ Branch \cap Tag = {} /\ (Branch \cup Tag) \cap Nat = {}

ASSUME CountAssumption == MaxObjects \in Nat /\ MaxCommands \in Nat /\ MaxCrashes \in Nat

VARIABLES
    objects,    \* commits and annotated tags, [type, links]
    refs,       \* refs/heads and refs/tags: name -> object id, or None
    head,       \* HEAD: a branch, or an object id when detached
    mergeHead,  \* MERGE_HEAD: an object id, or None
    logs,       \* the reflogs: branch or HEAD -> entries [old, new]
    proc,       \* what each process is at
    begun, crashes,
    missed,     \* history: the files, refs or logs, that an ignored failure was about
    raced,      \* history: the files that changed under a command that had used them
    settled,    \* history: commits that were in reach when no command ran
    discarded   \* history: commits that a reset of a branch took out of reach

fileVars == <<objects, refs, head, mergeHead, logs>>
history == <<raced, settled, discarded>>
vars == <<fileVars, proc, begun, crashes, missed, history>>
-------------------------------------------------------------------------------
Name == Branch \cup Tag
Ids == DOMAIN objects
Commits == {i \in Ids : objects[i].type = "commit"}

Ref(name) == <<"ref", name>>
Log(name) == <<"log", name>>
Gone(name) == <<"gone", name>>
Taken(name) == <<"taken", name>>

(* The accesses of each command, in the order of the code *)

\* Plausible defect: the merge is forgotten before the branch has its commit.
CommitStepsCleanFirst ==
    <<"readMergeHead", "readHead", "readRef", "takeMergeHead", "writeObject",
      "removeMergeHead", "readHead", "writeRef", "readHead",
      "readRefLog", "writeRefLog", "readHeadLog", "writeHeadLog">>

CommitSteps ==
    <<"readMergeHead", "readHead", "readRef", "takeMergeHead", "writeObject",
      "readHead", "writeRef", "removeMergeHead", "readHead",
      "readRefLog", "writeRefLog", "readHeadLog", "writeHeadLog">>

AmendSteps ==
    <<"refuseMerge", "readHead", "readRef", "writeObject", "readHead", "writeRef",
      "readHead", "readRefLog", "writeRefLog", "readHeadLog", "writeHeadLog">>

\* Plausible defect: the reflog is written last, as Commit does.
ResetStepsLogLast ==
    <<"readTarget", "readHead", "readRef", "writeRef", "readRefLog", "writeRefLog",
      "readHeadLog", "writeHeadLog">>

ResetSteps ==
    <<"readTarget", "readHead", "readRef", "readRefLog", "writeRefLog", "writeRef",
      "readHeadLog", "writeHeadLog">>

CheckoutSteps ==
    <<"readHead", "readRef", "readTarget", "writeHead", "readHeadLog", "writeHeadLog">>

CreateSteps ==
    <<"statName", "readHead", "readRef", "writeName", "readNameLog", "writeNameLog">>

\* Plausible defects: the old name goes before HEAD has the new one, or before
\* there is a new one.
RenameStepsMove ==
    <<"readHead", "statName", "readRef", "removeRef", "writeName", "writeHead",
      "readNameLog", "writeNameLog", "readHeadLog", "writeHeadLog">>

RenameStepsHeadLast ==
    <<"readHead", "statName", "readRef", "writeName", "removeRef", "writeHead",
      "readNameLog", "writeNameLog", "readHeadLog", "writeHeadLog">>

RenameSteps ==
    <<"readHead", "statName", "readRef", "writeName", "writeHead",
      "readNameLog", "writeNameLog", "readHeadLog", "writeHeadLog", "removeRef">>

Program == [
    commit   |-> CommitSteps,
    amend    |-> AmendSteps,
    reset    |-> ResetSteps,
    checkout |-> CheckoutSteps,
    create   |-> CreateSteps,
    rename   |-> RenameSteps,
    delete   |-> <<"readHead", "removeName">>,
    tag      |-> <<"statName", "writeName">>,
    annotate |-> <<"statName", "writeObject", "writeName">>,
    untag    |-> <<"removeName">>]

\* A process: its command and position, the argument, and what it has read.
Idle == [cmd |-> "none", pc |-> 1, arg |-> None, head |-> None, old |-> None,
         new |-> None, merge |-> None, log |-> <<>>, uses |-> {}]

At(p, step) == proc[p].cmd # "none" /\ Program[proc[p].cmd][proc[p].pc] = step

Resting == \A p \in Process : proc[p] = Idle

\* On to the next step, with what this one found out.
Go(p, r) ==
    proc' = [proc EXCEPT ![p] = IF r.pc = Len(Program[r.cmd]) THEN Idle
                                ELSE [r EXCEPT !.pc = @ + 1]]

Continue(p) == Go(p, proc[p])

\* The command returns an error.
Fail(p) == proc' = [proc EXCEPT ![p] = Idle]
-------------------------------------------------------------------------------
Parentage == [i \in Ids |-> ToSet(objects[i].links) \ {Nowhere}]

Ancestors(i) == AncestorsIn(Parentage, i)

AncestorsOf(S) == UNION {Ancestors(i) : i \in S \cap Ids}

HeadId == IF head \in Branch THEN refs[head] ELSE head

\* What a branch, a tag or HEAD leads to.
Reachable == AncestorsOf({refs[n] : n \in Name} \cup {HeadId})

Logged ==
    AncestorsOf(UNION {{e.old, e.new} : e \in UNION {ToSet(logs[n]) : n \in Branch \cup {HEAD}}})

Init ==
    /\ objects = <<>>
    /\ refs = [n \in Name |-> None]
    /\ head = Main
    /\ mergeHead = None
    /\ logs = [n \in Branch \cup {HEAD} |-> <<>>]
    /\ proc = [p \in Process |-> Idle]
    /\ begun = 0 /\ crashes = 0 /\ missed = {}
    /\ raced = {} /\ settled = {} /\ discarded = {}
-------------------------------------------------------------------------------
(* Reading *)

ReadMergeHead(p) ==
    /\ At(p, "readMergeHead")
    /\ Go(p, [proc[p] EXCEPT !.merge = mergeHead])
    /\ UNCHANGED fileVars

RefuseMerge(p) ==
    /\ At(p, "refuseMerge")
    /\ IF mergeHead # None THEN Fail(p) ELSE Continue(p)
    /\ UNCHANGED fileVars

\* Commit reads MERGE_HEAD a second time for the parent.
TakeMergeHead(p) ==
    /\ At(p, "takeMergeHead")
    /\ IF proc[p].merge = None THEN Continue(p)
       ELSE IF mergeHead = None THEN Fail(p)
       ELSE Go(p, [proc[p] EXCEPT !.merge = mergeHead])
    /\ UNCHANGED fileVars

\* Branches are created, renamed and deleted from a branch only; the current
\* one is not deleted.
ReadHead(p) ==
    /\ At(p, "readHead")
    /\ IF \/ proc[p].cmd \in {"create", "rename", "delete"} /\ head \notin Branch
          \/ proc[p].cmd = "delete" /\ head = proc[p].arg
       THEN Fail(p)
       ELSE Go(p, [proc[p] EXCEPT !.head = head, !.uses = @ \cup {Ref(HEAD)}])
    /\ UNCHANGED fileVars

\* The commit behind HEAD, as HEAD was read.
ReadRef(p) ==
    /\ At(p, "readRef")
    /\ LET h  == proc[p].head
           id == IF h \in Branch THEN refs[h] ELSE h
       IN IF id = None /\ proc[p].cmd \in {"amend", "create", "rename"} THEN Fail(p)
          ELSE Go(p, [proc[p] EXCEPT !.old = id,
                          !.uses = @ \cup {Ref(IF h \in Branch THEN h ELSE HEAD)}])
    /\ UNCHANGED fileVars

\* checkout and reset take a branch or an object, whose type nobody asks for:
\* what is no commit reads as one without a tree, which a soft reset never needs.
ReadTarget(p) ==
    /\ At(p, "readTarget")
    /\ LET t  == proc[p].arg
           id == IF t \in Branch THEN refs[t] ELSE t
       IN \/ /\ id \in IF proc[p].cmd = "reset" THEN Ids ELSE Commits
             /\ Go(p, [proc[p] EXCEPT !.new = id,
                          !.uses = @ \cup {Ref(t) : b \in {t} \cap Branch}])
          \/ id \notin Commits /\ Fail(p)
    /\ UNCHANGED fileVars

\* A new name must be free; a tag may be forced.
StatName(p) ==
    /\ At(p, "statName")
    /\ \/ /\ refs[proc[p].arg] = None \/ proc[p].arg \in Tag
          /\ Go(p, [proc[p] EXCEPT !.uses = @ \cup {Ref(proc[p].arg)}])
       \/ refs[proc[p].arg] # None /\ Fail(p)
    /\ UNCHANGED fileVars

\* ReflogAppend reads the whole log ...
ReadLog(p, n) ==
    /\ Go(p, [proc[p] EXCEPT !.log = logs[n], !.uses = @ \cup {Log(n)}])
    /\ UNCHANGED fileVars

ReadRefLog(p) ==
    /\ At(p, "readRefLog")
    /\ IF proc[p].head \in Branch THEN ReadLog(p, proc[p].head)
       ELSE Continue(p) /\ UNCHANGED fileVars

ReadNameLog(p) == At(p, "readNameLog") /\ ReadLog(p, proc[p].arg)

ReadHeadLog(p) == At(p, "readHeadLog") /\ ReadLog(p, HEAD)
-------------------------------------------------------------------------------
(* Writing *)

\* Plausible defect: the id is computed, the object is not stored.
WriteObjectNot(p) ==
    /\ At(p, "writeObject") /\ Len(objects) < MaxObjects
    /\ Go(p, [proc[p] EXCEPT !.new = Len(objects) + 1])
    /\ UNCHANGED fileVars

\* HashAndWriteObject: the object of a commit, an amended commit or a tag.  The
\* parents of an amended commit are appended to themselves (commit.go:170); what
\* is no commit has none.
WriteObject(p) ==
    LET r     == proc[p]
        one(id) == IF id = None THEN <<>> ELSE <<id>>
        links == CASE r.cmd = "commit"   -> one(r.old) \o one(r.merge)
                   [] r.cmd = "amend"    ->
                        IF r.old \notin Commits THEN <<>>
                        ELSE objects[r.old].links \o objects[r.old].links
                   [] r.cmd = "annotate" -> one(r.new)
    IN /\ At(p, "writeObject") /\ Len(objects) < MaxObjects
       /\ objects' = Append(objects,
             [type |-> IF r.cmd = "annotate" THEN "tag" ELSE "commit", links |-> links])
       /\ Go(p, [r EXCEPT !.new = Len(objects')])
       /\ UNCHANGED <<refs, head, mergeHead, logs>>

\* updateHead, UpdateRef: the branch HEAD named when it was read, or HEAD.
WriteRef(p) ==
    /\ At(p, "writeRef") /\ Continue(p)
    /\ IF proc[p].head \in Branch
       THEN refs' = [refs EXCEPT ![proc[p].head] = proc[p].new] /\ UNCHANGED head
       ELSE head' = proc[p].new /\ UNCHANGED refs
    /\ UNCHANGED <<objects, mergeHead, logs>>

WriteHead(p) ==
    /\ At(p, "writeHead") /\ Continue(p)
    /\ head' = proc[p].arg
    /\ UNCHANGED <<objects, refs, mergeHead, logs>>

\* A new branch, or a tag.
WriteName(p) ==
    /\ At(p, "writeName") /\ Continue(p)
    /\ refs' = [refs EXCEPT ![proc[p].arg] =
                   IF proc[p].arg \in Tag THEN proc[p].new ELSE proc[p].old]
    /\ UNCHANGED <<objects, head, mergeHead, logs>>

RemoveName(p) ==
    /\ At(p, "removeName") /\ Continue(p)
    /\ refs' = [refs EXCEPT ![proc[p].arg] = None]
    /\ UNCHANGED <<objects, head, mergeHead, logs>>

\* The last step of a rename.
RemoveRef(p) ==
    /\ At(p, "removeRef") /\ Continue(p)
    /\ refs' = [refs EXCEPT ![proc[p].head] = None]
    /\ UNCHANGED <<objects, head, mergeHead, logs>>

RemoveMergeHead(p) ==
    /\ At(p, "removeMergeHead") /\ Continue(p)
    /\ mergeHead' = IF proc[p].merge = None THEN mergeHead ELSE None
    /\ UNCHANGED <<objects, refs, head, logs>>

\* ... and writes it back with one entry more.
WriteLog(p, n, old, new) ==
    /\ Continue(p)
    /\ logs' = [logs EXCEPT ![n] = Append(proc[p].log, [old |-> old, new |-> new])]
    /\ UNCHANGED <<objects, refs, head, mergeHead>>

WriteRefLog(p) ==
    /\ At(p, "writeRefLog")
    /\ IF proc[p].head \in Branch
       THEN WriteLog(p, proc[p].head, proc[p].old, proc[p].new)
       ELSE Continue(p) /\ UNCHANGED fileVars

WriteNameLog(p) ==
    At(p, "writeNameLog") /\ WriteLog(p, proc[p].arg, None, proc[p].old)

WriteHeadLog(p) ==
    /\ At(p, "writeHeadLog")
    /\ WriteLog(p, HEAD, proc[p].old,
                IF proc[p].cmd = "rename" THEN proc[p].old ELSE proc[p].new)
-------------------------------------------------------------------------------
(* Failures the code ignores.  One at which the command returns leaves the    *)
(* files as a crash there does.                                               *)

\* What cannot be read is taken for a file that is not there, and a MERGE_HEAD
\* that cannot be removed stays.
MissRef(p) ==
    /\ \/ /\ At(p, "readHead") /\ proc[p].cmd \in {"commit", "amend", "checkout"}
          /\ Go(p, [proc[p] EXCEPT !.head = None])
       \/ /\ \/ At(p, "readMergeHead") \/ At(p, "refuseMerge") \/ At(p, "statName")
             \/ /\ At(p, "readRef") /\ proc[p].head \in Branch
                /\ proc[p].cmd \in {"commit", "reset", "checkout"}
             \/ At(p, "removeMergeHead") /\ proc[p].merge # None
          /\ Continue(p)
    /\ missed' = missed \cup {"ref"}
    /\ UNCHANGED fileVars

\* ReflogAppend goes on with the part of the log that it could read.
MisreadLog(p) ==
    /\ \E n \in Branch \cup {HEAD} :
          /\ \/ At(p, "readRefLog") /\ n = proc[p].head
             \/ At(p, "readNameLog") /\ n = proc[p].arg
             \/ At(p, "readHeadLog") /\ n = HEAD
          /\ \E k \in 0 .. Len(logs[n]) - 1 :
                Go(p, [proc[p] EXCEPT !.log = SubSeq(logs[n], 1, k), !.uses = @ \cup {Log(n)}])
    /\ missed' = missed \cup {"log"}
    /\ UNCHANGED fileVars

\* commit, amend and reset ignore that it could not write one.
MissLog(p) ==
    /\ \/ At(p, "writeRefLog") /\ proc[p].head \in Branch
       \/ At(p, "writeHeadLog") /\ proc[p].cmd \in {"commit", "amend", "reset"}
    /\ Continue(p)
    /\ missed' = missed \cup {"log"}
    /\ UNCHANGED fileVars
-------------------------------------------------------------------------------
(* Commands *)

Start(p, cmd, arg, new) ==
    /\ proc[p] = Idle /\ begun < MaxCommands
    /\ proc' = [proc EXCEPT ![p] = [Idle EXCEPT !.cmd = cmd, !.arg = arg, !.new = new]]
    /\ begun' = begun + 1
    /\ UNCHANGED <<fileVars, crashes, missed>>

\* A tag takes any string for the commit (tag.go:50, 96-106).
Begin(p) ==
    \/ \E cmd \in {"commit", "amend"} : Start(p, cmd, None, None)
    \/ \E cmd \in {"reset", "checkout"}, t \in Branch \cup Ids : Start(p, cmd, t, None)
    \/ \E cmd \in {"create", "rename", "delete"}, b \in Branch : Start(p, cmd, b, None)
    \/ \E cmd \in {"tag", "annotate"}, t \in Tag, id \in Ids \cup {Nowhere} : Start(p, cmd, t, id)
    \/ \E t \in Tag : refs[t] # None /\ Start(p, "untag", t, None)

Read(p) ==
    \/ ReadMergeHead(p) \/ RefuseMerge(p) \/ TakeMergeHead(p) \/ ReadHead(p) \/ ReadRef(p)
    \/ ReadTarget(p) \/ StatName(p) \/ ReadRefLog(p) \/ ReadNameLog(p) \/ ReadHeadLog(p)

Write(p) ==
    \/ WriteObject(p) \/ WriteRef(p) \/ WriteHead(p) \/ WriteName(p) \/ RemoveName(p)
    \/ RemoveRef(p) \/ RemoveMergeHead(p) \/ WriteRefLog(p) \/ WriteNameLog(p)
    \/ WriteHeadLog(p)

Miss(p) == MissRef(p) \/ MisreadLog(p) \/ MissLog(p)

\* The process dies; at most a temporary file is left behind.
Crash(p) ==
    /\ proc[p] # Idle /\ crashes < MaxCrashes
    /\ crashes' = crashes + 1
    /\ Fail(p)
    /\ UNCHANGED <<fileVars, begun, missed>>

\* The files this step changes or, the refs, creates or removes.
Changed ==
    {Ref(n) : n \in {x \in Name : None \notin {refs[x], refs'[x]} /\ refs[x] # refs'[x]}}
      \cup {Taken(n) : n \in {x \in Name : refs[x] = None /\ refs'[x] # None}}
      \cup {Gone(n) : n \in {x \in Name : refs[x] # None /\ refs'[x] = None}}
      \cup {Ref(HEAD) : h \in {head} \ {head'}}
      \cup {Log(n) : n \in {x \in Branch \cup {HEAD} : logs'[x] # logs[x]}}

Uses(p, f) == (IF f[1] = "log" THEN f ELSE Ref(f[2])) \in proc[p].uses

\* Steps that are meant to give up what the file they write led to ...
Discards(p) ==
    \/ At(p, "writeRef") /\ proc[p].cmd \in {"amend", "reset"}
    \/ At(p, "writeHead") /\ proc[p].head \notin Branch
    \/ At(p, "writeName") /\ proc[p].arg \in Tag
    \/ At(p, "removeName")

\* ... and what that is.
GivenUp ==
    LET changed == {n \in Name : refs'[n] # refs[n]}
    IN AncestorsOf({refs[n] : n \in changed} \cup ({head} \ Branch))
         \ AncestorsOf({refs'[n] : n \in changed} \cup ({head'} \ Branch))

\* What the properties remember of a step of p.
Remember(p) ==
    /\ raced' = raced \cup
          {f \in Changed : \E q \in Process \ {p} : Uses(q, f)}
    /\ settled' = (IF Discards(p) THEN settled \ GivenUp ELSE settled)
                    \cup (IF Resting' THEN Reachable' ELSE {})
    /\ discarded' = IF At(p, "writeRef") /\ proc[p].cmd = "reset" /\ proc[p].head \in Branch
                    THEN discarded \cup (Reachable \ Reachable') ELSE discarded

Next ==
    \E p \in Process :
        /\ \/ Begin(p)
           \/ (Read(p) \/ Write(p)) /\ UNCHANGED <<begun, crashes, missed>>
           \/ Miss(p) /\ UNCHANGED <<begun, crashes>>
           \/ Crash(p)
        /\ Remember(p)

Spec == Init /\ [][Next]_vars
-------------------------------------------------------------------------------
\* However commands interleave, fail or die, no branch, HEAD, MERGE_HEAD, reflog
\* entry or commit ever names an object that is not there: objects are written
\* before their ids (commit.go:116).  A tag, lightweight or annotated, may, for
\* nobody looks up what it is given (tag.go:50, 96-106).
TypeOK ==
    /\ \A i \in Ids : /\ objects[i].type \in {"commit", "tag"}
                      /\ ToSet(objects[i].links) \ {Nowhere} \subseteq 1 .. i - 1
                      /\ Nowhere \in ToSet(objects[i].links) => objects[i].type = "tag"
    /\ refs \in [Name -> Ids \cup {None, Nowhere}]
    /\ \A b \in Branch : refs[b] # Nowhere
    /\ head \in Branch \cup Ids
    /\ mergeHead \in Ids \cup {None}
    /\ \A n \in Branch \cup {HEAD} : \A e \in ToSet(logs[n]) :
            e.old \in Ids \cup {None} /\ e.new \in Ids

\* HEAD resolves to an object at every step of every command, so that a command
\* that dies anywhere leaves a repository the next one can work in - unless a
\* file changed under a command that had read or written it, or could not be
\* read by one that took it for missing (commit.go:58, 216; branch.go:88, 200).
HeadResolves ==
    raced = {} /\ "ref" \notin missed /\ (\E b \in Branch : refs[b] # None)
        => HeadId # None

\* Commits in reach when no command ran stay in reach, whatever commands run at
\* once or die, but for those a command is meant to discard: racing commits
\* lose each other's work only (commit.go:121).  The exceptions are a branch
\* that is removed under a command that used it (branch.go:240, 259), or created
\* under one that found the name free (branch.go:88, 200), a HEAD that moves:
\* updateHead reads HEAD again (commit.go:215) and may find a branch that its
\* commit does not extend; and the unreadable files of HeadResolves.
SettledKept ==
    raced \cap ({Ref(HEAD)} \cup UNION {{Gone(b), Taken(b)} : b \in Branch}) = {}
      /\ "ref" \notin missed
        => settled \subseteq Reachable

\* reset.go:148: the reflog is written "BEFORE the atomic ref update for crash
\* recovery".  What a reset of a branch takes out of reach can be found from an
\* entry of a reflog, also when the commit and the reset both died half-way -
\* unless two commands rewrote one log at once, or a log or ref could not be read
\* or written and the command went on (helpers.go:559; reset.go:144, 149).
Recoverable == raced = {} /\ missed = {} => discarded \subseteq Reachable \cup Logged

\* The step that removes MERGE_HEAD.
ForgetsConcluded ==
    mergeHead # None /\ mergeHead' = None /\ raced = {} /\ "ref" \notin missed =>
        mergeHead \in AncestorsOf({HeadId})

\* MERGE_HEAD is forgotten only once the commit HEAD leads to has that parent:
\* no crash turns a merge into an ordinary commit (commit.go:121-129).
MergeKept == [][ForgetsConcluded]_vars
===============================================================================
