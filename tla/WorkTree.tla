--------------------------------- MODULE WorkTree ------------------------------
(***************************************************************************)
(* What Repo leaves out of the working tree: directories, the executable   *)
(* bit, the ignore rules, and the size and time an index entry caches -    *)
(* with `add` as the walk it is, which the user's edits interleave with.   *)
(*                                                                         *)
(* A path is a sequence of names; a directory is there while a file is     *)
(* below it.  Symbolic links, unmerged entries and unsafe paths are left   *)
(* out.  Every change has a time of its own: the clock of the file system  *)
(* is taken to tick between two writes.                                    *)
(***************************************************************************)
EXTENDS Integers, FiniteSets, SequencesExt

CONSTANTS
    Path,      \* the paths a file may have
    Dir,       \* the name .kitcat
    StartsWith(_, _),  \* whether a name begins with the text of another
    Blob, Size(_), Star, None,
    Patterns,  \* what a line of .kitignore may be
    MaxClock,  \* bound: changes made to files, modes and .kitignore
    MaxLines   \* bound: lines of .kitignore

ASSUME PathAssumption ==
    /\ \A p \in Path : /\ p \in Seq(UNION {Range(q) : q \in Path}) \ {<<>>}
                      /\ p[1] # Dir
    /\ None \notin Blob /\ None \notin Path
    /\ \A b \in Blob : Size(b) \in Nat

\* None is no entry of an index, and nothing that Lstat returns.
ASSUME NoneAssumption ==
    /\ None \notin [blob : Blob, exec : BOOLEAN, size : Nat, mtime : Nat]
    /\ None \notin [path : Path, exec : BOOLEAN, size : Nat, mtime : Nat]

ASSUME WorkBoundAssumption == MaxClock \in Nat /\ MaxLines \in Nat

VARIABLES
    work,    \* the disk: path -> [blob, exec, mtime], or None
    index,   \* path -> [blob, exec, size, mtime], or None
    tree,    \* the tree of HEAD: path -> [blob, exec], or None
    ignore,  \* .kitignore: a set of patterns
    clock,   \* the time of the last change
    adding   \* the `add` under way, or None

vars == <<work, index, tree, ignore, clock, adding>>
-------------------------------------------------------------------------------
Below(dir) == {p \in Path : IsStrictPrefix(dir, p)}

IsFile(p) == p \in Path /\ work[p] # None

IsDir(x) == \E p \in Below(x) : work[p] # None

\* What a directory lists.
Entries(dir) == {SubSeq(p, 1, Len(dir) + 1) : p \in {q \in Below(dir) : work[q] # None}}

OnDisk == {p \in Path : work[p] # None}

Tracked == {p \in Path : index[p] # None}

\* No path above is a file, and nothing is below.
Free(p) == ~IsDir(p) /\ \A q \in OnDisk : ~IsStrictPrefix(q, p)

\* The tree of an index (WriteTree), and the index of a tree (ReadTree), whose
\* entries have no size and no time.
WriteTree(ix) ==
    [p \in Path |-> IF ix[p] = None THEN None
                    ELSE [blob |-> ix[p].blob, exec |-> ix[p].exec]]

EntryOf(e) == [blob |-> e.blob, exec |-> e.exec, size |-> 0, mtime |-> 0]

ReadTree(t) == [p \in Path |-> IF t[p] = None THEN None ELSE EntryOf(t[p])]
-------------------------------------------------------------------------------
(* .kitignore *)

\* filepath.Match, a name at a time; * is Star.
Match(glob, path) ==
    Len(glob) = Len(path) /\ \A i \in DOMAIN glob : glob[i] \in {path[i], Star}

\* The text of one path begins with the text of another: of the last name, the
\* beginning is enough.
HasPrefix(path, prefix) ==
    prefix # <<>> => /\ Len(prefix) <= Len(path)
                     /\ IsPrefix(Front(prefix), path)
                     /\ StartsWith(path[Len(prefix)], Last(prefix))

\* "d/", a glob, or "prefix/**/suffix": d/** matches what is in dx as well.
Matches(path, pattern) ==
    CASE pattern.kind = "dir"  -> IsPrefix(pattern.path, path)
      [] pattern.kind = "glob" ->
            Match(pattern.path, <<Last(path)>>) \/ Match(pattern.path, path)
      [] pattern.kind = "deep" ->
            /\ HasPrefix(path, pattern.prefix)
            /\ \/ pattern.suffix = <<>>
               \/ \E i \in DOMAIN path :
                     \/ Match(pattern.suffix, SubSeq(path, i, Len(path)))
                     \/ Match(pattern.suffix, <<path[i]>>)

\* Plausible defect: tracked files are not exempt.
ShouldIgnoreAll(path, patterns, tracked) ==
    \E pattern \in patterns : Matches(path, pattern)

ShouldIgnore(path, patterns, tracked) ==
    path \notin tracked /\ \E pattern \in patterns : Matches(path, pattern)
-------------------------------------------------------------------------------
Init ==
    /\ work = [p \in Path |-> None]
    /\ index = [p \in Path |-> None]
    /\ tree = [p \in Path |-> None]
    /\ ignore = {}
    /\ clock = 0
    /\ adding = None

\* Whatever the user does shows in an add that is under way.
Disturbed == IF adding = None THEN None ELSE [adding EXCEPT !.quiet = FALSE]

Edit(p, blob) ==
    /\ Free(p) /\ clock < MaxClock /\ clock' = clock + 1
    /\ work' = [work EXCEPT ![p] =
                   [blob |-> blob, mtime |-> clock', exec |-> IsFile(p) /\ work[p].exec]]
    /\ adding' = Disturbed
    /\ UNCHANGED <<index, tree, ignore>>

Delete(p) ==
    /\ IsFile(p)
    /\ work' = [work EXCEPT ![p] = None]
    /\ adding' = Disturbed
    /\ UNCHANGED <<index, tree, ignore, clock>>

\* chmod leaves the time of the last write alone.
Chmod(p) ==
    /\ IsFile(p) /\ clock < MaxClock /\ clock' = clock + 1
    /\ work' = [work EXCEPT ![p].exec = ~@]
    /\ adding' = Disturbed
    /\ UNCHANGED <<index, tree, ignore>>

WriteIgnore(patterns) ==
    /\ Cardinality(patterns) <= MaxLines
    /\ clock < MaxClock /\ clock' = clock + 1
    /\ ignore' = patterns
    /\ adding' = Disturbed
    /\ UNCHANGED <<work, index, tree>>
-------------------------------------------------------------------------------
(***************************************************************************)
(* AddFile and AddAll: index is the map UpdateIndex works on, proxy its    *)
(* paths at the start, todo what the walk has listed and not visited, file *)
(* the file between its Lstat and its ReadFile.                            *)
(***************************************************************************)
Stat(p) == [path |-> p, exec |-> work[p].exec,
            size |-> Size(work[p].blob), mtime |-> work[p].mtime]

StartAdd(all, file, todo) ==
    /\ adding = None
    /\ adding' = [all |-> all, index |-> index, proxy |-> Tracked, ignore |-> ignore,
                  todo |-> todo, file |-> file, seen |-> {}, quiet |-> TRUE]
    /\ UNCHANGED <<work, index, tree, ignore, clock>>

\* The directory itself is not held against the rules.
AddFile(x) ==
    \/ IsFile(x) /\ StartAdd(FALSE, Stat(x), {})
    \/ IsDir(x) /\ StartAdd(FALSE, None, Entries(x))

AddAll == StartAdd(TRUE, None, Entries(<<>>))

\* The walk comes to what a directory listed: a file, a directory, or nothing
\* any more, which fails the command.
Visit(x) ==
    /\ adding # None /\ adding.file = None /\ x \in adding.todo
    /\ LET left == adding.todo \ {x}
       IN \/ /\ IsFile(x)
             /\ adding' = [adding EXCEPT !.todo = left, !.file = Stat(x)]
          \/ /\ IsDir(x) /\ ~IsFile(x)
             /\ adding' = [adding EXCEPT !.todo =
                    IF ShouldIgnore(x, adding.ignore, adding.proxy)
                    THEN left ELSE left \cup Entries(x)]
          \/ ~IsDir(x) /\ ~IsFile(x) /\ adding' = None
    /\ UNCHANGED <<work, index, tree, ignore, clock>>

\* Plausible defect: a file of the same size is taken for the same.
UnchangedSize(entry, file) == entry # None /\ entry.size = file.size

\* Size and time stand for the content.
Unchanged(entry, file) ==
    entry # None /\ entry.size = file.size /\ entry.mtime = file.mtime

\* What ReadFile finds goes with what Lstat said; a file that is gone fails
\* the command.
Staged(f) ==
    IF IsFile(f.path)
    THEN [adding EXCEPT !.file = None, !.seen = @ \cup {f.path}, !.index[f.path] =
             [blob |-> work[f.path].blob, exec |-> f.exec, size |-> f.size, mtime |-> f.mtime]]
    ELSE None

\* Plausible defect: the cached time is brought up to date without a new hash.
StageFileRefresh ==
    /\ adding # None /\ adding.file # None
    /\ LET f == adding.file
           same == UnchangedSize(adding.index[f.path], f)
       IN \/ /\ ShouldIgnore(f.path, adding.ignore, adding.proxy)
             /\ adding' = [adding EXCEPT !.file = None]
          \/ /\ ~ShouldIgnore(f.path, adding.ignore, adding.proxy)
             /\ adding' = IF same THEN [adding EXCEPT !.file = None, !.seen = @ \cup {f.path},
                                                     !.index[f.path].mtime = f.mtime]
                          ELSE Staged(f)
    /\ UNCHANGED <<work, index, tree, ignore, clock>>

\* stageFile.
StageFile ==
    /\ adding # None /\ adding.file # None
    /\ LET f == adding.file
           same == Unchanged(adding.index[f.path], f)
       IN \/ /\ ShouldIgnore(f.path, adding.ignore, adding.proxy)
             /\ adding' = [adding EXCEPT !.file = None]
          \/ /\ ~ShouldIgnore(f.path, adding.ignore, adding.proxy)
             /\ adding' = IF same THEN [adding EXCEPT !.file = None, !.seen = @ \cup {f.path}]
                          ELSE Staged(f)
    /\ UNCHANGED <<work, index, tree, ignore, clock>>

\* AddAll drops the entries the walk has not come to.
FinishAdd ==
    /\ adding # None /\ adding.file = None /\ adding.todo = {}
    /\ index' = [p \in Path |-> IF adding.all /\ p \notin adding.seen THEN None
                                ELSE adding.index[p]]
    /\ adding' = None
    /\ UNCHANGED <<work, tree, ignore, clock>>
-------------------------------------------------------------------------------
(* Other commands, which find no add under way *)

Commit ==
    /\ adding = None
    /\ tree' = WriteTree(index)
    /\ UNCHANGED <<work, index, ignore, clock, adding>>

\* `reset`: the index of HEAD, once there is a commit.
ResetMixed ==
    /\ adding = None /\ \E p \in Path : tree[p] # None
    /\ index' = ReadTree(tree)
    /\ UNCHANGED <<work, tree, ignore, clock, adding>>

\* Plausible defect: a path that is no file needs no care.
CheckoutFileOver(p) ==
    /\ adding = None /\ tree[p] # None
    /\ IsFile(p) => index[p] # None /\ index[p].blob = work[p].blob
    /\ clock < MaxClock /\ clock' = clock + 1
    /\ work' = [work EXCEPT ![p] =
                   [blob |-> tree[p].blob, mtime |-> clock', exec |-> tree[p].exec]]
    /\ index' = [index EXCEPT ![p] = EntryOf(tree[p])]
    /\ UNCHANGED <<tree, ignore, adding>>

\* `checkout -- <path>`; the file keeps its mode when it is there.
CheckoutFile(p) ==
    /\ adding = None /\ tree[p] # None /\ Free(p)
    /\ IsFile(p) => index[p] # None /\ index[p].blob = work[p].blob
    /\ clock < MaxClock /\ clock' = clock + 1
    /\ work' = [work EXCEPT ![p] =
                   [blob |-> tree[p].blob, mtime |-> clock',
                    exec |-> IF IsFile(p) THEN work[p].exec ELSE tree[p].exec]]
    /\ index' = [index EXCEPT ![p] = EntryOf(tree[p])]
    /\ UNCHANGED <<tree, ignore, adding>>

\* Plausible defect: an untracked directory is not looked into.
CleansBlind(x, dirs, ignored, only) ==
    /\ IF ShouldIgnore(x, ignore, Tracked) THEN ignored \/ only ELSE ~only
    /\ \/ IsFile(x) /\ x \notin Tracked
       \/ IsDir(x) /\ dirs

\* What `clean` removes, of what it comes to: untracked files, and with -d the
\* directories that hold no tracked file, whole.
Cleans(x, dirs, ignored, only) ==
    /\ IF ShouldIgnore(x, ignore, Tracked) THEN ignored \/ only ELSE ~only
    /\ \/ IsFile(x) /\ x \notin Tracked
       \/ IsDir(x) /\ dirs /\ Below(x) \cap Tracked = {}

\* The walk does not enter an ignored directory unless -x or -X is given.
Clean(dirs, ignored, only) ==
    LET Enters(d)  == ignored \/ only \/ ~ShouldIgnore(d, ignore, Tracked)
        Removed(p) == \E i \in DOMAIN p :
                         /\ Cleans(SubSeq(p, 1, i), dirs, ignored, only)
                         /\ \A j \in 1 .. i - 1 : Enters(SubSeq(p, 1, j))
    IN /\ adding = None
       /\ work' = [p \in Path |-> IF Removed(p) THEN None ELSE work[p]]
       /\ UNCHANGED <<index, tree, ignore, clock, adding>>

User ==
    \/ \E p \in Path : (\E b \in Blob : Edit(p, b)) \/ Delete(p) \/ Chmod(p)
    \/ \E S \in SUBSET Patterns : WriteIgnore(S)

Add ==
    \/ \E x \in Path \cup {SubSeq(p, 1, 1) : p \in Path} : AddFile(x)
    \/ AddAll
    \/ (\E x \in IF adding = None THEN {} ELSE adding.todo : Visit(x))
    \/ StageFile \/ FinishAdd

Next ==
    \/ User \/ Add \/ Commit \/ ResetMixed
    \/ \E p \in Path : CheckoutFile(p)
    \/ \E dirs, ignored, only \in BOOLEAN : Clean(dirs, ignored, only)

Spec == Init /\ [][Next]_vars
-------------------------------------------------------------------------------
(* What Status lists, and IsWorkDirDirty *)

\* The scan of Status skips .kitcat, and every path that begins like it.
Overlooked(p) == HasPrefix(p, <<Dir>>)

\* Plausible defect: a file of the right size is not read.
ModifiedSize(p) ==
    /\ index[p] # None /\ IsFile(p) /\ ~Overlooked(p)
    /\ Size(work[p].blob) # index[p].size \/ work[p].exec # index[p].exec

\* The size is compared before the content.
Modified(p) ==
    /\ index[p] # None /\ IsFile(p) /\ ~Overlooked(p)
    /\ \/ Size(work[p].blob) # index[p].size
       \/ work[p].blob # index[p].blob
       \/ work[p].exec # index[p].exec

\* A path below a file is not taken for deleted: what Stat returns of it is
\* ENOTDIR, which is no os.IsNotExist.
Deleted(p) == index[p] # None /\ ~IsFile(p) /\ Free(p)

\* Files are held against the rules one by one, as if none was tracked.
Untracked(p) ==
    /\ index[p] = None /\ IsFile(p) /\ ~Overlooked(p)
    /\ ~ShouldIgnore(p, ignore, {})

Uncommitted == {p \in Path : WriteTree(index)[p] # tree[p]}

NothingToCommit ==
    Uncommitted = {} /\ \A p \in Path : ~(Modified(p) \/ Deleted(p) \/ Untracked(p))

BlobsOf(t) == [p \in Path |-> IF t[p] = None THEN None ELSE t[p].blob]

Dirty ==
    \/ BlobsOf(WriteTree(index)) # BlobsOf(tree)
    \/ \E p \in Tracked : IsFile(p) /\ work[p].blob # index[p].blob
-------------------------------------------------------------------------------
TypeOK ==
    /\ \A p \in OnDisk : /\ work[p].blob \in Blob /\ work[p].exec \in BOOLEAN
                         /\ work[p].mtime \in 1 .. clock
                         /\ \A q \in OnDisk \ {p} : ~IsPrefix(p, q) /\ work[p].mtime # work[q].mtime
    /\ \A p \in Tracked : /\ index[p].blob \in Blob /\ index[p].exec \in BOOLEAN
                          /\ index[p].mtime \in 0 .. clock /\ index[p].size \in Nat
    /\ \A p \in Path : tree[p] = None \/ tree[p].blob \in Blob
    /\ ignore \subseteq Patterns
    /\ adding # None => adding.seen \subseteq {p \in Path : adding.index[p] # None}

\* An entry with the size and the time of the file has its content, so that add
\* may skip the hash (add.go:239) - whatever the user did to the file between
\* Lstat and ReadFile, and however the entry came about.
StatHonest ==
    \A p \in Tracked \cap OnDisk :
        index[p].size = Size(work[p].blob) /\ index[p].mtime = work[p].mtime
            => index[p].blob = work[p].blob

Edited(p) == index[p] # None /\ IsFile(p) /\ work[p].blob # index[p].blob

\* What makes IsWorkDirDirty refuse a checkout, status shows - all but one thing:
\* an edited file with a path like .kitcatconfig, which the scan of status skips
\* (status.go:94) and the dirty check (helpers.go:256) does not.
DirtyShows ==
    Dirty => ~NothingToCommit \/ \E p \in Path : Overlooked(p) /\ Edited(p)

Directories(p) == {SubSeq(p, 1, i) : i \in 1 .. Len(p) - 1}

\* The files of a directory that AddAll does not enter.
Hidden(p) == \E d \in Directories(p) : ShouldIgnore(d, ignore, Tracked)

AllAdded == adding # None /\ adding.all /\ adding.quiet /\ FinishAdd

\* What an add -A that nobody disturbs leaves in the index.
StagesAll ==
    AllAdded =>
      \A p \in Path :
        IF IsFile(p) /\ ~Hidden(p) /\ ~ShouldIgnore(p, ignore, Tracked)
        THEN /\ index'[p] # None /\ index'[p].blob = work[p].blob
             /\ index'[p].exec = work[p].exec \/ Unchanged(index[p], Stat(p))
        ELSE index'[p] = None

\* add.go:108: AddAll "stages every file under the repository root", removes
\* what "no longer exists", and leaves an index that is a tree (no entry below
\* another), with the content of every file, stat cache or not.  Only a chmod
\* goes unnoticed, and only when size and time stand as the index has them.
AddAllComplete == [][StagesAll]_vars

\* What it leaves of a clean working tree: the index as it is.
StagesNothing ==
    AllAdded /\ NothingToCommit /\ (\A p \in Tracked : IsFile(p) /\ ~Hidden(p)) =>
        \A p \in Path : Overlooked(p) \/ WriteTree(index')[p] = WriteTree(index)[p]

\* When status says "nothing to commit, working tree clean", add -A stages
\* nothing - but for tracked files that AddAll cannot see, being in an ignored
\* directory or having a file or a directory in their way, and for the files that
\* status cannot see (status.go:94), with paths like .kitcatconfig: add knows
\* .kitcat by its whole name (add.go:291).
CleanAddsNothing == [][StagesNothing]_vars

\* What clean may remove.
CleanSpares ==
    \A p \in OnDisk, dirs, ignored, only \in BOOLEAN :
      work'[p] = None /\ Clean(dirs, ignored, only) =>
        /\ p \notin Tracked
        /\ \/ ignored \/ only \/ ~ShouldIgnore(p, ignore, Tracked)
           \/ dirs /\ \E d \in Directories(p) : Below(d) \cap Tracked = {}

\* README.md:533: clean "removes untracked files".  Never a tracked one, and
\* without -x or -X an ignored one only as part of a directory that is removed
\* whole (clean.go:84).
CleanKeeps == [][CleanSpares]_vars

\* README.md:716: "a tracked file will never be ignored even if it matches a
\* pattern in .kitignore": no add takes a file that is there from the index.
TrackedNeverIgnored ==
    [][ adding # None /\ adding.quiet /\ FinishAdd =>
          \A p \in Tracked : IsFile(p) => index'[p] # None ]_vars
===============================================================================
