# kitcat in TLA+

This directory is a verification development for kitcat, a clone of Git in Go.
It holds TLA+ modules that model the program's state and commands, TLC
configurations that check them on small instances, and proofs, checked by TLAPS,
of what holds for every instance.  File and line references are to
`src/internal/` unless they say otherwise.

## 1. The system

kitcat is a command-line program.  A command is one process: it reads and writes
files under `.kitcat/` and the working tree, and exits.  There is no server and
no goroutine.  Concurrency means several commands running at once on the same
repository; recovery means whatever the next command finds after one that died.

| Component | State | Operations | Correct when |
|---|---|---|---|
| Object store (`plumbing/hash_object.go`, `write_tree.go`, `write_commit.go`, `storage/adaptor.go`, `storage/tree.go`) | `.kitcat/objects`, content-addressed | write and read blobs, trees, commits | no id in use names a missing object |
| Refs and HEAD (`core/branch.go`, `core/helpers.go`, `core/reset.go`) | `refs/heads/*`, `HEAD` | create, rename, delete, move | HEAD keeps resolving; no commit is lost but by the commands meant to |
| Index (`storage/index.go`, `plumbing/read_index.go`, `update_index.go`) | `.kitcat/index` | load; read-modify-write under a lock; rewrite from a tree | updates are atomic and none is lost |
| File locks (`storage/lockUnix.go`, `lockOther.go`) | `<file>.lock` | `lock`, `unlock` | one process at a time, and every call returns |
| Working tree commands (`core/add.go`, `remove.go`, `move.go`, `clean.go`, `checkout.go`, `reset.go`) | files, index with cached sizes and times | add, rm, mv, clean, checkout, reset | no unsaved work is lost by a command that promises to keep it; HEAD moves last; the cache never hides a change |
| Commits (`core/commit.go`) | objects, refs, `MERGE_HEAD` | commit, commit -a, commit --amend | right parents; no unmerged content |
| Merge (`core/merge.go`, `merge/engine.go`, `merge/apply.go`, `merge/merge3.go`) | `MERGE_HEAD`, index stages | merge, merge --abort | three-way merge of the trees; unmerged entries live inside a merge only, and its commit has both parents |
| Stash (`core/stash.go`, `storage/stash_store.go`) | `stash.log` | push, apply, pop, drop, clear | what leaves the disk is in the entry; entries neither vanish nor reorder |
| Rebase (`core/rebase.go`, `rebase_state.go`, `revwalk.go`) | `rebase-merge/*` | rebase, --continue, --abort | every commit replayed once, abort restores |
| Text merge (`merge/merge3.go`, `diff/myers.go`) | none | diff, three-way merge of lines | a shortest diff; a merge that loses nothing and conflicts only where edits meet |
| Reflog (`core/helpers.go:533`) | `logs/*` | append | what a reset discards can be found again |
| Tags (`core/tag.go`) | `refs/tags/*` | create, delete | they name stored objects, if what they are given does |
| Ignore rules (`core/ignore.go`) | `.kitignore` | match | tracked files are exempt |
| Status (`core/status.go`, `core/helpers.go:212`) | none | compare HEAD, index and disk | it shows what would block a checkout and what add would stage, of the paths that it looks at |
| Config (`core/config.go`) | config files | get, set | - |
| Log, show, diff, grep, ls | none | print | - |
| Command line (`src/cmd`) | none | parse arguments, call `core` | - |

How they meet.  All commands share the files above and call one another's
helpers.  `CheckoutTree` (core/reset.go:81) is under checkout, reset, merge
(fast-forward and abort) and stash; `WriteIndexFromTree` follows it; the ref
write comes last.  `MergeTrees` computes a plan, `ApplyMergePlan` carries it out
inside a callback of `UpdateIndex`, that is, under the index lock.  Merge and
Commit talk through the file `MERGE_HEAD`, which any command may run in between.
The index and the stash log are the only files written under a lock; refs, HEAD
and the reflog are not.

What is hard.

- *Order of writes and partial failure*: each command orders disk, index and ref
  by hand, and can fail between any two of them.
- *Protocols across commands*: a merge spans several commands; reset, checkout,
  stash and rename may come in the middle.
- *Lock files that are removed*: `unlock` unlinks the file, with flock or O_EXCL.
- *Files without a lock*: two commands read and write refs, HEAD, `MERGE_HEAD`
  and reflogs as they like; each file is replaced in one step, and nothing more.
- *Reads outside a lock used inside it*: the stash log.
- *Stat, then read*: the user writes to a file while add looks at it, and the
  cached size and time stand for the content afterwards.
- *Errors that are ignored*: a command goes on with a file that it could not read,
  or without a log that it could not write.
- *Crashes*: a torn index, a stale lock file, a half-done rebase, a commit or a
  reset that ends between two files.
- *Boundaries*: regions of a text merge, padding of the index.

The list of hazards, each at its line and with the properties that cover it, is
in `PROJECT.json`.

## 2. The modules

| Module | What it is | Code |
|---|---|---|
| `MergeEngine` | the operators of the tree merge: `Side`, `Chosen`, `MergeTrees` | merge/engine.go |
| `MergePlanner` | a planner that runs once on any three trees, and what its plan owes them | merge/engine.go |
| `AlgorithmProofs` | all four properties of the planner, the round trip of the index, where texts conflict and that their merge is symmetric | |
| `Repo` | the repository under its commands, one at a time | core/*, merge/apply.go, storage/*, plumbing/* |
| `RepoProofs` | the three invariants and the five action properties of `Repo` | |
| `CommitGraph` | what a walk over the commit graph meets, shared by `Repo` and `RefStore` | storage/adaptor.go |
| `CommitGraphProofs` | it is the closure of the parent relation, and how it behaves when commits are added | |
| `Mutex` | what the callers of a lock rely on | |
| `ExclLock` | the O_EXCL lock, with timeouts and crashes | storage/lockOther.go |
| `FlockLock` | the flock lock, with the unlink | storage/lockUnix.go |
| `IndexTxn` | the critical sections of the index file | storage/index.go, plumbing/update_index.go, read_index.go |
| `IndexRegister` | the abstract index: one value, changed atomically | |
| `OtherIndex` | `IndexTxn` under `ExclLock`, shown to implement `IndexRegister` | |
| `OtherIndexProofs` | the proof of that refinement; `ExclLock` implements `Mutex`, and a stale lock file stays | |
| `StashStore` | the stash log under several commands, over the abstract `Mutex` | storage/stash_store.go, core/stash.go |
| `UnixStash` | `StashStore` under `FlockLock`, with crashes | storage/lockUnix.go |
| `UnixStashProofs` | the log keeps its order and is one command's whole outcome while no two rewrites overlap | |
| `Rebase` | the rebase sequencer on a `Repo`, with crashes and failed saves | core/rebase.go, rebase_state.go, revwalk.go |
| `RebaseProofs` | unmerged entries belong to a merge or a rebase; nothing is skipped; an abort goes back | |
| `RefStore` | objects, refs, HEAD, `MERGE_HEAD` and reflogs, one access of a command at a time | core/commit.go, branch.go, tag.go, checkout.go, reset.go, helpers.go |
| `WorkTree` | directories, modes, ignore rules, the stat cache; add as a walk, clean, status | core/add.go, ignore.go, clean.go, status.go, checkout.go |
| `RefStoreProofs` | no id dangles but in a tag, HEAD resolves, nothing settled is lost, for any number of processes, crashes and failures | |
| `WorkTreeProofs` | the stat cache is honest; add -A is complete, clean removes what it may, status shows what blocks | |
| `EditScript` | edit scripts, and what a shortest one is | diff/myers.go |
| `LineDiff` | the bisecting diff | diff/myers.go |
| `TextMerge` | the three-way merge of texts over any diff, and what it owes them | merge/merge3.go |
| `IndexCodec` | the bytes of the index, written and read | plumbing/update_index.go, read_index.go |
| `Processes` | the set of processes, shared by locks, index, stash and refs | |
| `MCAlgorithms`, `MCRepo`, `MCRebase`, `MCRefStore`, `MCWorkTree` | symmetry sets, initial states and scopes of the runs | |

Definitions called "plausible defect" in a comment are never used by a
specification.  Each is the mutated form of the definition after it: put in its
place, it makes TLC find the property that `PROJECT.json` names violated.

### Repo

State and code:

- `commits` is the object store as far as commits go.  A commit is named by its
  position; writing one that exists yields the old id, as content addressing
  does.  A tree is a function from paths to blobs.
- `refs`, `head` are `refs/heads` and `HEAD`; `HeadId` is what `GetLastCommit`,
  `readHead` and `GetHeadCommit` compute from them.
- `index` maps a path to a blob and a stage (0, or the 2 that `ApplyMergePlan`
  uses for a conflict).  `work` is the disk.
- `mergeHead` is `MERGE_HEAD`; `stash` is the stash log, newest first.
- `Zero` is the id that `HexToHash("")` returns: when our side of a conflict has
  deleted the path, apply.go:82-88 writes it into the index.  It can reach a tree
  from there, and `Readable` then fails.

One action per command: `AddFile`, `AddAll`, `RemoveFile`, `MoveFile`, `Clean`,
`UnstageFile`, `Commit`, `CommitAll`, `AmendCommit`, `CreateBranch`,
`RenameCurrentBranch`, `DeleteBranch`, `Checkout`, `CheckoutFile`, `Reset`,
`Merge`, `MergeAbort`, `StashPush`, `StashApply`, `StashPop`, `StashDrop`,
`StashClear`, and `Edit` for the user.  A command that refuses changes nothing
and is a guard that does not hold; one that fails halfway is modelled with what
it has done by then: `CheckoutTree` and `ThreeWayMerge` lay down any subset of
the files they could read (Go ranges over maps in any order), and the index and
refs stay.

Left out, and why: directories, file modes, ignore rules and the stat cache, which
`WorkTree` has (`Dirty` compares contents), messages, dates and authors (equal
commits coincide more often than in the program), binary files.  The text of a
conflict is any content.  Which of several merge bases is taken is any one of them
(core/helpers.go:38 takes the smallest hash, and the model has no order of hashes).
`Init` is the state after `kitcat init`, before anything is added; `.kitignore`,
which init writes, counts as ignored.  Commands run to their end: what other
processes and crashes may see in between is in `RefStore`, `IndexTxn` and
`StashStore`.  `kitcat merge x` on the command line never parses its arguments
(src/cmd/merge.go), so the model, as the integration tests, starts at `core.Merge`.

### Rebase

`Rebase` extends `Repo` by the directory `rebase-merge/` and the process that
works on it.  Between processes (`at = "idle"`) every command of `Repo` may run.

- `state` is what `LoadRebaseState` makes of the files on disk, `mem` the
  `RebaseState` of the running process, `stopped` the file `stopped-sha`.  `step`
  counts from 1, as `msgnum` does.  `replayed`, `before` and `cut` are history, for
  the properties only: the entries committed, where HEAD was, and whether a rebase
  died at a conflict before it wrote `stopped-sha`.
- `at` is the next write of the running process: `"onto"` (the hard reset of
  `Rebase`), `"resume"`, `"resumed"` (the commit of a resolved entry, the removal
  of `stopped-sha`), `"replay"`, `"commit"`, `"stop"`, `"save"` (the loop),
  `"clear"`.
- `Pick` is one turn of the loop up to its first write after the merge; it uses
  the `ApplyMergePlan` of `Repo`, as the code shares that of `merge`.
- `Crash` ends the process before any of these writes, and inside `SaveRebaseState`
  and `ClearRebaseState`: `Damage` names the files that may be empty or gone, and
  `Without` what `LoadRebaseState` then returns, which takes a file it cannot read
  for an empty one.  `SaveFails` is a save that returns an error: the callers
  ignore it.
- An empty `orig-head` or `stopped-sha` makes abort or continue panic (both slice
  a hash to seven characters); they are then not enabled.

Left out: `head-name`, `onto` and `message` when damaged (nothing reads them but
output), todo lines a user types that name no commit of the list or an unknown
action, authors and dates, a crash inside a commit or a tree merge.

### Locks, index and stash

`ExclLock` and `FlockLock` have one action per system call that others can
observe.  In `FlockLock` a file is an inode: `dirEntry` is the one that has the
name, `fd` the one a process has open, `flock` its lock.  `Release` and `Remove`
are the two halves of `unlock`.

`IndexTxn` names a change by the process whose callback makes it; the file holds
the changes since its last rewrite.  `Truncate` and `Fill` are the two halves of
`os.WriteFile`, and `torn` is the file in between, which `ReadIndex` refuses.
`OpenFails` and `FillFails` are its errors: the file is as it was, or it is what the
truncation and a part of the bytes made of it.  `cut` is history, for one property:
whether the last write was cut short, by a death or by an error.  The
module knows no lock: `OtherIndex` joins its `Enter`, `Leave` and `Die` with
`Create`, `Unlock` and `Crash` of `ExclLock`.

`StashStore` knows the lock as the abstract `Mutex`, so that what it shows alone is
owed to the code of the log.  `log` and `tmp` are the two files, `seen` the list a
drop read before it asked for the lock, `file` the file a command has open,
whatever its name is by then: a rename or a removal by another process moves or
hides it.  `UnixStash` gives it `FlockLock` in the place of the mutex, which does
not exclude, and lets a command die at any step; `clash` remembers that two
rewrites were under way at once, the one thing that a working lock rules out.  A push
writes its one line whole or not at all.

### Refs, without a lock

In `RefStore` a command is a list of accesses (`CommitSteps`, `RenameSteps`, ...,
`Program`), each one action: a read of HEAD, of a ref, of a log; the write of an
object; a `SafeWrite`, which is one step because it renames a finished file.  The
list is the order of the code, so what the order is for can be tested by changing
it.  `proc` holds what a process has read, and what it uses has been read once and
is not looked at again, as in the code; `updateHead` reads HEAD a second time and
so does the model.  A tag takes any string (`Nowhere` is one that names no
object), and reset and checkout take any object, whose type nobody asks for; a tag
object stands for all that are no commits.  A process may die between any two steps.
An access may fail, too.  Where the command then returns, that is a crash at this
point; where it goes on, it is `MissRef` (a HEAD, branch or `MERGE_HEAD` that cannot
be read is taken for missing, one that cannot be removed stays), `MisreadLog` (a log
is rewritten from the part that could be read) or `MissLog` (a log is not written),
and `missed` remembers which kind of file it was.  `uses` and `raced`
remember which files changed under a command that relied on them, `settled` which
commits were in reach when nothing ran, and `discarded` what a reset took out of
reach: with `missed` four pieces of history, for the properties only.

Left out: trees, index and files (`Repo`, `IndexTxn`), merge, rebase and stash,
which move refs with the same helpers, the removal of a temporary file by a write
that fails, a HEAD or ref of which a read returns a part (they are shorter than what
one read returns), and equal commits of one second that would be one object.

### The working tree

`WorkTree` has what `Repo` abstracts: a path is a sequence of names, a file has a
mode and a time, an index entry a size and a time.  `AddFile` and `AddAll` are
walks: `StartAdd` is the start of the callback, `Visit` the call of the walk for
one entry with the `Lstat` that goes with it, `StageFile` the rest of
`stageFile` with the `ReadFile`, `FinishAdd` the end.  The user's `Edit`,
`Delete`, `Chmod` and `WriteIgnore` may come between any two of them; the walk may
visit in any order, which covers the sorted one of `filepath.Walk`.  `adding.quiet`
says that the user did nothing meanwhile.  Other commands find no add under way:
they would race for the index, and that is `IndexTxn`.

`StartsWith` says whether the text of a name begins with that of another, which is
all that the code's comparisons of strings need: `HasPrefix` lifts it to paths.  The
scan of status skips what begins like `.kitcat` (`Overlooked`; status.go:94), and
`.kitcat/**` in `.kitignore` matches `.kitcatconfig` as well (ignore.go:195).

Left out: symbolic links, unmerged entries, unsafe paths, and `.kitcat` itself, which
no walk stages or removes.  Every change has its own time; on a file system whose
clock is coarser, two writes of one size within a tick are not told apart by this
code.  (Git, which looks again at entries as young as the index, tells them apart.)

### The algorithms

`LineDiff` follows `diffMain`, `diffBisect` and `diffBisectSplit`; `Sweep` is one
round of either search, for all diagonals at once, since a diagonal depends on the
two beside it only, which the round does not change.  `TextMerge` follows `Merge3`:
`Take` and `Grow` draw edits into a region, `Resolve` writes it, `Walk` is a round
of the outer loop and `WalkBase` the whole of it.  A loop is a function of the number
of rounds; each round but the last takes an edit, so `Total` rounds are enough, and
one that finds nothing to do changes nothing.  The diff is the constant `Diff`: of
`DiffLines`, `Merge3` needs that a script starts from its first text and that no
operation is empty (`TextAssumption`).  The run puts `LineDiff`'s `DiffMain` in its
place, and TLC evaluates the assumption with it.  A text that `strings.Split` returns
has at least one line.  `IndexCodec` has the writer of the
code, and, marked external, what git writes beyond it: the extended flags of
version 3 and extension blocks, which read_index.go promises to read.  Sixty bytes
of stat fields and hash are one value.  The checksum is any function of the content
(`SHA1`; a function of its length in the run), since the reader only computes it
again.  `Writes` is a buffer under a loop of writes, `ReadEntry` a round of the
reader's loop; both loops are functions of the number of rounds, and `BlocksEnd` of
the offset.

## 3. The runs

All runs but the violations finish without error.

| Run | Bounds | Properties |
|---|---|---|
| `Algorithms` | all triples of trees on 2 paths, 3 contents, 2 modes; all triples of texts of at most 3 lines over 3 lines, all pairs of texts of 6 lines over 2; all indexes of at most 2 entries with paths of 1 to 8 bytes, 3 stages, with and without extended flags, and at most 2 extension blocks | `OneVerdict`, `ThreeWay`, `Symmetric`, `Absorbs`; `DiffShortest`, `NothingLostInMerge`, `TextSymmetric`, `ConflictsMeet`; `IndexRoundTrip` |
| `Repo` | 2 branches, and one of three scopes: every command on 2 paths, 2 contents, 2 commits, 1 stash entry; 1 path, 1 content, 3 commits; the merge workflow from every pair of diverged branches with 1 path, 3 contents, 4 commits, 1 stash entry | `TypeOK`, `HeadResolves`, `UnmergedImpliesMerging`, `HeadMovesLast`, `CheckoutKeepsWork`, `StashKeepsTracked`, `HistoryKept`, `MergeConcluded` |
| `Rebase` | 1 path, 2 contents, 2 branches; a branch of 2 commits beside another of 1, every commit a change; at most 2 new commits, 1 crash or failed save; one rebase | `NothingSkipped`, `AbortRestores`, `UnmergedBelongs` |
| `OtherIndex` | 3 processes, 2 polls before the deadline, 2 crashes | `ReadableAtRest`, `ImplementsMutex`, `LockReturns`, `SomebodyEnters`, `StaleStays`, `ImplementsRegister` |
| `UnixStash` | 2 processes, 3 inodes, 3 pushes, drops of the two newest entries, 1 crash, any number of commands and of failed writes | `Ordered`, `WholeOutcome`, `CommandsEnd` |
| `RefStore` | 3 branches, 1 tag, 5 objects, from an empty repository or two diverged branches with or without a merge under way; two commands that overlap in any way, and either at most one of them dies or any of their accesses to logs fail; or three in a row and at most two of which die; or a single one of which any accesses fail | `TypeOK`, `HeadResolves`, `SettledKept`, `Recoverable`, `MergeKept` |
| `WorkTree` | a file that status overlooks, a directory with a file, a file in the place of the directory; 2 contents of one size, every kind of pattern, 3 changes by the user, any number of commands | `TypeOK`, `StatHonest`, `DirtyShows`, `AddAllComplete`, `CleanAddsNothing`, `CleanKeeps` |

Why the bounds are enough to be worth something.  The planner decides each path
alone, so two paths show that it does, and three contents distinguish base, ours
and theirs.  Three lines of a base are two edits with an unchanged line between
them, the least at which regions can be wrongly joined or parted; texts of six
lines are what makes the diff split twice.  Eight lengths of a path are all the
paddings there are.  `Repo` needs two paths for what a command does to one path
while another is tracked, untracked or missing; two commits are two different
trees, and two contents are the least with which a file can differ from what is
recorded of it; three commits are a graph with a merge base, a fork and a merge
commit.  `Rebase` needs two entries, so that one can stop and another be skipped
or repeated, and one path with two contents, on which each of them conflicts or
not; between the stops the user edits, adds, commits, checks out and resets.  Its
`CommitFails` stands for a full object store, which the bound on commits makes
happen often.  Two crashes of `OtherIndex` give a stale lock left by one process
and met by another that dies.  In `UnixStash` two processes are enough for the
race of the flock lock, because one of them may come twice.  `RefStore` needs two
commands for a race and three in a row for a reset, and what follows it, after a
commit that died; five objects are two more than the diverged branches have.
`WorkTree` has the one size because contents of different sizes are always told
apart; three changes are enough to stage, edit, and edit again behind the back of
an add.  But for status, the file that it overlooks is a file like any other.

Three of the properties are liveness: `LockReturns` and `SomebodyEnters` of
`OtherIndex`, `CommandsEnd` of `UnixStash`.  Fairness is weak, on the next step of
a process that is inside a call; nobody has to call anything, and crashes and
failed writes are never fair.  The code justifies it: a process that is scheduled
runs on, no step waits for another process but `lock`, and the polling loop has a
deadline.  For flock, weak fairness of `LockFile` says that a process that waits
for a file nobody locks gets it; `CommandsEnd` holds without strong fairness
because the file a process waits for is unlinked by the time its holder is done, so
newcomers cannot take it again.  The other modules have no fairness: nobody has to
type a command.

`HeadResolves`, `SettledKept`, `Recoverable` and `MergeKept` of `RefStore` say in
their premises what they except: commands that raced for a file that one of them
had read, and failures that a command ignored.  Each premise is as narrow as TLC lets
it be; the comments name the line of the code behind each exception.  So does
`DirtyShows`, which excepts the edited files that status overlooks, and
`CleanAddsNothing`, which speaks of the paths that it does not.  `AbortRestores` is
about a HEAD that is still on the branch that was rebased.  What these premises leave
out is in the models; the hazards in `PROJECT.json` say which of them no property
covers.

### Disagreements between the code and what is written about it

Each of these runs checks one statement of a comment or of the documentation and
finds it violated.

| Run | The statement | What the code does |
|---|---|---|
| `FlockExclusion` | concurrent writers of the index are serialized (README.md:207, index.go:87) | `unlock` releases, then unlinks: a waiter gets the lock of the unlinked file while another process creates and locks a new one (lockUnix.go:47-49) |
| `StashLostPush` | drop removes a stash entry (README.md:485), and the lock prevents concurrent writes (stash_store.go:40) | the list that is written back was read before the lock, so a push in between is dropped too (stash_store.go:189, 203) |
| `MergeMarkers` | a commit cannot contain unresolved markers (commit.go:41) | markers are looked for in the files on disk, and the index is committed |
| `RebaseOnto` | a rebase replays the commits onto the tip of the target branch (README.md:401) | the state is saved before the hard reset (rebase.go:312-317): if the process dies in between, `--continue` replays the commits onto the old HEAD |
| `TrackedNeverIgnored` | a tracked file will never be ignored (README.md:716, ignore.go:125) | `add -A` does not enter a directory that matches a pattern, and then removes the entries it has not seen (add.go:157, 177-186) |

Met while reading and modelling, without a run of their own: the scan of status skips
every path that begins with the letters `.kitcat` (status.go:94), so an edited
`.kitcatconfig` blocks a checkout (helpers.go:256), and a new one is staged by `add
-A` (add.go:291), while status says that the working tree is clean, which is what
`DirtyShows` and `CleanAddsNothing` except; a reset whose reflog cannot be written
moves the branch all the same (reset.go:149-151), and a log that cannot be read is
written anew with one entry (helpers.go:559), although the log comes first "for crash
recovery" (reset.go:148): `Recoverable` fails in this model without `missed = {}`;
`tag` writes whatever it is given into a ref that README.md:501 says points to a
commit hash (tag.go:50, 96-106), which is why the `TypeOK` of `RefStore` lets a tag
be `Nowhere`; status reports a file as modified after every checkout or reset, since
the entries these write have size 0 and status compares sizes first (status.go:118),
although the comment at checkout.go:218 wants it clean; it also lists as untracked
what lies in ignored directories by holding each file against the rules by itself
(status.go:141), and does not list as deleted a file whose directory has become a
file, since `os.Stat` then returns ENOTDIR (status.go:156); adding `d/a` after `d`
was a tracked file leaves both in the index until the next `add -A` (add.go:78); a
chmod is not staged while size and time stand (add.go:240); with a pattern `build`,
`add build/x` stages a file that the next `add -A` drops, because the directories
above a named file are not held against the rules (add.go:72); amend appends the old
commit's parents to a list that already holds them, so an amended commit has them
twice (commit.go:170-173); merge, rebase and stash pop overwrite untracked files,
which helpers.go:262-266 asks such operations to look for (apply.go:48); `rebase
--continue` looks at the index only and the next pick overwrites unstaged edits
(rebase.go:58, 133); a crash that leaves `git-rebase-todo` empty makes `--continue`
report success with commits left out (rebase_state.go:54, which is why
`NothingSkipped` speaks of lists that are not empty); a rebase that dies after a
conflict and before `stopped-sha` is continued without a look at the index, so with a
list that an earlier save left empty it ends with unmerged entries that belong to
nothing (rebase.go:58, 139, which is why `UnmergedBelongs` has `cut`); a merge resets
the mode of a path whose content neither side changed to the base's (engine.go:118);
`merge --abort` resets to the current HEAD, which reset or checkout may have moved
since the merge began (merge.go:153); stash does not save a file that was removed
from the index only, and the hard reset then overwrites it (stash.go:194); a stash
pushed with the zero id in the index can never be applied (apply.go:82,
stash.go:150); `stash pop` drops by index and can drop another entry than the one it
applied (stash.go:239); README.md says the stash lives in `.kitcat/refs/stash`, the
code uses `stash.log`.

## 4. The proofs

Everything is for every value of the constants, and rests on the named
assumptions of the modules: that `None` and `Zero` are not contents, branches are
not commit ids, `Main` is a branch, bounds are naturals, a path of the index has a
byte, lengths and counts in it fit in 31 bits (they are read into an `int`), a diff
starts from its first text, and no line of a text is a conflict marker (without which
a conflict could not be told from its lines).  `MaxCommits`, `MaxStash` and `MaxLines`
are arbitrary, so no bound on a behaviour's or a text's length remains.

- `CommitGraphProofs`.  `AncestorsAreClosure`: what `AncestorsIn` computes is the
  least set that has the start and the parents of its members.  The provers cannot
  use the library's induction theorems, which take an operator, so each induction
  over the graph is by a least counterexample (`LeastNatural`): parents are older,
  so of all objects for which a claim fails there is a first.  In the same way
  `WalkExists` gives the recursive function a meaning: partial walks exist up to
  every object and extend one another.  What the other modules use is
  `AncestorsUnfold`, `AncestorsTransitive`, and `AncestorsAgree`: adding a commit
  leaves the histories of the old ones alone.
- `RepoProofs`.  `TypeCorrect`: `TypeOK` is inductive as it stands: the subtle
  part is that a new commit's parents are older, and that `refs`, `head`,
  `mergeHead` and `stash` stay within the commits when they grow.
  `HeadAlwaysResolves`: `HeadResolves` alone is not inductive, since a branch
  without a commit may be renamed or checked out; the strengthening in the module
  says in addition what a repository without HEAD looks like.
  `UnmergedOnlyInMerge`: inductive with `TypeOK`; the case to see is that whatever
  removes `MERGE_HEAD` either checked the stages (Commit) or rewrote the index
  (abort), and whatever writes a stage 2 sets `MERGE_HEAD`.
  The action properties need no more than `TypeOK` before and after the step.
  `HeadAlwaysMovesLast`, `CheckoutAlwaysKeepsWork`, `StashAlwaysKeepsTracked` are
  about `CheckoutTree`, `ReadTree` and `WriteTree` for any trees: a checkout that
  the dirty check lets through finds every tracked file on disk as the index has
  it.  `HistoryAlwaysKept` and `MergeAlwaysConcluded` rest on the lemmas of
  `CommitGraphProofs`: every root before the step is an ancestor of a root after it,
  and the base of HEAD and a parent of HEAD is that parent alone.
- `AlgorithmProofs`.  The plan is `NoPlan` or `MergeTrees` of the three trees
  (`PlannerInv`), and each property is a case analysis on the five verdicts for an
  arbitrary path: `PlanIsPartition`, `PlanIsThreeWay`, `PlanIsSymmetric`,
  `PlanAbsorbs`.
  `CodecRoundTrip`: the reader gives back the entries that were written, for any
  number of them and of extension blocks, paths of any length, and any checksum.  A
  piece of the buffer stays where it was written (`At`, `WritesAt`), so the entry of
  a round lies at the offset the round before left: `ReadEntryBytes` reads it there,
  whatever lies around it.  What a byte string of one entry holds is `EntryBytesAt`:
  the flags give stage and extended bit back (`FlagBits`), the first NUL is the one
  behind the path, and both sides pad alike.  The recursive functions are defined by
  `CHOOSE`, so each loop is first shown to have a solution: `WritesUnfold` by
  extending partial buffers, `EndsExist` from the last offset down (a block always
  leads forward), `EntriesRead` by naming the solution, which is then the only one.
  The loops of the text merge have one by `LoopRuns`, which is given the states that
  each round is made in.
  `ConflictsOnlyMeet`: the edits of a script lie in the base, in order, with a line
  of the base between any two (`EditList`; `EditStepKeeps` is the round of
  `diffToEdits`).  Therefore a region that has grown is the one that was opened, or
  has a single edit, or two edits of different sides met in it (`Meetings`), and
  edits of both sides are in it only in the last case (`GrowMeets`); the walk carries
  that to its end (`WalkStates`).
  `MergeIsSymmetric`: the code asks ours first in each round, and again only after
  theirs.  But the region it ends with does not depend on that: it is the least of
  those around the opened one that nothing more joins (`GrowLeast`), since an edit
  that joins a region joins every larger one that does not have it yet.  So the
  walks of the two merges, with the sides exchanged, come to the same regions
  (`GrowMirrors`), and their texts stay alike for the reader that resolves conflicts:
  it keeps a line of the base for both sides and a half of a conflict for one
  (`LinesAreRead`, `ConflictIsRead`, `WalkTwins`).
- `OtherIndexProofs`.  `LockIsMutex`: a refinement, from the inductive invariant that
  a process inside implies the file exists and that two inside are one.
  `StaleLockStays`: from the same invariant, no step but an `Unlock`, which needs a
  holder, removes the file.  `RestIsReadable` and `IndexIsRegister`: `OInv` says that
  whoever is in a transaction is inside the lock, that what it is about to write is
  what the file holds with its change, or the entries of a tree, and that a torn file
  is empty, being written, or left by a last write that was cut short.  Then a
  transaction is one step of the register where its rewrite is complete and a stutter
  everywhere else.
- `RefStoreProofs`.  `RefsNeverDangle`: `TypeOK` of `RefStore`, for any number of
  processes, commands, crashes and failed accesses; of tags it says only that they
  name an object or what they were given.  A process that has read or written an id
  and not yet put it into a file holds more than the files show, so `IInv` adds what
  each process holds and, by the position in its program, what it must know there: a
  commit has its new object from step 6 on, a checkout its target from step 4 on.
  `Places` computes where each step stands in each program; with it a write is a
  lookup, and the one step under which the objects grow is `WriteObjectKeeps`.  The
  other four start from `Running`: any well-typed repository in which nothing runs
  and HEAD resolves (`AtRest`), then `Next`.  `SpecRuns` shows that the behaviours of
  `Spec` are among them; the initial states of the run, which begin with diverged
  branches and a merge under way, are too.  `HeadAlwaysResolves`: as long as nothing
  raced and no ref was unreadable, each process's copies are what the files still
  hold (`CalmInv`), so a write of HEAD or a removal of a branch acts on what it
  checked.  `SettledAlwaysKept`: each settled commit is below a branch or tag that no
  process is about to take off it (`KeptInv`): a process that will write the ref has
  read an id above the commit, and what it writes is above what it has read
  (`LinkInv`).  `AlwaysRecoverable`, as long as no log was missed either: a process
  that rewrites a log holds a copy that nobody else has overtaken, and a reset that
  moves a branch has put the old id into the log before (`SureInv`).
  `MergeAlwaysKept`: a commit knows of the merge that is under way (`MergeInv`), its
  object has that parent (`LinkInv`), and HEAD leads to its object when it removes
  `MERGE_HEAD` (`WrittenInv`: what it wrote is where HEAD leads, as nothing raced).
- `WorkTreeProofs`, for any paths, contents, patterns and number of changes.
  `StatAlwaysHonest`: `StatHonest` says nothing of an add under way, so it is not
  inductive.  `IInv` adds that every time is at most
  the clock, in the files, in the index, in the working copy of the index that an
  add holds and in what it read with `Lstat`, and that an entry of either index
  whose time is that of the file has the file's content.  A write takes a new time,
  which no entry and no `Lstat` has yet; an entry that add writes has the time of
  the `Lstat` and the content of the later read, so it is right if the file still
  has that time and does not match the file if it has not.
  `AddAllAlwaysComplete` and `CleanAlwaysAddsNothing` need to know of a walk in any
  order what it has done and what it has left: `AInv` says, while the user is quiet,
  that what was visited and may be staged is in the working copy as on disk, and that
  the copy of everything else is still the index.  At the end of the walk nothing
  is left to visit, and what was not seen is removed.  `TypesAlwaysOK`,
  `DirtyAlwaysShows` and `CleanAlwaysKeeps` follow from the same invariant.  Nothing is
  assumed of `StartsWith`.  The
  module assumes that `None` is no file and no entry (`NoneAssumption`).
- `UnixStashProofs`.  `StashStaysOrdered`: a drop's list may be stale, but it was
  ordered when it was read, and the numbers of later pushes are greater than all of
  it.  `StashInv` says that, and that the temporary file is what its one writer has
  copied so far, entry by entry; that there is one writer is what `not clash` gives.
  The lock does not occur in the argument.  `LogAlwaysWhole`: from the same
  invariant, the file that is renamed over the log is a whole list without its
  entry (`WholeCopy`).
- `RebaseProofs`, on top of `RepoProofs`.  `UnmergedHasAnOwner`: between conflict and
  `stopped-sha`, and from there to the next `--continue`, the index may be unmerged
  without `MERGE_HEAD`; everywhere else in the sequencer it is merged or a merge is
  under way, which is `Merged`.  It needs the types of what is on disk and in memory
  (`SequencerOK`), since a damaged save may come between any two steps, and that no
  command forgets a commit.
  `AbortAlwaysRestores`: states are loaded, saved and damaged but never made up, so
  each names the commit HEAD was on or none (`OrigInv`).
  `NothingEverSkipped`: the files are never ahead of the commits, and the running
  process is ahead of its files by one save at most.  `SkipInv` says where each of
  the two stands in the list, next to `replayed`, at every step of the sequencer
  (`OnDisk`, `InMemory`): the first entries of the list have been committed in
  order, which is an embedding of a prefix of the list in `replayed` (`Done`).
  Damage only makes a state shorter of its list or puts it back to the first entry.
  Without faults the embedding is equality (`NoFaults`).

Only model-checked: the liveness properties `LockReturns`, `SomebodyEnters` and
`CommandsEnd`, which are out of the prover's reach; and the two properties that
compare a length with a longest common subsequence, `DiffShortest` and
`NothingLostInMerge`: they are inductions over the recursion of the diff and of `LCS`,
and `LineDiff` is written with recursive operators.  All other properties of the
passing runs are theorems.

## 5. Not modelled

- What fsync and rename leave after a power failure: it depends on the file
  system, and the code states no more than that it calls fsync
  (hash_object.go:56 does not sync the directory of an object, `SafeWrite` does).
- `CheckoutTree` meeting an index that another process is writing (reset.go:87),
  and an index that changes between the check of `Commit` and its `WriteTree`
  (commit.go:103): both need commands of `Repo` in steps next to `IndexTxn`, a
  product beyond TLC at bounds where anything happens.
- Configuration, whose only reader in the system is the author of a commit;
  output commands and the guessing of renames by status; the command line.
- The cache of ignore patterns: a command is one process and reads the file once.
- Wording, dates, authors, terminal output.

Components and reasons are in `PROJECT.json`.

## 6. Plan

The planner and `Repo` came first, because every other command is built on them,
then the locks and the files under them, then `Rebase`; then the refs without a
lock, the stat cache with add, status and clean, the stash log under its real lock,
and the algorithms.  What is left, in order of importance:

1. `NothingLostInMerge` for texts of any length: a lower bound of `LCS` from an
   embedding of the merged text, given that the diff is a shortest one.
2. The index read that ignores its error (reset.go:87), with the steps of one
   checkout next to one transaction.
3. The moves of refs by merge, rebase and stash as programs of `RefStore`.
