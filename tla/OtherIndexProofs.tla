----------------------------- MODULE OtherIndexProofs --------------------------
(***************************************************************************)
(* The O_EXCL lock implements the mutex, and the index file under it is    *)
(* the register that IndexRegister describes, for any number of processes, *)
(* any deadline and any number of crashes.                                 *)
(***************************************************************************)
EXTENDS OtherIndex, TLAPS

(* The lock: the steps of ExclLock *)

\* Mutual exclusion alone is not inductive: the file has to witness the holder.
LockInv ==
    /\ TypeOK
    /\ \A p \in Process : pc[p] = "inside" => lockFile
    /\ \A p, q \in Process : pc[p] = "inside" /\ pc[q] = "inside" => p = q

\* The invariant holds initially.
LEMMA LockInit == Init => LockInv
<1>1. Init => TypeOK
  <2> SUFFICES ASSUME Init PROVE TypeOK
    OBVIOUS
  <2>1. lockFile \in BOOLEAN
    BY DEF Init
  <2>2. /\ pc \in [Process -> {"outside", "trying", "inside"}]
        /\ tries \in [Process -> 0 .. MaxTries]
        /\ crashes \in 0 .. MaxCrashes
    BY LockAssumption DEF Init
  <2> QED BY <2>1, <2>2 DEF TypeOK
<1>2. Init => \A p \in Process : pc[p] # "inside"
  BY DEF Init
<1> QED BY <1>1, <1>2 DEF LockInv

\* Types are kept by every step.
LEMMA LockTypes ==
    ASSUME TypeOK, [Next]_vars
    PROVE  TypeOK'
<1> USE LockAssumption DEF TypeOK
<1>1. ASSUME NEW p \in Process, Start(p) PROVE TypeOK'
  BY <1>1 DEF Start
<1>2. ASSUME NEW p \in Process, Create(p) PROVE TypeOK'
  BY <1>2 DEF Create
<1>3. ASSUME NEW p \in Process, Retry(p) PROVE TypeOK'
  BY <1>3 DEF Retry
<1>4. ASSUME NEW p \in Process, TimeOut(p) PROVE TypeOK'
  BY <1>4 DEF TimeOut
<1>5. ASSUME NEW p \in Process, Unlock(p) PROVE TypeOK'
  BY <1>5 DEF Unlock
<1>6. ASSUME NEW p \in Process, Crash(p) PROVE TypeOK'
  BY <1>6 DEF Crash
<1>7. CASE UNCHANGED vars
  BY <1>7 DEF vars
<1> QED BY <1>1, <1>2, <1>3, <1>4, <1>5, <1>6, <1>7 DEF Next, Attempt

\* What a step does to the holders: one enters, one leaves, or nothing.
LEMMA HoldersStep ==
    ASSUME LockInv, [Next]_vars
    PROVE  \/ Holders' = Holders /\ (lockFile' = lockFile)
           \/ \E p \in Process : ~lockFile /\ lockFile' /\ Holders' = Holders \cup {p}
           \/ \E p \in Holders : Holders' = Holders \ {p}
<1> USE DEF LockInv, TypeOK, Holders
<1>1. ASSUME NEW p \in Process, Start(p)
      PROVE  Holders' = Holders /\ lockFile' = lockFile
  BY <1>1 DEF Start
<1>2. ASSUME NEW p \in Process, Create(p)
      PROVE  ~lockFile /\ lockFile' /\ Holders' = Holders \cup {p}
  BY <1>2 DEF Create
<1>3. ASSUME NEW p \in Process, Retry(p)
      PROVE  Holders' = Holders /\ lockFile' = lockFile
  BY <1>3 DEF Retry
<1>4. ASSUME NEW p \in Process, TimeOut(p)
      PROVE  Holders' = Holders /\ lockFile' = lockFile
  BY <1>4 DEF TimeOut
<1>5. ASSUME NEW p \in Process, Unlock(p)
      PROVE  p \in Holders /\ Holders' = Holders \ {p}
  BY <1>5 DEF Unlock
<1>6. ASSUME NEW p \in Process, Crash(p)
      PROVE  lockFile' = lockFile /\ Holders' = Holders \ {p}
  BY <1>6 DEF Crash
<1>7. CASE UNCHANGED vars
  BY <1>7 DEF vars
<1> HIDE DEF LockInv, TypeOK, Holders
<1>8. ASSUME NEW p \in Process, lockFile' = lockFile, Holders' = Holders \ {p}
      PROVE  \/ Holders' = Holders /\ (lockFile' = lockFile)
             \/ \E q \in Holders : Holders' = Holders \ {q}
  <2>1. CASE p \in Holders
    BY <1>8, <2>1
  <2>2. CASE p \notin Holders
    BY <1>8, <2>2
  <2> QED BY <2>1, <2>2
<1> QED
  BY <1>1, <1>2, <1>3, <1>4, <1>5, <1>6, <1>7, <1>8 DEF Next, Attempt, Holders

\* The invariant is kept by every step.
LEMMA LockStep ==
    ASSUME LockInv, [Next]_vars
    PROVE  LockInv'
<1>1. TypeOK'
  BY LockTypes DEF LockInv
<1> USE DEF LockInv, TypeOK
<1>2. ASSUME NEW p \in Process, Start(p) PROVE LockInv'
  BY <1>1, <1>2 DEF Start
<1>3. ASSUME NEW p \in Process, Create(p) PROVE LockInv'
  BY <1>1, <1>3 DEF Create
<1>4. ASSUME NEW p \in Process, Retry(p) \/ TimeOut(p) PROVE LockInv'
  BY <1>1, <1>4 DEF Retry, TimeOut
<1>5. ASSUME NEW p \in Process, Unlock(p) PROVE LockInv'
  BY <1>1, <1>5 DEF Unlock
<1>6. ASSUME NEW p \in Process, Crash(p) PROVE LockInv'
  BY <1>1, <1>6 DEF Crash
<1>7. CASE UNCHANGED vars
  BY <1>7 DEF vars
<1> QED BY <1>2, <1>3, <1>4, <1>5, <1>6, <1>7 DEF Next, Attempt

\* The invariant holds in every reachable state.
LEMMA LockInvariant == Spec => []LockInv
BY LockInit, LockStep, PTL DEF Spec

\* The lock of lockOther.go gives its callers the mutex they rely on: every
\* step is an Acquire, a Release (a crash of the holder is one), or neither.
THEOREM LockIsMutex == Spec => ImplementsMutex
<1>1. Init => M!Init
  BY DEF Init, M!Init, Holders
<1>2. LockInv /\ [Next]_vars => [M!Next]_Holders
  <2> SUFFICES ASSUME LockInv, [Next]_vars
               PROVE  Holders' = Holders \/ M!Next
    BY DEF M!Next
  <2>1. ~lockFile => Holders = {}
    BY DEF LockInv, Holders
  <2>2. \A p \in Holders : Holders = {p} /\ p \in Process
    BY DEF LockInv, Holders
  <2>3. ASSUME NEW p \in Process, ~lockFile, Holders' = Holders \cup {p}
        PROVE  M!Acquire(p)
    BY <2>1, <2>3 DEF M!Acquire
  <2>4. ASSUME NEW p \in Holders, Holders' = Holders \ {p}
        PROVE  M!Release(p)
    BY <2>2, <2>4 DEF M!Release
  <2> QED BY <2>2, <2>3, <2>4, HoldersStep DEF M!Next
<1> QED BY <1>1, <1>2, LockInvariant, PTL DEF Spec, ImplementsMutex, M!Spec

\* Once a crash has left a lock file without a holder, it stays: every later
\* command that writes times out until the user removes the file.
THEOREM StaleLockStays == Spec => StaleStays
<1>1. LockInv /\ [Next]_vars
        => [lockFile /\ Holders = {} => lockFile' /\ Holders' = {}]_vars
  <2> SUFFICES ASSUME LockInv, [Next]_vars, lockFile, Holders = {}
               PROVE  lockFile' /\ Holders' = {}
    OBVIOUS
  <2> QED BY HoldersStep
<1> QED BY <1>1, LockInvariant, PTL DEF Spec, StaleStays
-------------------------------------------------------------------------------
(* The index under the lock *)

Phase == {"out", "locked", "loaded", "writing", "written", "failed"}

IxTypes ==
    /\ index \in SUBSET Process /\ torn \in BOOLEAN /\ cut \in BOOLEAN
    /\ phase \in [Process -> Phase]
    /\ kind \in [Process -> {"update", "rewrite", "none"}]
    /\ buf \in [Process -> SUBSET Process]

\* Who is in a critical section holds the lock.
Locks == \A p \in Process : phase[p] # "out" => pc[p] = "inside"

\* What a process is about to write is what the file holds with its change, or
\* the entries of a tree.
Bufs ==
    \A p \in Process : phase[p] = "loaded" =>
        \/ kind[p] = "update" /\ ~torn /\ buf[p] = index \cup {p}
        \/ kind[p] = "rewrite" /\ buf[p] = {}

\* A file that cannot be read is empty, and is being written or was left so by the
\* last write.
Tears ==
    /\ torn => index = {}
    /\ \A p \in Process : phase[p] = "writing" => torn
    /\ torn /\ Writing = {} => cut

OInv == LockInv /\ IxTypes /\ Locks /\ Bufs /\ Tears
-------------------------------------------------------------------------------
\* The steps of the lock are those of ExclLock.
LEMMA LockSteps == [ONext]_allvars => [Next]_vars
BY DEF ONext, allvars, vars, Proceed, Next, Attempt

\* Only one process is in its critical section.
LEMMA Alone ==
    ASSUME OInv, NEW p \in Process, NEW q \in Process, phase[p] # "out", phase[q] # "out"
    PROVE  p = q
BY DEF OInv, LockInv, Locks

\* The invariant holds initially.
LEMMA OInitOK == ASSUME OInit PROVE OInv
<1>1. LockInv
  BY LockInit DEF OInit
<1>2. IxTypes
  BY DEF OInit, IxInit, IxTypes, Phase
<1> QED BY <1>1, <1>2 DEF OInit, IxInit, OInv, Locks, Bufs, Tears, Writing


\* Every step keeps the invariant.
LEMMA ONextOK == ASSUME OInv, [ONext]_allvars PROVE OInv'
<1>1. LockInv'
  BY LockSteps, LockStep DEF OInv
<1> SUFFICES IxTypes' /\ Locks' /\ Bufs' /\ Tears'
  BY <1>1 DEF OInv
<1>2. ASSUME NEW p \in Process, Start(p), UNCHANGED ixvars
      PROVE  IxTypes' /\ Locks' /\ Bufs' /\ Tears'
  BY <1>2 DEF Start, ixvars, OInv, IxTypes, Locks, Bufs, Tears, Writing, LockInv, TypeOK
<1>3. ASSUME NEW p \in Process, Create(p), Enter(p)
      PROVE  IxTypes' /\ Locks' /\ Bufs' /\ Tears'
  <2>1. IxTypes'
    BY <1>3, KindAssumption DEF Enter, OInv, IxTypes, Phase
  <2>2. Locks'
    BY <1>3 DEF Enter, Create, OInv, IxTypes, Locks, LockInv, TypeOK
  <2>3. Bufs'
    BY <1>3 DEF Enter, OInv, IxTypes, Bufs
  <2>4. Tears'
    BY <1>3 DEF Enter, Create, OInv, IxTypes, Tears, Writing
  <2> QED BY <2>1, <2>2, <2>3, <2>4
<1>4. ASSUME NEW p \in Process, Retry(p) \/ TimeOut(p), UNCHANGED ixvars
      PROVE  IxTypes' /\ Locks' /\ Bufs' /\ Tears'
  BY <1>4 DEF Retry, TimeOut, ixvars, OInv, IxTypes, Locks, Bufs, Tears, Writing, LockInv, TypeOK
<1>5. ASSUME NEW p \in Process, Body(p), UNCHANGED vars
      PROVE  IxTypes' /\ Locks' /\ Bufs' /\ Tears'
  <2>1. /\ phase[p] # "out" /\ \A q \in Process \ {p} : phase[q] = "out"
    <3>1. phase[p] # "out"
      BY <1>5 DEF Body, Load, CallbackFails, FromTree, OpenFails, Truncate, Fill, FillFails
    <3> QED BY <3>1, Alone
  <2>2. CASE Load(p)
    <3>1. IxTypes'
      BY <2>2 DEF Load, OInv, IxTypes, Phase
    <3> QED BY <1>5, <2>1, <2>2, <3>1
            DEF Load, vars, OInv, IxTypes, Locks, Bufs, Tears, Writing
  <2>3. CASE CallbackFails(p)
    <3>1. IxTypes'
      BY <2>3 DEF CallbackFails, OInv, IxTypes, Phase
    <3> QED BY <1>5, <2>1, <2>3, <3>1
            DEF CallbackFails, vars, OInv, IxTypes, Locks, Bufs, Tears, Writing
  <2>4. CASE FromTree(p)
    <3>1. IxTypes'
      BY <2>4 DEF FromTree, OInv, IxTypes, Phase
    <3> QED BY <1>5, <2>1, <2>4, <3>1
            DEF FromTree, vars, OInv, IxTypes, Locks, Bufs, Tears, Writing
  <2>5. CASE Truncate(p)
    <3>1. IxTypes'
      BY <2>5 DEF Truncate, OInv, IxTypes, Phase
    <3> QED BY <1>5, <2>1, <2>5, <3>1
            DEF Truncate, vars, OInv, IxTypes, Locks, Bufs, Tears, Writing
  <2>6. CASE Fill(p)
    <3>1. IxTypes'
      BY <2>6 DEF Fill, OInv, IxTypes, Phase
    <3> QED BY <1>5, <2>1, <2>6, <3>1
            DEF Fill, vars, OInv, IxTypes, Locks, Bufs, Tears, Writing
  <2>7. CASE OpenFails(p)
    <3>1. IxTypes'
      BY <2>7 DEF OpenFails, OInv, IxTypes, Phase
    <3> QED BY <1>5, <2>1, <2>7, <3>1
            DEF OpenFails, vars, OInv, IxTypes, Locks, Bufs, Tears, Writing
  <2>8. CASE FillFails(p)
    <3>1. IxTypes'
      BY <2>8 DEF FillFails, OInv, IxTypes, Phase
    <3> QED BY <1>5, <2>1, <2>8, <3>1
            DEF FillFails, vars, OInv, IxTypes, Locks, Bufs, Tears, Writing
  <2> QED BY <1>5, <2>2, <2>3, <2>4, <2>5, <2>6, <2>7, <2>8 DEF Body
<1>6. ASSUME NEW p \in Process, Unlock(p), Leave(p)
      PROVE  IxTypes' /\ Locks' /\ Bufs' /\ Tears'
  <2>1. IxTypes'
    BY <1>6 DEF Leave, Forget, OInv, IxTypes, Phase
  <2> QED BY <1>6, <2>1 DEF Leave, Forget, Unlock, OInv, IxTypes, Locks, Bufs, Tears,
                            Writing, LockInv, TypeOK
<1>7. ASSUME NEW p \in Process, Crash(p), Die(p)
      PROVE  IxTypes' /\ Locks' /\ Bufs' /\ Tears'
  <2>1. IxTypes'
    BY <1>7 DEF Die, Forget, OInv, IxTypes, Phase
  <2>2. Locks' /\ Bufs'
    BY <1>7 DEF Die, Forget, Crash, OInv, IxTypes, Locks, Bufs, LockInv, TypeOK
  <2>3. phase[p] # "writing" => Writing' = Writing
    BY <1>7 DEF Die, Writing, OInv, IxTypes
  <2>4. Tears'
    BY <1>7, <2>3 DEF Die, OInv, IxTypes, Tears
  <2> QED BY <2>1, <2>2, <2>4
<1>8. CASE UNCHANGED allvars
  BY <1>8 DEF allvars, vars, ixvars, OInv, IxTypes, Locks, Bufs, Tears, Writing
<1> QED BY <1>2, <1>3, <1>4, <1>5, <1>6, <1>7, <1>8 DEF ONext, Proceed

\* The invariant holds in every reachable state.
LEMMA OInvariant == OSpec => []OInv
<1>1. OInit => OInv
  BY OInitOK
<1>2. OInv /\ [ONext]_allvars => OInv'
  BY ONextOK
<1> QED BY <1>1, <1>2, PTL DEF OSpec

\* Who finds an index at rest that cannot be read finds what the last write left
\* when it died or failed halfway.
THEOREM RestIsReadable == OSpec => []ReadableAtRest
<1>1. OInv => ReadableAtRest
  BY DEF OInv, Tears, ReadableAtRest, Broken
<1> QED BY <1>1, OInvariant, PTL
-------------------------------------------------------------------------------
\* The index stands for what its one writer is about to write, before a step and
\* after it.
LEMMA ValueOf ==
    /\ Writing = {} => Value = index
    /\ \A p \in Process : Writing = {p} => Value = buf[p]
    /\ Writing' = {} => Value' = index'
    /\ \A p \in Process : Writing' = {p} => Value' = buf'[p]
<1>1. \A p : (CHOOSE q \in {p} : TRUE) = p
  OBVIOUS
<1> QED BY <1>1 DEF Value

\* A step that neither begins nor ends a write, and leaves the file and what is
\* written to it, is none of the register's.
LEMMA Stutters ==
    ASSUME OInv, Writing' = Writing, UNCHANGED <<index, torn>>,
           \A q \in Writing : buf'[q] = buf[q]
    PROVE  Value' = Value /\ Broken' = Broken
<1>1. CASE Writing = {}
  BY <1>1 DEF Value, Broken
<1>2. CASE Writing # {}
  <2>1. PICK p \in Process : Writing = {p}
    BY <1>2, Alone DEF Writing
  <2>2. Value = buf[p] /\ Value' = buf'[p]
    BY <2>1, ValueOf
  <2> QED BY <2>1, <2>2 DEF Broken
<1> QED BY <1>1, <1>2

\* Every step is one of the register's, or none: a change takes effect when the
\* file is truncated for it, and a crash or an error before it is filled loses the
\* index.
LEMMA RegisterStep ==
    ASSUME OInv, [ONext]_allvars
    PROVE  [R!Next]_<<Value, Broken>>
<1> SUFFICES (Value' = Value /\ Broken' = Broken) \/ R!Next
  OBVIOUS
<1>1. ASSUME NEW p \in Process, phase[p] # "out"
      PROVE  /\ \A q \in Process \ {p} : phase[q] = "out"
             /\ phase[p] # "writing" => Writing = {}
             /\ phase[p] = "writing" => Writing = {p}
  BY <1>1, Alone DEF Writing
<1>2. ASSUME NEW p \in Process, Start(p) \/ Retry(p) \/ TimeOut(p), UNCHANGED ixvars
      PROVE  Value' = Value /\ Broken' = Broken
  BY <1>2, Stutters DEF ixvars, Writing
<1>3. ASSUME NEW p \in Process, Enter(p)
      PROVE  Value' = Value /\ Broken' = Broken
  <2>1. Writing' = Writing
    BY <1>3 DEF Enter, Writing, OInv, IxTypes
  <2> QED BY <1>3, <2>1, Stutters DEF Enter
<1>4. ASSUME NEW p \in Process, Load(p) \/ CallbackFails(p) \/ FromTree(p) \/ OpenFails(p)
      PROVE  Value' = Value /\ Broken' = Broken
  <2>1. phase[p] # "out" /\ phase[p] # "writing"
    BY <1>4 DEF Load, CallbackFails, FromTree, OpenFails
  <2>2. Writing = {} /\ Writing' = {} /\ UNCHANGED <<index, torn>>
    BY <1>1, <1>4, <2>1
    DEF Load, CallbackFails, FromTree, OpenFails, Writing, OInv, IxTypes
  <2> QED BY <2>2, Stutters
<1>5. ASSUME NEW p \in Process, Truncate(p)
      PROVE  R!Next
  <2>1. phase[p] = "loaded" /\ Writing = {} /\ buf' = buf /\ torn' = TRUE
    BY <1>1, <1>5 DEF Truncate
  <2>2. Writing' = {p}
    BY <1>1, <1>5, <2>1 DEF Truncate, Writing, OInv, IxTypes
  <2>3. Value = index /\ Value' = buf[p] /\ Broken' = FALSE /\ Broken = torn
    BY <2>1, <2>2, ValueOf DEF Broken, OInv, IxTypes
  <2>4. CASE kind[p] = "update" /\ ~torn /\ buf[p] = index \cup {p}
    <3>1. Value' = Value \cup {p}
      BY <2>3, <2>4
    <3>2. ~Broken /\ ~Broken'
      BY <2>3, <2>4
    <3>3. R!Update(p)
      BY <3>1, <3>2 DEF R!Update, Broken
    <3> QED BY <3>3 DEF R!Next
  <2>5. CASE kind[p] = "rewrite" /\ buf[p] = {}
    BY <2>3, <2>5 DEF R!Next, R!Rewrite
  <2> QED BY <2>1, <2>4, <2>5 DEF OInv, Bufs
<1>6. ASSUME NEW p \in Process, Fill(p)
      PROVE  Value' = Value /\ Broken' = Broken
  <2>1. Writing = {p} /\ index' = buf[p] /\ torn' = FALSE
    BY <1>1, <1>6 DEF Fill
  <2>2. Writing' = {}
    BY <1>1, <1>6 DEF Fill, Writing, OInv, IxTypes
  <2> QED BY <2>1, <2>2, ValueOf DEF Broken
<1>7. ASSUME NEW p \in Process, Leave(p)
      PROVE  Value' = Value /\ Broken' = Broken
  <2>1. Writing = {} /\ Writing' = {}
    BY <1>1, <1>7 DEF Leave, Writing, OInv, IxTypes
  <2> QED BY <1>7, <2>1, Stutters DEF Leave
<1>8. ASSUME NEW p \in Process, Die(p), phase[p] # "writing"
      PROVE  Value' = Value /\ Broken' = Broken
  <2>1. Writing' = Writing /\ \A q \in Writing : buf'[q] = buf[q]
    BY <1>8 DEF Die, Forget, Writing, OInv, IxTypes
  <2> QED BY <1>8, <2>1, Stutters DEF Die
<1>9. ASSUME NEW p \in Process, Die(p), phase[p] = "writing"
      PROVE  R!Next
  <2>1. torn /\ index = {}
    BY <1>9 DEF OInv, Tears
  <2>2. Writing' = {}
    BY <1>1, <1>9 DEF Die, Writing, OInv, IxTypes
  <2>3. Value' = {} /\ Broken'
    BY <1>9, <2>1, <2>2, ValueOf DEF Die, Broken
  <2> QED BY <2>3 DEF R!Next, R!Break
<1>10. ASSUME NEW p \in Process, FillFails(p)
       PROVE  R!Next
  <2>1. torn /\ index = {}
    BY <1>10 DEF FillFails, OInv, Tears
  <2>2. Writing' = {}
    BY <1>1, <1>10 DEF FillFails, Writing, OInv, IxTypes
  <2>3. Value' = {} /\ Broken'
    BY <1>10, <2>1, <2>2, ValueOf DEF FillFails, Broken
  <2> QED BY <2>3 DEF R!Next, R!Break
<1>11. CASE UNCHANGED allvars
  BY <1>11, Stutters DEF allvars, ixvars, Writing
<1> QED BY <1>2, <1>3, <1>4, <1>5, <1>6, <1>7, <1>8, <1>9, <1>10, <1>11 DEF ONext, Proceed, Body

\* UpdateIndex and WriteIndexFromTree are atomic changes of the index, for any
\* number of processes, failing callbacks and writes and crashes: the file, its truncation
\* and its lock implement IndexRegister.
THEOREM IndexIsRegister == OSpec => ImplementsRegister
<1>1. OInit => R!Init
  <2> SUFFICES ASSUME OInit PROVE R!Init
    OBVIOUS
  <2>1. Writing = {} /\ index = {} /\ torn = FALSE
    BY DEF OInit, IxInit, Writing
  <2> QED BY <2>1, ValueOf DEF R!Init, Broken
<1>2. OInv /\ [ONext]_allvars => [R!Next]_<<Value, Broken>>
  BY RegisterStep
<1> QED BY <1>1, <1>2, OInvariant, PTL DEF OSpec, ImplementsRegister, R!Spec
===============================================================================
