-------------------------------- MODULE OtherIndex -----------------------------
(***************************************************************************)
(* The index file under the O_EXCL lock (lockOther.go).                    *)
(***************************************************************************)
EXTENDS ExclLock, IndexTxn

allvars == <<vars, ixvars>>

OInit == Init /\ IxInit

\* lock, the critical section, unlock.
Proceed(p) ==
    \/ Create(p) /\ Enter(p)
    \/ (Retry(p) \/ TimeOut(p)) /\ UNCHANGED ixvars
    \/ Body(p) /\ UNCHANGED vars
    \/ Unlock(p) /\ Leave(p)

ONext ==
    \E p \in Process :
        \/ Start(p) /\ UNCHANGED ixvars
        \/ Proceed(p)
        \/ Crash(p) /\ Die(p)

\* A command that runs gets on with what it does; nobody has to start one.
OSpec == OInit /\ [][ONext]_allvars /\ \A p \in Process : WF_allvars(Proceed(p))
-------------------------------------------------------------------------------
\* A file that is being written already stands for what will be in it.
Writing == {p \in Process : phase[p] = "writing"}

Value == IF Writing = {} THEN index ELSE buf[CHOOSE p \in Writing : TRUE]

Broken == torn /\ Writing = {}

R == INSTANCE IndexRegister WITH Change <- Process, value <- Value, broken <- Broken

\* Read-modify-write cycles of any number of processes, with failing callbacks
\* and writes and with crashes, are atomic changes of the index.
ImplementsRegister == R!Spec

\* An index that cannot be read at rest is what the last write to it left, which
\* died or failed halfway.  Crashes anywhere else, failing loads, callbacks and
\* opens and locks that time out never leave one; otherwise only a reader that
\* comes in the middle of a write finds one (CheckoutTree reads without the lock,
\* reset.go:87).
ReadableAtRest == Broken => cut
===============================================================================
