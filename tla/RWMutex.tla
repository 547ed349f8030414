------------------------------ MODULE RWMutex -------------------------------
(***************************************************************************)
(* rwmutex_t of src/src/thread.c over the mutex_t it is made of: r counts  *)
(* read locks, optimistic attempts included, and a writer adds the         *)
(* watermark to it; m is the operating system's mutex and w the count of   *)
(* threads that hold or wait for it.  One atomic access is one step.       *)
(***************************************************************************)
EXTENDS Integers, FiniteSets

CONSTANTS RWThreads,
          Watermark,    \* RWMUTEX_WATERMARK, 0xffffff in the code
          MaxOps        \* bound: lock/unlock rounds per thread

\* thread.h: "up to 16777214 read locks may be held", one below the watermark.
ASSUME RWAssumptions ==
  /\ Watermark \in Nat /\ MaxOps \in Nat
  /\ IsFiniteSet(RWThreads) /\ Cardinality(RWThreads) < Watermark

NoOne == "no thread"
ASSUME NoOneAssumption == NoOne \notin RWThreads

VARIABLES r, w, m,      \* mutex_t: readers, writer count, owner of the OS mutex
          rwpc,           \* rwpc[t]: the next step of t
          after,        \* after[t]: what follows t's mutex_lock or mutex_unlock
          ops,          \* ops[t]: rounds t has begun
          checks        \* no safecheckf or assertf has failed

rwVars == <<r, w, m, rwpc, after, ops, checks>>

RWPCs == {"idle", "rlock", "undo", "tryrlock", "tryundo", "reading", "rsub",
        "lock", "writing",
        "mu_add", "mu_lock", "mu_sub", "mu_unlock"}

RWInit ==
  /\ r = 0 /\ w = 0 /\ m = NoOne
  /\ rwpc = [t \in RWThreads |-> "idle"]
  /\ after = [t \in RWThreads |-> "idle"]
  /\ ops = [t \in RWThreads |-> 0]
  /\ checks = TRUE

RWGoto(t, l) == rwpc' = [rwpc EXCEPT ![t] = l]
Then(t, l) == after' = [after EXCEPT ![t] = l]

-----------------------------------------------------------------------------
\* mutex_lock(&m->m): count the thread in, then wait for the OS mutex.
MutexAdd(t) ==
  /\ rwpc[t] = "mu_add"
  /\ w' = w + 1
  /\ RWGoto(t, "mu_lock")
  /\ UNCHANGED <<r, m, after, ops, checks>>

\* A reader that only waits for the writer unlocks at once.
MutexLock(t) ==
  /\ rwpc[t] = "mu_lock" /\ m = NoOne
  /\ m' = t
  /\ RWGoto(t, IF after[t] = "writing" THEN "writing" ELSE "mu_sub")
  /\ UNCHANGED <<r, w, after, ops, checks>>

\* mutex_unlock(&m->m)
MutexSub(t) ==
  /\ rwpc[t] = "mu_sub"
  /\ w' = w - 1
  /\ checks' = (checks /\ w > 0)
  /\ RWGoto(t, "mu_unlock")
  /\ UNCHANGED <<r, m, after, ops>>

\* Unlocking an OS mutex that t does not own is undefined.
MutexUnlock(t) ==
  /\ rwpc[t] = "mu_unlock"
  /\ m' = NoOne
  /\ checks' = (checks /\ m = t)
  /\ RWGoto(t, after[t])
  /\ UNCHANGED <<r, w, after, ops>>

-----------------------------------------------------------------------------
\* A thread begins one of the lock calls.  (Nothing calls rwmutex_trylock.)
Call(t) ==
  /\ rwpc[t] = "idle" /\ ops[t] < MaxOps
  /\ ops' = [ops EXCEPT ![t] = @ + 1]
  /\ \E l \in {"rlock", "tryrlock", "lock"} : RWGoto(t, l)
  /\ UNCHANGED <<r, w, m, after, checks>>

\* Bugs: the reader does not look for a writer; a writer disregards readers;
\* the failed attempt is not taken back.
NoWriterUnchecked == TRUE
UnlockedUnchecked == r < Watermark
UndoNothing == r

NoWriter == r < Watermark
Unlocked == r = 0
Undo == r - 1
WriteReleased == r - Watermark

\* rwmutex_rlock: the optimistic increment ...
RLock(t) ==
  /\ rwpc[t] = "rlock"
  /\ r' = r + 1
  /\ RWGoto(t, IF NoWriter THEN "reading" ELSE "undo")
  /\ UNCHANGED <<w, m, after, ops, checks>>

\* ... and, under a write lock, its reversal; then wait for the writer's mutex.
RLockUndo(t) ==
  /\ rwpc[t] = "undo"
  /\ r' = Undo
  /\ RWGoto(t, "mu_add") /\ Then(t, "rlock")
  /\ UNCHANGED <<w, m, ops, checks>>

\* rwmutex_tryrlock
TryRLock(t) ==
  /\ rwpc[t] = "tryrlock"
  /\ r' = r + 1
  /\ RWGoto(t, IF NoWriter THEN "reading" ELSE "tryundo")
  /\ UNCHANGED <<w, m, after, ops, checks>>

TryRLockUndo(t) ==
  /\ rwpc[t] = "tryundo"
  /\ r' = Undo
  /\ RWGoto(t, "idle")
  /\ UNCHANGED <<w, m, after, ops, checks>>

\* rwmutex_runlock, called by a reader: the load ...
RUnlockLoad(t) ==
  /\ rwpc[t] = "reading"
  /\ checks' = (checks /\ r # 0)
  /\ RWGoto(t, IF NoWriter THEN "rsub" ELSE "mu_add") /\ Then(t, "reading")
  /\ UNCHANGED <<r, w, m, ops>>

\* ... and the subtraction.
RUnlock(t) ==
  /\ rwpc[t] = "rsub"
  /\ r' = r - 1
  /\ RWGoto(t, "idle")
  /\ UNCHANGED <<w, m, after, ops, checks>>

\* rwmutex_lock: spins until the compare-and-swap of 0 succeeds.
Lock(t) ==
  /\ rwpc[t] = "lock" /\ Unlocked
  /\ r' = Watermark
  /\ RWGoto(t, "mu_add") /\ Then(t, "writing")
  /\ UNCHANGED <<w, m, ops, checks>>

\* rwmutex_unlock: the compare-and-swap, then mutex_unlock.
Unlock(t) ==
  /\ rwpc[t] = "writing"
  /\ checks' = (checks /\ r >= Watermark)
  /\ r' = WriteReleased
  /\ RWGoto(t, "mu_sub") /\ Then(t, "idle")
  /\ UNCHANGED <<w, m, ops>>

RWStep(t) ==
  \/ MutexAdd(t) \/ MutexLock(t) \/ MutexSub(t) \/ MutexUnlock(t)
  \/ RLock(t) \/ RLockUndo(t) \/ TryRLock(t) \/ TryRLockUndo(t)
  \/ RUnlockLoad(t) \/ RUnlock(t)
  \/ Lock(t) \/ Unlock(t)

RWNext == \E t \in RWThreads : Call(t) \/ RWStep(t)

\* A thread inside a call is scheduled again and again, and the OS mutex does
\* not starve a thread that waits for it.
RWFairness == \A t \in RWThreads : WF_rwVars(RWStep(t)) /\ SF_rwVars(MutexLock(t))

RWSpec == RWInit /\ [][RWNext]_rwVars /\ RWFairness

-----------------------------------------------------------------------------
RWTypeOK ==
  /\ r \in Nat /\ w \in Int /\ m \in RWThreads \cup {NoOne}
  /\ rwpc \in [RWThreads -> RWPCs] /\ after \in [RWThreads -> {"idle", "rlock", "reading", "writing"}]
  /\ ops \in [RWThreads -> Nat] /\ checks \in BOOLEAN

Readers == {t \in RWThreads : rwpc[t] \in {"reading", "rsub"}}

\* The threads whose attempt or read lock is counted in r ...
Counted == {t \in RWThreads : rwpc[t] \in {"reading", "rsub", "undo", "tryundo"}}

\* ... and those whose compare-and-swap has put the watermark there.
Claims(t) ==
  \/ rwpc[t] = "writing"
  \/ rwpc[t] \in {"mu_add", "mu_lock"} /\ after[t] = "writing"
Writers == {t \in RWThreads : Claims(t)}

\* thread.h: "While a write lock is held no read locks or other write locks
\* can be held."  A writer counts from its compare-and-swap on.
Exclusion ==
  /\ \A t, u \in Writers : t = u
  /\ Writers # {} => \A t \in RWThreads : rwpc[t] # "reading"

\* thread.c: "mutex.r < RWMUTEX_WATERMARK -- mutex.r read locks", "mutex.r >=
\* RWMUTEX_WATERMARK -- write lock held".  r is the number of counted readers,
\* plus the watermark under a writer: increments never leave a trace.
CountMatches ==
  r = Cardinality(Counted) + (IF Writers # {} THEN Watermark ELSE 0)

\* No "unbalanced" or "no lock held" check fails and the OS mutex is unlocked
\* by its owner.
ChecksHold == checks

\* What rwmutex_t promises at every moment: exclusion, an exact count, and
\* checks that never fail.
RWSound == Exclusion /\ CountMatches /\ ChecksHold

\* Every lock that is asked for is granted and released: no reader and writer
\* wait for each other for ever.
CallsReturn == \A t \in RWThreads : (rwpc[t] # "idle") ~> (rwpc[t] = "idle")
=============================================================================
