----------------------------- MODULE TaskProofs -----------------------------
(***************************************************************************)
(* What the tasks of a build share besides channels: the futures of        *)
(* future.c, the locks of thread.c (rwmutex_t with its mutex_t, and        *)
(* spinmutex_t), the pool of threadpool.c and the bump allocator.          *)
(***************************************************************************)
EXTENDS Future, RWMutex, SpinMutex, ThreadPool, Bump, FiniteSetTheorems, TLAPS

-----------------------------------------------------------------------------
(***************************************************************************)
(* The future, for any number of threads and any error codes.              *)
(*                                                                         *)
(* The inductive invariant ties the three places a finished production can *)
(* be seen in (the status word, the semaphore, a woken waiter) to the one  *)
(* place it is made (the acquirer's pc).                                   *)
(***************************************************************************)

\* A thread between a successful acquire and the store of its result.
Producing(t) == pc[t] = "owner"

\* The status word says where the production stands.
StatusAgrees ==
  /\ status = 0 <=> acquirers = {}
  /\ status = 1 => /\ result = {}
                   /\ \E t \in acquirers : Producing(t)
  /\ status = 0 => result = {}
  /\ Done => result = {ErrOf(status)}

\* Only the acquirer produces and only while the status says "processing".
OwnerIsAcquirer ==
  \A t \in Threads : /\ pc[t] = "owner" => t \in acquirers /\ status = 1
                     /\ pc[t] = "fin_signal" => Done

\* A token, in the semaphore or in a waiter's hand, proves completion.
TokenMeansDone ==
  /\ sem > 0 => Done
  /\ \A t \in Threads : pc[t] \in {"wait_restore", "wait_reload"} => Done

FutureIInv ==
  /\ TypeOK
  /\ AcquiredOnce
  /\ StatusAgrees
  /\ OwnerIsAcquirer
  /\ TokenMeansDone
  /\ WaitersGetResult

-----------------------------------------------------------------------------
\* The two conversions between a result and a final status are inverse.
LEMMA StatusRoundTrip ==
  ASSUME NEW e \in Results
  PROVE  /\ StatusOf(e) \in Statuses \ {0, 1}
         /\ ErrOf(StatusOf(e)) = e
<1>1. CASE e = 0
  BY <1>1 DEF Statuses, StatusOf, ErrOf
<1>2. CASE e # 0
  <2>1. e \in Errs /\ e \in Int /\ e < 0
    BY <1>2, ErrsAssumption DEF Results
  <2> QED BY <1>2, <2>1 DEF Statuses, StatusOf, ErrOf
<1> QED BY <1>1, <1>2

\* The initial state satisfies the inductive invariant.
LEMMA FutureInitIInv == Init => FutureIInv
<1> SUFFICES ASSUME Init PROVE FutureIInv
  OBVIOUS
<1>1. TypeOK
  BY DEF Init, TypeOK, Statuses, PCs
<1>2. StatusAgrees
  BY DEF Init, StatusAgrees, Done
<1>3. OwnerIsAcquirer /\ TokenMeansDone
  BY DEF Init, OwnerIsAcquirer, TokenMeansDone
<1>4. AcquiredOnce /\ WaitersGetResult
  BY DEF Init, AcquiredOnce, WaitersGetResult
<1> QED BY <1>1, <1>2, <1>3, <1>4 DEF FutureIInv

\* Every atomic step of future.c preserves the inductive invariant.
LEMMA FutureNextIInv == FutureIInv /\ [Next]_vars => FutureIInv'
<1> SUFFICES ASSUME FutureIInv, [Next]_vars PROVE FutureIInv'
  OBVIOUS
<1> USE DEF FutureIInv, TypeOK, Goto, PCs, CASSucceeds, Signals, Token
<1>1. ASSUME NEW t \in Threads, AcquireLoad(t) PROVE FutureIInv'
  BY <1>1 DEF AcquireLoad, AcquiredOnce, StatusAgrees, Producing,
              OwnerIsAcquirer, TokenMeansDone, WaitersGetResult, Done
<1>2. ASSUME NEW t \in Threads, AcquireCAS(t) PROVE FutureIInv'
  <2>1. CASE status = 0
    BY <1>2, <2>1, ErrsAssumption
       DEF AcquireCAS, AcquiredOnce, StatusAgrees, Producing, Statuses,
           OwnerIsAcquirer, TokenMeansDone, WaitersGetResult, Done
  <2>2. CASE status # 0
    BY <1>2, <2>2 DEF AcquireCAS, AcquiredOnce, StatusAgrees, Producing,
           OwnerIsAcquirer, TokenMeansDone, WaitersGetResult, Done
  <2> QED BY <2>1, <2>2
<1>3. ASSUME NEW t \in Threads, NEW e \in Results, FinalizeStore(t, e)
      PROVE FutureIInv'
  <2>1. status = 1 /\ acquirers = {t} /\ result = {}
    BY <1>3 DEF FinalizeStore, OwnerIsAcquirer, AcquiredOnce, StatusAgrees
  <2>2. TypeOK'
    BY <1>3, StatusRoundTrip DEF FinalizeStore
  <2>3. StatusAgrees'
    BY <1>3, <2>1, StatusRoundTrip DEF FinalizeStore, StatusAgrees, Done
  <2>4. OwnerIsAcquirer'
    <3>1. \A u \in Threads : pc[u] = "owner" => u = t
      BY <2>1 DEF OwnerIsAcquirer
    <3> QED BY <1>3, <3>1, StatusRoundTrip
            DEF FinalizeStore, OwnerIsAcquirer, Done
  <2>5. TokenMeansDone'
    BY <1>3, StatusRoundTrip DEF FinalizeStore, TokenMeansDone, Done
  <2>6. WaitersGetResult'
    BY <1>3, <2>1 DEF FinalizeStore, WaitersGetResult
  <2>7. AcquiredOnce'
    BY <1>3 DEF FinalizeStore, AcquiredOnce
  <2> QED BY <2>2, <2>3, <2>4, <2>5, <2>6, <2>7
<1>4. ASSUME NEW t \in Threads, FinalizeSignal(t) PROVE FutureIInv'
  BY <1>4 DEF FinalizeSignal, AcquiredOnce, StatusAgrees, Producing,
              OwnerIsAcquirer, TokenMeansDone, WaitersGetResult, Done
<1>5. ASSUME NEW t \in Threads, TryWait(t) PROVE FutureIInv'
  BY <1>5, ErrsAssumption
     DEF TryWait, Tell, AcquiredOnce, StatusAgrees, Producing, ErrOf,
         OwnerIsAcquirer, TokenMeansDone, WaitersGetResult, Done,
         Statuses, Results
<1>6. ASSUME NEW t \in Threads, WaitLoad(t) PROVE FutureIInv'
  BY <1>6, ErrsAssumption
     DEF WaitLoad, Tell, AcquiredOnce, StatusAgrees, Producing, ErrOf,
         OwnerIsAcquirer, TokenMeansDone, WaitersGetResult, Done,
         Statuses, Results
<1>7. ASSUME NEW t \in Threads, WaitSem(t) PROVE FutureIInv'
  BY <1>7 DEF WaitSem, AcquiredOnce, StatusAgrees, Producing,
              OwnerIsAcquirer, TokenMeansDone, WaitersGetResult, Done
<1>8. ASSUME NEW t \in Threads, WaitRestore(t) PROVE FutureIInv'
  BY <1>8 DEF WaitRestore, AcquiredOnce, StatusAgrees, Producing,
              OwnerIsAcquirer, TokenMeansDone, WaitersGetResult, Done
<1>9. ASSUME NEW t \in Threads, WaitReload(t) PROVE FutureIInv'
  BY <1>9, ErrsAssumption
     DEF WaitReload, Tell, AcquiredOnce, StatusAgrees, Producing, ErrOf,
         OwnerIsAcquirer, TokenMeansDone, WaitersGetResult, Done,
         Statuses, Results
<1>10. CASE Dispose
  BY <1>10 DEF Dispose, AcquiredOnce, StatusAgrees, Producing,
               OwnerIsAcquirer, TokenMeansDone, WaitersGetResult, Done
<1>11. CASE UNCHANGED vars
  BY <1>11 DEF vars, AcquiredOnce, StatusAgrees, Producing,
               OwnerIsAcquirer, TokenMeansDone, WaitersGetResult, Done
<1> QED
  BY <1>1, <1>2, <1>3, <1>4, <1>5, <1>6, <1>7, <1>8, <1>9, <1>10, <1>11
     DEF Next, Step

\* The invariant is inductive.
THEOREM FutureInvariance == Spec => []FutureIInv
BY FutureInitIInv, FutureNextIInv, PTL DEF Spec

\* The state of a future is well typed in every reachable state.
THEOREM FutureTypeCorrect == Spec => []TypeOK
BY FutureInvariance, PTL DEF FutureIInv

\* future.h: "future_acquire returns true exactly once, for one thread."
THEOREM OneAcquirer == Spec => []AcquiredOnce
BY FutureInvariance, PTL DEF FutureIInv

\* Whatever future_wait or future_trywait returns is what the producer passed
\* to future_finalize.
THEOREM ResultDelivered == Spec => []WaitersGetResult
BY FutureInvariance, PTL DEF FutureIInv

-----------------------------------------------------------------------------
\* A published status is never overwritten.
LEMMA StepKeepsResult == FutureIInv /\ [Next]_vars => [Done => status' = status]_vars
<1> SUFFICES ASSUME FutureIInv, [Next]_vars, Done PROVE status' = status
  OBVIOUS
<1>1. ASSUME NEW t \in Threads, NEW e \in Results, FinalizeStore(t, e)
      PROVE FALSE
  BY <1>1 DEF FutureIInv, OwnerIsAcquirer, FinalizeStore, Done
<1>2. ASSUME NEW t \in Threads, AcquireCAS(t) PROVE status' = status
  BY <1>2 DEF AcquireCAS, CASSucceeds, Done
<1> QED
  BY <1>1, <1>2
     DEF Next, Step, AcquireLoad, FinalizeSignal, TryWait, WaitLoad, WaitSem,
         WaitRestore, WaitReload, Dispose, vars

\* Once future_finalize has stored a result no later call changes it.
THEOREM ResultFinal == Spec => ResultIsFinal
BY FutureInvariance, StepKeepsResult, PTL DEF Spec, ResultIsFinal

-----------------------------------------------------------------------------
\* The initial state of the code is one of the contract.
LEMMA InitRefines == Init => Contract!SpecInit
BY DEF Init, Contract!SpecInit

\* A step of the code is a step of the contract or leaves it unchanged.
LEMMA NextRefines ==
  FutureIInv /\ [Next]_vars => [Contract!SpecNext]_(Contract!specVars)
<1> SUFFICES ASSUME FutureIInv, [Next]_vars
             PROVE  Contract!SpecNext \/ UNCHANGED Contract!specVars
  OBVIOUS
<1> USE DEF FutureIInv, TypeOK, CASSucceeds
<1>1. ASSUME NEW t \in Threads, AcquireCAS(t)
      PROVE  Contract!SpecNext \/ UNCHANGED Contract!specVars
  <2>1. CASE status = 0
    <3>1. Contract!Claim(t)
      BY <1>1, <2>1 DEF AcquireCAS, StatusAgrees, Contract!Claim
    <3> QED BY <3>1 DEF Contract!SpecNext
  <2>2. CASE status # 0
    BY <1>1, <2>2 DEF AcquireCAS, Contract!specVars
  <2> QED BY <2>1, <2>2
<1>2. ASSUME NEW t \in Threads, NEW e \in Results, FinalizeStore(t, e)
      PROVE  Contract!SpecNext
  <2>1. acquirers = {t} /\ result = {}
    BY <1>2 DEF FinalizeStore, OwnerIsAcquirer, AcquiredOnce, StatusAgrees
  <2>2. Contract!Publish(t, e)
    BY <1>2, <2>1 DEF FinalizeStore, Contract!Publish
  <2> QED BY <2>2 DEF Contract!SpecNext, Contract!Results, Results
<1>3. ASSUME NEW t \in Threads, Done, Tell(t, status),
             UNCHANGED <<acquirers, result>>
      PROVE  Contract!SpecNext
  <2>1. result = {ErrOf(status)}
    BY <1>3 DEF StatusAgrees
  <2>2. Contract!Learn(t)
    BY <1>3, <2>1 DEF Tell, Contract!Learn
  <2> QED BY <2>2 DEF Contract!SpecNext
<1>4. ASSUME NEW t \in Threads, TryWait(t) PROVE Contract!SpecNext
  BY <1>3, <1>4 DEF TryWait
<1>5. ASSUME NEW t \in Threads, WaitLoad(t)
      PROVE  Contract!SpecNext \/ UNCHANGED Contract!specVars
  BY <1>3, <1>5 DEF WaitLoad, Contract!specVars
<1>6. ASSUME NEW t \in Threads, WaitReload(t) PROVE Contract!SpecNext
  BY <1>3, <1>6 DEF WaitReload, TokenMeansDone
<1>7. ASSUME NEW t \in Threads,
             \/ AcquireLoad(t) \/ FinalizeSignal(t)
             \/ WaitSem(t) \/ WaitRestore(t)
      PROVE  UNCHANGED Contract!specVars
  BY <1>7 DEF AcquireLoad, FinalizeSignal, WaitSem, WaitRestore,
              Contract!specVars
<1>8. CASE Dispose \/ UNCHANGED vars
  BY <1>8 DEF Dispose, vars, Contract!specVars
<1> QED
  BY <1>1, <1>2, <1>4, <1>5, <1>6, <1>7, <1>8 DEF Next, Step

\* future.c implements the contract of future.h.
THEOREM FutureRefines == Spec => ImplementsContract
<1>1. Init => Contract!SpecInit
  BY InitRefines
<1>2. FutureIInv /\ [Next]_vars => [Contract!SpecNext]_(Contract!specVars)
  BY NextRefines
<1> QED
  BY <1>1, <1>2, FutureInvariance, PTL
     DEF Spec, ImplementsContract, Contract!FutureContract

-----------------------------------------------------------------------------
(***************************************************************************)
(* Mutual exclusion of rwmutex_t for any number of threads below the       *)
(* watermark.                                                              *)
(*                                                                         *)
(* The argument is a count: r is the number of counted readers, plus the   *)
(* watermark whenever a writer has claimed the lock.  Since there are      *)
(* fewer threads than the watermark, a reader that reads r below it knows  *)
(* that there is no writer, and a writer that reads 0 that nobody counts.  *)
(***************************************************************************)

Count == Cardinality(Counted)

CountInv ==
  /\ Writers # {} => r = Count + Watermark
  /\ Writers = {} => r = Count

HoldersExclude == Readers # {} => Writers = {} /\ r = Count

OneWriter == \A t, u \in Writers : t = u

\* A thread on its way through mutex_lock or mutex_unlock: only a reader that
\* waits, or a writer, goes there, and a writer's claim ends before mu_sub.
AfterInv ==
  \A t \in RWThreads :
    /\ rwpc[t] \in {"mu_add", "mu_lock"} => after[t] \in {"rlock", "writing"}
    /\ rwpc[t] \in {"mu_sub", "mu_unlock"} => after[t] \in {"idle", "rlock"}

RWIInv == RWTypeOK /\ CountInv /\ OneWriter /\ HoldersExclude /\ AfterInv

-----------------------------------------------------------------------------
\* The set of counted threads is finite and smaller than the watermark.
LEMMA CountBound ==
  ASSUME RWTypeOK
  PROVE  /\ IsFiniteSet(Counted) /\ Count \in Nat /\ Count < Watermark
<1>1. Counted \subseteq RWThreads
  BY DEF Counted
<1>2. IsFiniteSet(Counted) /\ Cardinality(Counted) <= Cardinality(RWThreads)
  BY <1>1, FS_Subset, RWAssumptions
<1>3. Count \in Nat /\ Cardinality(RWThreads) \in Nat
  BY <1>2, FS_CardinalityType, RWAssumptions DEF Count
<1> QED BY <1>2, <1>3, RWAssumptions DEF Count

\* A thread that starts to be counted adds one ...
LEMMA CountUp ==
  ASSUME RWTypeOK, NEW t \in RWThreads, t \notin Counted, Counted' = Counted \cup {t}
  PROVE  Count' = Count + 1
BY CountBound, FS_AddElement DEF Count

\* ... and one that stops takes one away.
LEMMA CountDown ==
  ASSUME RWTypeOK, NEW t \in RWThreads, t \in Counted, Counted' = Counted \ {t}
  PROVE  Count' = Count - 1
BY CountBound, FS_RemoveElement DEF Count

\* r below the watermark means no writer; r = 0 means nobody at all.
LEMMA ReadR ==
  ASSUME RWIInv
  PROVE  /\ r < Watermark => Writers = {} /\ r = Count
         /\ r = 0 => Writers = {} /\ Counted = {}
         /\ Writers # {} => r >= Watermark
<1>1. Count \in Nat /\ Count < Watermark /\ Watermark \in Nat /\ IsFiniteSet(Counted)
  BY CountBound, RWAssumptions DEF RWIInv
<1>2. r < Watermark => Writers = {} /\ r = Count
  BY <1>1 DEF RWIInv, CountInv
<1>3. Count = 0 => Counted = {}
  BY <1>1, FS_EmptySet DEF Count
<1> QED BY <1>1, <1>2, <1>3 DEF RWIInv, CountInv

-----------------------------------------------------------------------------
\* Steps that change neither r nor who is counted or reads.
LEMMA QuietStep ==
  ASSUME RWIInv, RWTypeOK', AfterInv', r' = r, Counted' = Counted,
         Writers' = Writers, Readers' = Readers
  PROVE  RWIInv'
BY DEF RWIInv, CountInv, Count, OneWriter, HoldersExclude

\* A step of a counted or claiming thread that moves it to l.
LEMMA MoveSets ==
  ASSUME RWTypeOK, NEW t \in RWThreads, NEW l \in RWPCs, RWGoto(t, l)
  PROVE  /\ Counted' = IF l \in {"reading", "rsub", "undo", "tryundo"}
                       THEN Counted \cup {t} ELSE Counted \ {t}
         /\ Readers' = IF l \in {"reading", "rsub"}
                       THEN Readers \cup {t} ELSE Readers \ {t}
<1>1. \A u \in RWThreads : rwpc'[u] = IF u = t THEN l ELSE rwpc[u]
  BY DEF RWGoto, RWTypeOK
<1> QED BY <1>1 DEF Counted, Readers

\* The writers after a step of t.
LEMMA MoveWriters ==
  ASSUME RWTypeOK, NEW t \in RWThreads, NEW l \in RWPCs, RWGoto(t, l),
         NEW a, after' = [after EXCEPT ![t] = a]
  PROVE  Writers' = IF \/ l \in {"writing"}
                       \/ l \in {"mu_add", "mu_lock"} /\ a = "writing"
                    THEN Writers \cup {t} ELSE Writers \ {t}
<1>1. \A u \in RWThreads : /\ rwpc'[u] = IF u = t THEN l ELSE rwpc[u]
                         /\ after'[u] = IF u = t THEN a ELSE after[u]
  BY DEF RWGoto, RWTypeOK
<1> QED BY <1>1 DEF Writers, Claims

\* The same for a step that leaves after alone.
LEMMA MoveWritersSame ==
  ASSUME RWTypeOK, NEW t \in RWThreads, NEW l \in RWPCs, RWGoto(t, l), after' = after
  PROVE  Writers' = IF \/ l \in {"writing"}
                       \/ l \in {"mu_add", "mu_lock"} /\ after[t] = "writing"
                    THEN Writers \cup {t} ELSE Writers \ {t}
<1>1. \A u \in RWThreads : rwpc'[u] = IF u = t THEN l ELSE rwpc[u]
  BY DEF RWGoto, RWTypeOK
<1> QED BY <1>1 DEF Writers, Claims

-----------------------------------------------------------------------------
\* Calls and the steps of mutex_lock and mutex_unlock.
LEMMA MutexSteps ==
  ASSUME RWIInv, NEW t \in RWThreads,
         \/ Call(t) \/ MutexAdd(t) \/ MutexLock(t) \/ MutexSub(t) \/ MutexUnlock(t)
  PROVE  RWIInv'
<1>1. PICK l \in RWPCs \ {"reading", "rsub", "undo", "tryundo"} :
        /\ RWGoto(t, l)
        /\ l = "writing" => rwpc[t] = "mu_lock" /\ after[t] = "writing"
        /\ l \in {"mu_add", "mu_lock"} => rwpc[t] = "mu_add"
        /\ l \in {"mu_sub", "mu_unlock"} => after[t] \in {"idle", "rlock"}
        /\ Claims(t) => l \in {"mu_lock", "writing"}
  BY DEF Call, MutexAdd, MutexLock, MutexSub, MutexUnlock, RWIInv, RWTypeOK, RWPCs, AfterInv,
         Claims
<1>2. /\ UNCHANGED <<r, after>> /\ RWTypeOK
      /\ rwpc[t] \in {"idle", "mu_add", "mu_lock", "mu_sub", "mu_unlock"}
  BY DEF Call, MutexAdd, MutexLock, MutexSub, MutexUnlock, RWIInv
<1>3. RWTypeOK'
  <2>1. rwpc' \in [RWThreads -> RWPCs]
    BY <1>1, <1>2 DEF RWGoto, RWTypeOK
  <2>2. w' \in Int /\ m' \in RWThreads \cup {NoOne}
    BY <1>2 DEF Call, MutexAdd, MutexLock, MutexSub, MutexUnlock, RWTypeOK
  <2>3. checks' \in BOOLEAN
    BY <1>2 DEF Call, MutexAdd, MutexLock, MutexSub, MutexUnlock, RWTypeOK
  <2>4. ops' \in [RWThreads -> Nat]
    BY <1>2 DEF Call, MutexAdd, MutexLock, MutexSub, MutexUnlock, RWTypeOK
  <2> QED BY <1>2, <2>1, <2>2, <2>3, <2>4 DEF RWTypeOK
<1>4. Counted' = Counted /\ Readers' = Readers
  BY <1>1, <1>2, MoveSets DEF Counted, Readers
<1>5. Writers' = Writers
  BY <1>1, <1>2, MoveWritersSame DEF Writers, Claims
<1>6. AfterInv'
  BY <1>1, <1>2 DEF RWGoto, RWIInv, RWTypeOK, AfterInv
<1> QED BY <1>2, <1>3, <1>4, <1>5, <1>6, QuietStep

\* rwmutex_rlock and rwmutex_tryrlock: the optimistic increment.
LEMMA ReadAttempt ==
  ASSUME RWIInv, NEW t \in RWThreads, RLock(t) \/ TryRLock(t)
  PROVE  RWIInv'
<1>1. PICK l \in {"reading", "undo", "tryundo"} :
        /\ RWGoto(t, l)
        /\ l = "reading" <=> r < Watermark
  BY DEF RLock, TryRLock, NoWriter
<1>2. /\ r' = r + 1 /\ after' = after /\ RWTypeOK
      /\ rwpc[t] \in {"rlock", "tryrlock"}
  BY DEF RLock, TryRLock, RWIInv
<1>3. RWTypeOK' /\ AfterInv'
  BY <1>1, <1>2 DEF RLock, TryRLock, RWGoto, RWIInv, RWTypeOK, AfterInv, RWPCs
<1>4. /\ Counted' = Counted \cup {t} /\ t \notin Counted
      /\ Readers' = IF l = "reading" THEN Readers \cup {t} ELSE Readers \ {t}
  BY <1>1, <1>2, MoveSets DEF Counted, RWPCs
<1>5. Writers' = Writers
  BY <1>1, <1>2, MoveWritersSame DEF Writers, Claims, RWPCs
<1>6. Count' = Count + 1 /\ Count \in Nat
  BY <1>2, <1>4, CountUp, CountBound
<1>7. CountInv' /\ OneWriter'
  BY <1>2, <1>5, <1>6, RWAssumptions DEF RWIInv, CountInv, OneWriter, RWTypeOK
<1>8. HoldersExclude'
  <2>1. CASE l = "reading"
    BY <1>1, <1>2, <1>5, <1>6, <2>1, ReadR DEF HoldersExclude
  <2>2. CASE l # "reading"
    BY <1>2, <1>4, <1>5, <1>6, <2>2 DEF RWIInv, HoldersExclude
  <2> QED BY <2>1, <2>2
<1> QED BY <1>3, <1>7, <1>8 DEF RWIInv

\* A counted thread takes its increment back.
LEMMA ReadRelease ==
  ASSUME RWIInv, NEW t \in RWThreads,
         RLockUndo(t) \/ TryRLockUndo(t) \/ RUnlock(t)
  PROVE  RWIInv'
<1>1. PICK l \in {"mu_add", "idle"} :
        /\ RWGoto(t, l)
        /\ l = "mu_add" => after' = [after EXCEPT ![t] = "rlock"]
        /\ l = "idle" => after' = after
  BY DEF RLockUndo, TryRLockUndo, RUnlock, Then
<1>2. r' = r - 1 /\ RWTypeOK /\ rwpc[t] \in {"undo", "tryundo", "rsub"}
  BY DEF RLockUndo, TryRLockUndo, RUnlock, Undo, RWIInv
<1>3. /\ Counted' = Counted \ {t} /\ t \in Counted
      /\ Readers' = Readers \ {t}
  BY <1>1, <1>2, MoveSets DEF Counted, RWPCs
<1>4. Count' = Count - 1 /\ Count \in Nat /\ Count' \in Nat
  <2>1. Count' = Count - 1 /\ Count \in Nat
    BY <1>2, <1>3, CountDown, CountBound
  <2>2. Count # 0
    BY <1>2, <1>3, CountBound, FS_EmptySet DEF Count
  <2> QED BY <2>1, <2>2
<1>5. Writers' = Writers
  <2>1. t \notin Writers
    BY <1>2 DEF Writers, Claims
  <2>2. CASE l = "mu_add"
    BY <1>1, <1>2, <2>1, <2>2, MoveWriters DEF RWPCs
  <2>3. CASE l = "idle"
    BY <1>1, <1>2, <2>1, <2>3, MoveWritersSame DEF RWPCs
  <2> QED BY <2>2, <2>3
<1>6. CountInv' /\ OneWriter'
  BY <1>2, <1>4, <1>5, RWAssumptions DEF RWIInv, CountInv, OneWriter, RWTypeOK
<1>7. r' \in Nat
  BY <1>4, <1>6, RWAssumptions DEF CountInv
<1>8. RWTypeOK' /\ AfterInv'
  BY <1>1, <1>2, <1>7 DEF RLockUndo, TryRLockUndo, RUnlock, RWGoto, RWIInv, RWTypeOK, AfterInv, RWPCs
<1>9. HoldersExclude'
  BY <1>2, <1>3, <1>4, <1>5 DEF RWIInv, HoldersExclude, RWTypeOK
<1> QED BY <1>6, <1>8, <1>9 DEF RWIInv

\* The load of rwmutex_runlock: a reader always finds r below the watermark.
LEMMA ReadUnlockLoad ==
  ASSUME RWIInv, NEW t \in RWThreads, RUnlockLoad(t)
  PROVE  RWIInv'
<1>1. rwpc[t] = "reading" /\ t \in Readers /\ RWTypeOK
  BY DEF RUnlockLoad, Readers, RWIInv
<1>2. r < Watermark
  BY <1>1, CountBound DEF RWIInv, HoldersExclude
<1>3. /\ RWGoto(t, "rsub") /\ after' = [after EXCEPT ![t] = "reading"]
      /\ UNCHANGED <<r, w, m, ops>> /\ checks' \in BOOLEAN
  BY <1>2 DEF RUnlockLoad, NoWriter, Then, RWIInv, RWTypeOK
<1>4. RWTypeOK' /\ AfterInv'
  BY <1>1, <1>3 DEF RWGoto, RWIInv, RWTypeOK, AfterInv, RWPCs
<1>5. Counted' = Counted /\ Readers' = Readers
  BY <1>1, <1>3, MoveSets DEF Counted, Readers, RWPCs
<1>6. Writers' = Writers
  BY <1>1, <1>3, MoveWriters DEF Writers, Claims, RWPCs
<1> QED BY <1>3, <1>4, <1>5, <1>6, QuietStep

\* The compare-and-swap of rwmutex_lock.
LEMMA WriteClaim ==
  ASSUME RWIInv, NEW t \in RWThreads, Lock(t)
  PROVE  RWIInv'
<1>1. r = 0 /\ r' = Watermark /\ RWTypeOK /\ rwpc[t] = "lock"
  BY DEF Lock, Unlocked, RWIInv
<1>2. RWGoto(t, "mu_add") /\ after' = [after EXCEPT ![t] = "writing"]
  BY DEF Lock, Then
<1>3. Writers = {} /\ Counted = {}
  BY <1>1, ReadR
<1>4. Counted' = {} /\ Readers' = {}
  BY <1>1, <1>2, <1>3, MoveSets DEF Counted, Readers, RWPCs
<1>5. Writers' = {t}
  BY <1>1, <1>2, <1>3, MoveWriters DEF RWPCs
<1>6. Count' = 0
  BY <1>4, FS_EmptySet DEF Count
<1>7. RWTypeOK' /\ AfterInv'
  BY <1>1, <1>2, RWAssumptions
     DEF Lock, RWGoto, RWIInv, RWTypeOK, AfterInv, RWPCs
<1> QED
  BY <1>1, <1>4, <1>5, <1>6, <1>7, RWAssumptions
     DEF RWIInv, CountInv, OneWriter, HoldersExclude

\* rwmutex_unlock.
LEMMA WriteRelease ==
  ASSUME RWIInv, NEW t \in RWThreads, Unlock(t)
  PROVE  RWIInv'
<1>1. /\ rwpc[t] = "writing" /\ RWTypeOK /\ r' = r - Watermark
      /\ RWGoto(t, "mu_sub") /\ after' = [after EXCEPT ![t] = "idle"]
  BY DEF Unlock, WriteReleased, Then, RWIInv
<1>2. t \in Writers
  BY <1>1 DEF Writers, Claims
<1>3. Counted' = Counted /\ Readers' = Readers
  BY <1>1, MoveSets DEF Counted, Readers, RWPCs
<1>4. Writers' = {}
  BY <1>1, <1>2, MoveWriters DEF RWIInv, OneWriter, RWPCs
<1>5. Count \in Nat /\ r = Count + Watermark /\ Watermark \in Nat
  BY <1>1, <1>2, CountBound, RWAssumptions DEF RWIInv, CountInv
<1>6. r' = Count /\ Count' = Count
  BY <1>1, <1>3, <1>5 DEF Count
<1>7. RWTypeOK' /\ AfterInv'
  BY <1>1, <1>5, <1>6 DEF Unlock, RWGoto, RWIInv, RWTypeOK, AfterInv, RWPCs
<1> QED
  BY <1>4, <1>5, <1>6, <1>7 DEF RWIInv, CountInv, OneWriter, HoldersExclude

-----------------------------------------------------------------------------
\* The initial state satisfies the invariant.
LEMMA RWInitIInv == RWInit => RWIInv
<1> SUFFICES ASSUME RWInit PROVE RWIInv
  OBVIOUS
<1>1. RWTypeOK /\ AfterInv
  BY DEF RWInit, RWTypeOK, AfterInv, RWPCs
<1>2. Counted = {} /\ Readers = {} /\ Writers = {}
  BY DEF RWInit, Counted, Readers, Writers, Claims
<1>3. Count = 0
  BY <1>2, FS_EmptySet DEF Count
<1> QED
  BY <1>1, <1>2, <1>3 DEF RWInit, RWIInv, CountInv, OneWriter, HoldersExclude

\* Every step preserves it.
LEMMA RWNextIInv == RWIInv /\ [RWNext]_rwVars => RWIInv'
<1> SUFFICES ASSUME RWIInv, [RWNext]_rwVars PROVE RWIInv'
  OBVIOUS
<1>1. ASSUME NEW t \in RWThreads, Call(t) \/ RWStep(t) PROVE RWIInv'
  BY <1>1, MutexSteps, ReadAttempt, ReadRelease, ReadUnlockLoad, WriteClaim,
     WriteRelease DEF RWStep
<1>2. CASE UNCHANGED rwVars
  BY <1>2 DEF rwVars, RWIInv, RWTypeOK, AfterInv, CountInv, Count, OneWriter,
              HoldersExclude, Counted, Readers, Writers, Claims
<1> QED BY <1>1, <1>2 DEF RWNext

-----------------------------------------------------------------------------
(***************************************************************************)
(* The internal checks.  mutex_unlock finds w > 0 because w is the number  *)
(* of threads between the addition of mutex_lock and the subtraction of    *)
(* mutex_unlock, and the OS mutex is unlocked by its owner because only    *)
(* the owner gets there.                                                   *)
(***************************************************************************)
Entered == {t \in RWThreads : rwpc[t] \in {"mu_lock", "writing", "mu_sub"}}

EnteredCounted == w = Cardinality(Entered)

OwnerInside ==
  \A t \in RWThreads : rwpc[t] \in {"writing", "mu_sub", "mu_unlock"} <=> m = t

MutexInv == EnteredCounted /\ OwnerInside /\ ChecksHold

LEMMA InitMutexInv == RWInit => MutexInv
<1> SUFFICES ASSUME RWInit PROVE MutexInv
  OBVIOUS
<1>1. Entered = {}
  BY DEF RWInit, Entered
<1>2. EnteredCounted
  BY <1>1, FS_EmptySet DEF RWInit, EnteredCounted
<1>3. OwnerInside /\ ChecksHold
  BY NoOneAssumption DEF RWInit, OwnerInside, ChecksHold
<1> QED BY <1>2, <1>3 DEF MutexInv

\* A step of t to l changes who is entered and inside at t only.
LEMMA MoveEntered ==
  ASSUME RWTypeOK, NEW t \in RWThreads, NEW l \in RWPCs, RWGoto(t, l)
  PROVE  /\ IsFiniteSet(Entered) /\ Cardinality(Entered) \in Nat
         /\ t \in Entered => Cardinality(Entered) > 0
         /\ Cardinality(Entered') =
              IF l \in {"mu_lock", "writing", "mu_sub"}
              THEN IF t \in Entered THEN Cardinality(Entered) ELSE Cardinality(Entered) + 1
              ELSE IF t \in Entered THEN Cardinality(Entered) - 1 ELSE Cardinality(Entered)
         /\ \A u \in RWThreads : rwpc'[u] = IF u = t THEN l ELSE rwpc[u]
<1>1. \A u \in RWThreads : rwpc'[u] = IF u = t THEN l ELSE rwpc[u]
  BY DEF RWGoto, RWTypeOK
<1>2. IsFiniteSet(Entered) /\ Cardinality(Entered) \in Nat
  BY RWAssumptions, FS_Subset, FS_CardinalityType DEF Entered
<1>3. t \in Entered => Cardinality(Entered) > 0
  BY <1>2, FS_EmptySet
<1>4. CASE l \in {"mu_lock", "writing", "mu_sub"}
  <2>1. Entered' = Entered \cup {t}
    BY <1>1, <1>4 DEF Entered
  <2> QED BY <1>1, <1>2, <1>3, <1>4, <2>1, FS_AddElement
<1>5. CASE l \notin {"mu_lock", "writing", "mu_sub"}
  <2>1. Entered' = Entered \ {t}
    BY <1>1, <1>5 DEF Entered
  <2> QED BY <1>1, <1>2, <1>3, <1>5, <2>1, FS_RemoveElement
<1> QED BY <1>4, <1>5

\* The steps of mutex_lock and mutex_unlock, and of a writer that releases.
LEMMA MutexChecked ==
  ASSUME RWIInv, MutexInv, NEW t \in RWThreads,
         \/ MutexAdd(t) \/ MutexLock(t) \/ MutexSub(t) \/ MutexUnlock(t) \/ Unlock(t)
  PROVE  MutexInv'
<1>0. RWTypeOK /\ EnteredCounted /\ OwnerInside /\ ChecksHold
  BY DEF RWIInv, MutexInv
<1>1. CASE MutexAdd(t)
  <2>1. /\ RWGoto(t, "mu_lock") /\ w' = w + 1 /\ m' = m /\ checks' = checks
        /\ rwpc[t] = "mu_add" /\ t \notin Entered
    BY <1>1 DEF MutexAdd, Entered
  <2>2. EnteredCounted'
    BY <1>0, <2>1, MoveEntered DEF EnteredCounted, RWPCs
  <2>3. OwnerInside'
    BY <1>0, <2>1, MoveEntered DEF OwnerInside, RWPCs
  <2> QED BY <1>0, <2>1, <2>2, <2>3 DEF MutexInv, ChecksHold
<1>2. CASE MutexLock(t)
  <2>1. PICK l \in {"writing", "mu_sub"} : RWGoto(t, l)
    BY <1>2 DEF MutexLock
  <2>2. /\ w' = w /\ m = NoOne /\ m' = t /\ checks' = checks
        /\ rwpc[t] = "mu_lock" /\ t \in Entered
    BY <1>2 DEF MutexLock, Entered
  <2>3. EnteredCounted'
    BY <1>0, <2>1, <2>2, MoveEntered DEF EnteredCounted, RWPCs
  <2>4. OwnerInside'
    BY <1>0, <2>1, <2>2, MoveEntered, NoOneAssumption DEF OwnerInside, RWPCs
  <2> QED BY <1>0, <2>2, <2>3, <2>4 DEF MutexInv, ChecksHold
<1>3. CASE MutexSub(t)
  <2>1. /\ RWGoto(t, "mu_unlock") /\ w' = w - 1 /\ m' = m
        /\ rwpc[t] = "mu_sub" /\ t \in Entered
    BY <1>3 DEF MutexSub, Entered
  <2>2. w > 0
    BY <1>0, <2>1, MoveEntered DEF EnteredCounted, RWPCs
  <2>3. checks'
    BY <1>0, <1>3, <2>2 DEF MutexSub, ChecksHold
  <2>4. EnteredCounted'
    BY <1>0, <2>1, MoveEntered DEF EnteredCounted, RWPCs
  <2>5. OwnerInside'
    BY <1>0, <2>1, MoveEntered DEF OwnerInside, RWPCs
  <2> QED BY <2>3, <2>4, <2>5 DEF MutexInv, ChecksHold
<1>4. CASE MutexUnlock(t)
  <2>1. PICK l \in {"idle", "rlock"} : RWGoto(t, l)
    BY <1>4 DEF MutexUnlock, RWIInv, AfterInv
  <2>2. /\ w' = w /\ m' = NoOne
        /\ rwpc[t] = "mu_unlock" /\ t \notin Entered
    BY <1>4 DEF MutexUnlock, Entered
  <2>3. m = t
    BY <1>0, <2>2 DEF OwnerInside
  <2>4. checks'
    BY <1>0, <1>4, <2>3 DEF MutexUnlock, ChecksHold
  <2>5. EnteredCounted'
    BY <1>0, <2>1, <2>2, MoveEntered DEF EnteredCounted, RWPCs
  <2>6. OwnerInside'
    BY <1>0, <2>1, <2>2, <2>3, MoveEntered, NoOneAssumption DEF OwnerInside, RWPCs
  <2> QED BY <2>4, <2>5, <2>6 DEF MutexInv, ChecksHold
<1>5. CASE Unlock(t)
  <2>1. /\ RWGoto(t, "mu_sub") /\ w' = w /\ m' = m
        /\ rwpc[t] = "writing" /\ t \in Entered /\ t \in Writers
    BY <1>5 DEF Unlock, Entered, Writers, Claims
  <2>2. r >= Watermark
    BY <2>1, ReadR
  <2>3. checks'
    BY <1>0, <1>5, <2>2 DEF Unlock, ChecksHold
  <2>4. EnteredCounted'
    BY <1>0, <2>1, MoveEntered DEF EnteredCounted, RWPCs
  <2>5. OwnerInside'
    BY <1>0, <2>1, MoveEntered DEF OwnerInside, RWPCs
  <2> QED BY <2>3, <2>4, <2>5 DEF MutexInv, ChecksHold
<1> QED BY <1>1, <1>2, <1>3, <1>4, <1>5

\* The steps outside the OS mutex.  A reader that unlocks finds itself counted.
LEMMA OutsideChecked ==
  ASSUME RWIInv, MutexInv, NEW t \in RWThreads,
         \/ Call(t) \/ RLock(t) \/ RLockUndo(t) \/ TryRLock(t) \/ TryRLockUndo(t)
         \/ RUnlockLoad(t) \/ RUnlock(t) \/ Lock(t)
  PROVE  MutexInv'
<1>0. RWTypeOK /\ EnteredCounted /\ OwnerInside /\ ChecksHold
  BY DEF RWIInv, MutexInv
<1>1. PICK l \in RWPCs \ {"writing", "mu_lock", "mu_sub", "mu_unlock"} : RWGoto(t, l)
  BY DEF Call, RLock, RLockUndo, TryRLock, TryRLockUndo, RUnlockLoad, RUnlock, Lock, RWPCs
<1>2. /\ w' = w /\ m' = m
      /\ rwpc[t] \notin {"writing", "mu_lock", "mu_sub", "mu_unlock"} /\ t \notin Entered
  BY DEF Call, RLock, RLockUndo, TryRLock, TryRLockUndo, RUnlockLoad, RUnlock, Lock, Entered
<1>3. EnteredCounted'
  BY <1>0, <1>1, <1>2, MoveEntered DEF EnteredCounted
<1>4. OwnerInside'
  BY <1>0, <1>1, <1>2, MoveEntered DEF OwnerInside
<1>5. checks'
  <2>1. CASE RUnlockLoad(t)
    <3>1. t \in Counted /\ t \in Readers
      BY <2>1 DEF RUnlockLoad, Counted, Readers
    <3>2. r = Count /\ Count # 0
      BY <1>0, <3>1, CountBound, FS_EmptySet DEF RWIInv, HoldersExclude, Count
    <3> QED BY <1>0, <2>1, <3>2 DEF RUnlockLoad, ChecksHold
  <2>2. CASE ~RUnlockLoad(t)
    BY <1>0, <2>2 DEF Call, RLock, RLockUndo, TryRLock, TryRLockUndo, RUnlock, Lock, ChecksHold
  <2> QED BY <2>1, <2>2
<1> QED BY <1>3, <1>4, <1>5 DEF MutexInv, ChecksHold

LEMMA NextMutexInv == RWIInv /\ MutexInv /\ [RWNext]_rwVars => MutexInv'
<1> SUFFICES ASSUME RWIInv, MutexInv, [RWNext]_rwVars PROVE MutexInv'
  OBVIOUS
<1>1. ASSUME NEW t \in RWThreads, Call(t) \/ RWStep(t) PROVE MutexInv'
  BY <1>1, MutexChecked, OutsideChecked DEF RWStep
<1>2. CASE UNCHANGED rwVars
  BY <1>2 DEF rwVars, MutexInv, EnteredCounted, Entered, OwnerInside, ChecksHold
<1> QED BY <1>1, <1>2 DEF RWNext

-----------------------------------------------------------------------------
\* The invariant holds in every reachable state.
THEOREM RWInvariance == RWSpec => [](RWIInv /\ MutexInv)
BY RWInitIInv, RWNextIInv, InitMutexInv, NextMutexInv, PTL DEF RWSpec

\* The lock word never underflows and the state is well typed.
THEOREM RWTypeCorrect == RWSpec => []RWTypeOK
BY RWInvariance, PTL DEF RWIInv

\* While a thread has claimed the write lock nobody else has, and nobody
\* reads; r is the counted readers and the writer's watermark, and no check of
\* rwmutex_runlock, rwmutex_unlock or mutex_unlock fails: for any number of
\* threads below the watermark.
THEOREM RWLockSound == RWSpec => []RWSound
<1>1. RWIInv => Exclusion
  BY DEF RWIInv, OneWriter, HoldersExclude, Exclusion, Readers
<1>2. RWIInv => CountMatches
  <2> SUFFICES ASSUME RWIInv PROVE CountMatches
    OBVIOUS
  <2>1. Count \in Nat /\ Watermark \in Nat
    BY CountBound, RWAssumptions DEF RWIInv
  <2> QED BY <2>1 DEF RWIInv, CountInv, CountMatches, Count
<1>3. RWIInv /\ MutexInv => RWSound
  BY <1>1, <1>2 DEF MutexInv, RWSound
<1> QED BY <1>3, RWInvariance, PTL

-----------------------------------------------------------------------------
(***************************************************************************)
(* spinmutex_t, for any finite set of threads.                             *)
(*                                                                         *)
(* Mutual exclusion is inductive together with the types: the flag is set  *)
(* exactly while one thread is inside.  That no sleeper is forgotten rests *)
(* on nwait: it counts the threads between their increment and their       *)
(* decrement, so that an unlocker that reads 0 has nobody to wake; and on  *)
(* tired, which stays set until the next exchange: a thread that leaves    *)
(* the inner loop spins until it exchanges the flag again.                 *)
(***************************************************************************)

SpinIInv == SpinTypeOK /\ MutualExclusion

\* The initial state satisfies the invariant.
LEMMA SpinInitIInv == SpinInit => SpinIInv
<1> SUFFICES ASSUME SpinInit PROVE SpinIInv
  OBVIOUS
<1>1. SpinTypeOK
  <2>1. flag \in BOOLEAN /\ tired \in [SpinThreads -> BOOLEAN]
    BY Zenon DEF SpinInit
  <2>2. /\ nwait \in Int /\ sema \in Nat /\ sops \in [SpinThreads -> Nat]
        /\ spc \in [SpinThreads -> SpinPCs]
    BY SMT DEF SpinInit, SpinPCs
  <2> QED BY <2>1, <2>2 DEF SpinTypeOK
<1>2. MutualExclusion
  BY DEF SpinInit, MutualExclusion
<1> QED BY <1>1, <1>2 DEF SpinIInv

\* Steps outside the critical section that leave the flag alone.
LEMMA OutsideStep ==
  ASSUME SpinIInv, SpinTypeOK', flag' = flag, NEW t \in SpinThreads, NEW l \in SpinPCs \ {"critical"},
         SpinGoto(t, l), spc[t] # "critical"
  PROVE  SpinIInv'
<1>1. \A u \in SpinThreads : spc'[u] = "critical" <=> spc[u] = "critical"
  BY DEF SpinIInv, SpinTypeOK, SpinGoto
<1> QED BY <1>1 DEF SpinIInv, MutualExclusion

\* Every step preserves the invariant.
LEMMA SpinNextIInv == SpinIInv /\ [SpinNext]_spinVars => SpinIInv'
<1> SUFFICES ASSUME SpinIInv, [SpinNext]_spinVars PROVE SpinIInv'
  OBVIOUS
<1>1. ASSUME NEW t \in SpinThreads,
             \/ SpinCall(t) \/ SpinEnds(t) \/ SpinTired(t) \/ Announce(t)
             \/ SleepTest(t)
      PROVE  SpinIInv'
  <2>1. SpinTypeOK'
    <3>1. CASE SpinCall(t) \/ SpinEnds(t) \/ Announce(t)
      BY <3>1 DEF SpinIInv, SpinTypeOK, SpinPCs, SpinGoto, SpinCall, SpinEnds, Announce
    <3>3. CASE SpinTired(t)
      <4>1. tired' \in [SpinThreads -> BOOLEAN]
        BY <3>3, Zenon DEF SpinIInv, SpinTypeOK, SpinTired
      <4>2. spc' \in [SpinThreads -> SpinPCs]
        BY <3>3 DEF SpinIInv, SpinTypeOK, SpinPCs, SpinGoto, SpinTired
      <4> QED BY <3>3, <4>1, <4>2 DEF SpinIInv, SpinTypeOK, SpinTired
    <3>2. CASE SleepTest(t)
      BY <3>2 DEF SpinIInv, SpinTypeOK, SpinPCs, SpinGoto, SleepTest
    <3> QED BY <1>1, <3>1, <3>2, <3>3
  <2>2. \E l \in SpinPCs \ {"critical"} : SpinGoto(t, l)
    BY <1>1 DEF SpinPCs, SpinCall, SpinEnds, SpinTired, Announce, SleepTest
  <2>3. flag' = flag /\ spc[t] # "critical"
    BY <1>1 DEF SpinCall, SpinEnds, SpinTired, Announce, SleepTest
  <2> QED BY <2>1, <2>2, <2>3, OutsideStep
<1>2. ASSUME NEW t \in SpinThreads,
             Sleep(t) \/ Leave(t) \/ LoadWaiters(t) \/ SignalOne(t)
      PROVE  SpinIInv'
  <2>1. SpinTypeOK'
    BY <1>2 DEF SpinIInv, SpinTypeOK, SpinPCs, SpinGoto, Sleep, SpinToken, Leave, LoadWaiters, SignalOne
  <2>2. \E l \in SpinPCs \ {"critical"} : SpinGoto(t, l)
    BY <1>2 DEF SpinPCs, Sleep, Leave, LoadWaiters, SignalOne
  <2>3. flag' = flag /\ spc[t] # "critical"
    BY <1>2 DEF Sleep, Leave, LoadWaiters, SignalOne
  <2> QED BY <2>1, <2>2, <2>3, OutsideStep
<1>3. ASSUME NEW t \in SpinThreads, Exchange(t) PROVE SpinIInv'
  <2>1. SpinTypeOK'
    BY <1>3 DEF SpinIInv, SpinTypeOK, SpinPCs, SpinGoto, Exchange
  <2>2. CASE flag
    <3>1. /\ flag' = TRUE
          /\ \A u \in SpinThreads : spc'[u] = "critical" <=> spc[u] = "critical"
      BY <1>3, <2>2 DEF SpinIInv, SpinTypeOK, Exchange, SpinFree, SpinGoto
    <3> QED BY <2>1, <2>2, <3>1 DEF SpinIInv, MutualExclusion
  <2>3. CASE ~flag
    <3>1. /\ flag' = TRUE
          /\ \A u \in SpinThreads : spc'[u] = "critical" <=> u = t
      BY <1>3, <2>3 DEF SpinIInv, SpinTypeOK, MutualExclusion, Exchange, SpinFree, SpinGoto
    <3> QED BY <2>1, <3>1 DEF SpinIInv, MutualExclusion
  <2> QED BY <2>2, <2>3
<1>4. ASSUME NEW t \in SpinThreads, SpinUnlock(t) PROVE SpinIInv'
  <2>1. SpinTypeOK'
    BY <1>4 DEF SpinIInv, SpinTypeOK, SpinPCs, SpinGoto, SpinUnlock
  <2>2. flag' = FALSE /\ \A u \in SpinThreads : spc'[u] # "critical"
    BY <1>4 DEF SpinIInv, SpinTypeOK, MutualExclusion, SpinUnlock, SpinGoto
  <2> QED BY <2>1, <2>2 DEF SpinIInv, MutualExclusion
<1>5. CASE UNCHANGED spinVars
  BY <1>5 DEF spinVars, SpinIInv, SpinTypeOK, MutualExclusion
<1> QED BY <1>1, <1>2, <1>3, <1>4, <1>5 DEF SpinNext, SpinStep

-----------------------------------------------------------------------------
Announced == {t \in SpinThreads : spc[t] \in {"test", "sleep", "leave"}}

WaitersCounted == nwait = Cardinality(Announced)

TiredUntilExchange ==
  \A t \in SpinThreads : spc[t] \in {"announce", "test", "sleep", "leave"} => tired[t]

WakeInv == WaitersCounted /\ TiredUntilExchange /\ SleeperNotForgotten

LEMMA InitWakeInv == SpinInit => WakeInv
<1> SUFFICES ASSUME SpinInit PROVE WakeInv
  OBVIOUS
<1>1. Announced = {}
  BY DEF SpinInit, Announced
<1>2. WaitersCounted
  BY <1>1, FS_EmptySet DEF SpinInit, WaitersCounted
<1>3. TiredUntilExchange /\ SleeperNotForgotten
  BY DEF SpinInit, TiredUntilExchange, SleeperNotForgotten
<1> QED BY <1>2, <1>3 DEF WakeInv

\* A step of t to l changes the announced threads at t only.
LEMMA MoveAnnounced ==
  ASSUME SpinTypeOK, NEW t \in SpinThreads, NEW l \in SpinPCs, SpinGoto(t, l)
  PROVE  /\ Cardinality(Announced) \in Nat
         /\ Cardinality(Announced) = 0 => Announced = {}
         /\ Cardinality(Announced') =
              IF l \in {"test", "sleep", "leave"}
              THEN IF t \in Announced THEN Cardinality(Announced) ELSE Cardinality(Announced) + 1
              ELSE IF t \in Announced THEN Cardinality(Announced) - 1 ELSE Cardinality(Announced)
         /\ \A u \in SpinThreads : spc'[u] = IF u = t THEN l ELSE spc[u]
<1>1. \A u \in SpinThreads : spc'[u] = IF u = t THEN l ELSE spc[u]
  BY DEF SpinGoto, SpinTypeOK
<1>2. IsFiniteSet(Announced) /\ Cardinality(Announced) \in Nat
  BY SpinAssumptions, FS_Subset, FS_CardinalityType DEF Announced
<1>3. Cardinality(Announced) = 0 => Announced = {}
  BY <1>2, FS_EmptySet
<1>4. CASE l \in {"test", "sleep", "leave"}
  <2>1. Announced' = Announced \cup {t}
    BY <1>1, <1>4 DEF Announced
  <2> QED BY <1>1, <1>2, <1>3, <1>4, <2>1, FS_AddElement
<1>5. CASE l \notin {"test", "sleep", "leave"}
  <2>1. Announced' = Announced \ {t}
    BY <1>1, <1>5 DEF Announced
  <2> QED BY <1>1, <1>2, <1>3, <1>5, <2>1, FS_RemoveElement
<1> QED BY <1>4, <1>5

\* nwait stays the number of announced threads.
LEMMA CountStep ==
  ASSUME SpinIInv, WakeInv, NEW t \in SpinThreads, SpinCall(t) \/ SpinStep(t)
  PROVE  WaitersCounted'
<1>0. SpinTypeOK /\ WaitersCounted
  BY DEF SpinIInv, WakeInv
<1>1. PICK l \in SpinPCs : SpinGoto(t, l)
  BY DEF SpinCall, SpinStep, Exchange, SpinEnds, SpinTired, Announce, SleepTest, Sleep,
         Leave, SpinUnlock, LoadWaiters, SignalOne, SpinPCs
<1>2. spc'[t] = l
  BY <1>0, <1>1 DEF SpinTypeOK, SpinGoto
<1>3. CASE Announce(t)
  <2>1. l = "test" /\ t \notin Announced /\ nwait' = nwait + 1
    BY <1>0, <1>2, <1>3 DEF Announce, Announced, SpinGoto, SpinTypeOK
  <2> QED BY <1>0, <1>1, <2>1, MoveAnnounced DEF WaitersCounted
<1>4. CASE Leave(t)
  <2>1. l = "spin" /\ t \in Announced /\ nwait' = nwait - 1
    BY <1>0, <1>2, <1>4 DEF Leave, Announced, SpinGoto, SpinTypeOK
  <2> QED BY <1>0, <1>1, <2>1, MoveAnnounced DEF WaitersCounted
<1>5. CASE ~Announce(t) /\ ~Leave(t)
  <2>1. nwait' = nwait /\ (l \in {"test", "sleep", "leave"} <=> t \in Announced)
    BY <1>0, <1>2, <1>5
       DEF SpinCall, SpinStep, Exchange, SpinEnds, SpinTired, SleepTest, Sleep, SpinUnlock,
           LoadWaiters, SignalOne, Announced, SpinGoto, SpinTypeOK
  <2> QED BY <1>0, <1>1, <2>1, MoveAnnounced DEF WaitersCounted
<1> QED BY <1>3, <1>4, <1>5

\* Only an exchange makes a thread fresh again.
LEMMA TiredStep ==
  ASSUME SpinIInv, WakeInv, NEW t \in SpinThreads, SpinCall(t) \/ SpinStep(t)
  PROVE  TiredUntilExchange'
<1>0. SpinTypeOK /\ TiredUntilExchange
  BY DEF SpinIInv, WakeInv
<1>1. CASE Exchange(t)
  <2>1. \A u \in SpinThreads \ {t} : spc'[u] = spc[u] /\ tired'[u] = tired[u]
    BY <1>0, <1>1 DEF Exchange, SpinGoto, SpinTypeOK
  <2>2. spc'[t] \in {"critical", "spin"}
    BY <1>0, <1>1 DEF Exchange, SpinGoto, SpinTypeOK
  <2> QED BY <1>0, <2>1, <2>2 DEF TiredUntilExchange
<1>2. CASE SpinTired(t)
  <2>1. \A u \in SpinThreads \ {t} : spc'[u] = spc[u] /\ tired'[u] = tired[u]
    BY <1>0, <1>2 DEF SpinTired, SpinGoto, SpinTypeOK
  <2>2. tired'[t] = TRUE
    BY <1>0, <1>2 DEF SpinTired, SpinTypeOK
  <2>3. tired'[t]
    BY <2>2
  <2> QED BY <1>0, <2>1, <2>3, Zenon DEF TiredUntilExchange
<1>3. CASE ~Exchange(t) /\ ~SpinTired(t)
  <2>1. tired' = tired /\ \A u \in SpinThreads \ {t} : spc'[u] = spc[u]
    BY <1>0, <1>3
       DEF SpinCall, SpinStep, SpinEnds, Announce, SleepTest, Sleep, Leave, SpinUnlock,
           LoadWaiters, SignalOne, SpinGoto, SpinTypeOK
  <2>2. spc'[t] \in {"announce", "test", "sleep", "leave"} =>
          spc[t] \in {"announce", "test", "sleep", "leave"}
    BY <1>0, <1>3
       DEF SpinCall, SpinStep, SpinEnds, Announce, SleepTest, Sleep, Leave, SpinUnlock,
           LoadWaiters, SignalOne, SpinGoto, SpinTypeOK
  <2> QED BY <1>0, <2>1, <2>2 DEF TiredUntilExchange
<1> QED BY <1>1, <1>2, <1>3

\* Whoever could be responsible for a sleeper hands it on.
LEMMA WakeStep ==
  ASSUME SpinIInv, WakeInv, NEW t \in SpinThreads, SpinCall(t) \/ SpinStep(t)
  PROVE  SleeperNotForgotten'
<1>0. SpinTypeOK /\ WaitersCounted /\ TiredUntilExchange /\ SleeperNotForgotten
  BY DEF SpinIInv, WakeInv
<1>1. \A u \in SpinThreads \ {t} : spc'[u] = spc[u] /\ tired'[u] = tired[u]
  BY <1>0
     DEF SpinCall, SpinStep, Exchange, SpinEnds, SpinTired, Announce, SleepTest, Sleep,
         Leave, SpinUnlock, LoadWaiters, SignalOne, SpinGoto, SpinTypeOK
<1>2. CASE Exchange(t)
  BY <1>2 DEF Exchange, SleeperNotForgotten
<1>3. CASE SpinEnds(t)
  <2>1. spc'[t] = "xchg"
    BY <1>0, <1>3 DEF SpinEnds, SpinGoto, SpinTypeOK
  <2> QED BY <2>1 DEF SleeperNotForgotten
<1>4. CASE SpinTired(t)
  BY <1>4 DEF SpinTired, SleeperNotForgotten
<1>5. CASE Announce(t)
  <2>1. spc'[t] = "test"
    BY <1>0, <1>5 DEF Announce, SpinGoto, SpinTypeOK
  <2> QED BY <2>1 DEF SleeperNotForgotten
<1>6. CASE SleepTest(t)
  <2>1. flag' = flag /\ (~flag => spc'[t] = "leave")
    BY <1>0, <1>6 DEF SleepTest, SpinGoto, SpinTypeOK
  <2> QED BY <2>1 DEF SleeperNotForgotten
<1>7. CASE Sleep(t)
  <2>1. spc'[t] = "test"
    BY <1>0, <1>7 DEF Sleep, SpinGoto, SpinTypeOK
  <2> QED BY <2>1 DEF SleeperNotForgotten
<1>8. CASE Leave(t)
  <2>1. spc[t] = "leave" /\ spc'[t] = "spin" /\ tired'[t] = tired[t]
    BY <1>0, <1>8 DEF Leave, SpinGoto, SpinTypeOK
  <2>2. tired'[t]
    BY <1>0, <2>1, Zenon DEF TiredUntilExchange
  <2> QED BY <2>1, <2>2, Zenon DEF SleeperNotForgotten
<1>9. CASE SpinUnlock(t)
  <2>1. spc'[t] = "wake"
    BY <1>0, <1>9 DEF SpinUnlock, SpinGoto, SpinTypeOK
  <2> QED BY <2>1 DEF SleeperNotForgotten
<1>10. CASE LoadWaiters(t)
  <2>1. CASE nwait # 0
    <3>1. spc'[t] = "signal"
      BY <1>0, <1>10, <2>1 DEF LoadWaiters, HasSleepers, SpinGoto, SpinTypeOK
    <3> QED BY <3>1 DEF SleeperNotForgotten
  <2>2. CASE nwait = 0
    <3>1. spc'[t] = "idle"
      BY <1>0, <1>10, <2>2 DEF LoadWaiters, HasSleepers, SpinGoto, SpinTypeOK
    <3>2. Announced = {}
      <4>1. IsFiniteSet(Announced)
        BY SpinAssumptions, FS_Subset DEF Announced
      <4> QED BY <1>0, <2>2, <4>1, FS_EmptySet DEF WaitersCounted
    <3>3. \A u \in SpinThreads : spc'[u] # "sleep"
      BY <1>1, <3>1, <3>2 DEF Announced
    <3> QED BY <3>3 DEF SleeperNotForgotten
  <2> QED BY <2>1, <2>2
<1>11. CASE SignalOne(t)
  <2>1. sema' > 0
    BY <1>0, <1>11 DEF SignalOne, SpinTypeOK
  <2> QED BY <2>1 DEF SleeperNotForgotten
<1>12. CASE SpinCall(t)
  <2>1. spc'[t] = "xchg"
    BY <1>0, <1>12 DEF SpinCall, SpinGoto, SpinTypeOK
  <2> QED BY <2>1 DEF SleeperNotForgotten
<1> QED
  BY <1>2, <1>3, <1>4, <1>5, <1>6, <1>7, <1>8, <1>9, <1>10, <1>11, <1>12 DEF SpinStep

LEMMA NextWakeInv == SpinIInv /\ WakeInv /\ [SpinNext]_spinVars => WakeInv'
<1> SUFFICES ASSUME SpinIInv, WakeInv, [SpinNext]_spinVars PROVE WakeInv'
  OBVIOUS
<1>1. ASSUME NEW t \in SpinThreads, SpinCall(t) \/ SpinStep(t) PROVE WakeInv'
  BY <1>1, CountStep, TiredStep, WakeStep DEF WakeInv
<1>2. CASE UNCHANGED spinVars
  BY <1>2
     DEF spinVars, WakeInv, WaitersCounted, Announced, TiredUntilExchange, SleeperNotForgotten
<1> QED BY <1>1, <1>2 DEF SpinNext

-----------------------------------------------------------------------------
\* The invariant holds in every reachable state.
THEOREM SpinInvariance == SpinSpec => [](SpinIInv /\ WakeInv)
BY SpinInitIInv, SpinNextIInv, InitWakeInv, NextWakeInv, PTL DEF SpinSpec

\* The state is well typed; in particular the semaphore is never negative.
THEOREM SpinTypeCorrect == SpinSpec => []SpinTypeOK
BY SpinInvariance, PTL DEF SpinIInv

\* At most one thread holds the lock, exactly while the flag is set, and nobody
\* sleeps on a free lock without somebody on the way to wake or to relock it.
THEOREM SpinLockSound == SpinSpec => []SpinSound
<1>1. SpinIInv /\ WakeInv => SpinSound
  BY DEF SpinIInv, WakeInv, SpinSound
<1> QED BY <1>1, SpinInvariance, PTL

-----------------------------------------------------------------------------
(***************************************************************************)
(* The thread pool, for any finite set of submitters, any capacity,        *)
(* threshold and counter width.                                            *)
(*                                                                         *)
(* Slots: the thread that holds g_spawnmu and spawns has read the current  *)
(* g_threadlen, and the running threads are the slots below its loop index *)
(* i, which ends at the value it publishes, also when thrd_create fails.   *)
(*                                                                         *)
(* Counter: each step changes g_inflightcount and the workload by the same *)
(* amount; that the counter is reduced modulo its width at every step does *)
(* not matter, because reduction commutes with adding and subtracting one. *)
(***************************************************************************)

\* g_spawnmu is held between mutex_lock and mutex_unlock.
Holder ==
  \A s \in Submitters : ppc[s] \in {"recheck", "spawn", "unlock"} <=> spawnmu = s

\* The loop over the new slots.
Spawning ==
  \A s \in Submitters : ppc[s] = "spawn" =>
    /\ oldlen[s] = threadlen
    /\ threadlen <= slot[s] /\ slot[s] <= newlen[s]
    /\ \A i \in Slots : worker[i] # "none" <=> i < slot[s]

SlotInv == PoolTypeOK /\ Holder /\ Spawning /\ SlotsMatchThreads

-----------------------------------------------------------------------------
\* Reduction modulo z.
LEMMA ModRange ==
  ASSUME NEW z \in Nat \ {0}, NEW k \in Int
  PROVE  k % z \in 0..(z - 1)
OBVIOUS

LEMMA ModUnique ==
  ASSUME NEW z \in Nat \ {0}, NEW q \in Int, NEW v \in 0..(z - 1)
  PROVE  (z * q + v) % z = v
OBVIOUS

LEMMA DivMod ==
  ASSUME NEW z \in Nat \ {0}, NEW k \in Int
  PROVE  k \div z \in Int /\ k = z * (k \div z) + (k % z)
OBVIOUS

\* Reducing before or after adding is the same.
LEMMA ModShift ==
  ASSUME NEW z \in Nat \ {0}, NEW k \in Int, NEW d \in Int
  PROVE  ((k % z) + d) % z = (k + d) % z
<1> DEFINE q == k \div z
           v == k % z
           p == (v + d) \div z
           e == (v + d) % z
<1>1. q \in Int /\ v \in Int /\ k = z * q + v
  BY DivMod, ModRange
<1>2. v + d \in Int
  BY <1>1
<1>3. p \in Int /\ e \in 0..(z - 1) /\ v + d = z * p + e
  BY <1>2, DivMod, ModRange
<1> HIDE DEF q, v, p, e
<1>4. k + d = z * (q + p) + e
  BY <1>1, <1>3
<1>5. q + p \in Int
  BY <1>1, <1>3
<1>6. (z * (q + p) + e) % z = e
  BY <1>3, <1>5, ModUnique, Zenon
<1>7. (k + d) % z = e
  BY <1>4, <1>6, Zenon
<1> QED BY <1>7 DEF e, v

LEMMA ModUp ==
  ASSUME NEW z \in Nat \ {0}, NEW k \in Int
  PROVE  ((k % z) + 1) % z = (k + 1) % z
<1>1. 1 \in Int
  OBVIOUS
<1> QED BY <1>1, ModShift, Zenon

LEMMA ModDown ==
  ASSUME NEW z \in Nat \ {0}, NEW k \in Int
  PROVE  ((k % z) - 1) % z = (k - 1) % z
<1>0. -1 \in Int
  OBVIOUS
<1>1. ((k % z) + (-1)) % z = (k + (-1)) % z
  BY <1>0, ModShift, Zenon
<1>2. (k % z) \in Int
  BY ModRange
<1>3. (k % z) + (-1) = (k % z) - 1 /\ k + (-1) = k - 1
  BY <1>2
<1> QED BY <1>1, <1>3, Zenon

LEMMA PoolConstants ==
  /\ Word \in Nat \ {0} /\ PoolCap \in Nat
  /\ \A k \in Int : k % Word \in 0..(Word - 1)
<1>1. Word \in Nat \ {0} /\ PoolCap \in Nat
  BY PoolAssumptions
<1> QED BY <1>1, ModRange

-----------------------------------------------------------------------------
LEMMA InitSlotInv == PoolInit => SlotInv
<1> SUFFICES ASSUME PoolInit PROVE SlotInv
  OBVIOUS
<1>1. PoolTypeOK
  <2>1. queue \in Seq(Submitters \X Nat) /\ ran \in SUBSET (Submitters \X Nat)
    BY DEF PoolInit
  <2>2. 0 \in 0..(Word - 1) /\ 0 \in 0..PoolCap /\ InitialLen \in 1..PoolCap
    BY PoolConstants, PoolAssumptions
  <2> QED BY <2>1, <2>2 DEF PoolInit, PoolTypeOK, PoolPCs
<1>2. Holder
  BY NoSubmitterAssumption DEF PoolInit, Holder
<1>3. Spawning /\ SlotsMatchThreads
  BY PoolAssumptions
     DEF PoolInit, Spawning, SlotsMatchThreads, NoSpawnRace, LenMatchesThreads, Slots
<1> QED BY <1>1, <1>2, <1>3 DEF SlotInv

\* A worker that receives or finishes a job keeps running.
LEMMA WorkerSlots ==
  ASSUME SlotInv, NEW i \in Slots, Receive(i) \/ Finish(i)
  PROVE  SlotInv'
<1>0. PoolTypeOK /\ Holder /\ Spawning /\ SlotsMatchThreads
  BY DEF SlotInv
<1>1. /\ worker' \in [Slots -> {"none", "recv", "call"}]
      /\ \A j \in Slots : worker'[j] # "none" <=> worker[j] # "none"
  BY <1>0 DEF Receive, Finish, NextTurn, PoolTypeOK
<1>2. UNCHANGED <<threadlen, spawnmu, ppc, seen, newlen, oldlen, slot, sent, passerts>>
  BY DEF Receive, Finish, spawnVars
<1>3. PoolTypeOK'
  <2>1. CASE Receive(i)
    <3>1. queue \in Seq(Submitters \X Nat) /\ queue # <<>>
      BY <1>0, <2>1 DEF Receive, PoolTypeOK
    <3>2. Head(queue) \in Submitters \X Nat /\ Tail(queue) \in Seq(Submitters \X Nat)
      BY <3>1
    <3>3. queue' \in Seq(Submitters \X Nat) /\ ran' \in SUBSET (Submitters \X Nat)
      BY <1>0, <2>1, <3>2 DEF Receive, PoolTypeOK
    <3> QED BY <1>0, <1>1, <1>2, <2>1, <3>3 DEF Receive, PoolTypeOK
  <2>2. CASE Finish(i)
    <3>1. inflight' \in 0..(Word - 1)
      BY <1>0, <2>2, PoolConstants DEF Finish, JobsDone, PoolTypeOK
    <3> QED BY <1>0, <1>1, <1>2, <2>2, <3>1 DEF Finish, PoolTypeOK
  <2> QED BY <2>1, <2>2
<1>4. Holder' /\ Spawning' /\ SlotsMatchThreads'
  BY <1>0, <1>1, <1>2
     DEF Holder, Spawning, SlotsMatchThreads, NoSpawnRace, LenMatchesThreads
<1> QED BY <1>3, <1>4 DEF SlotInv

\* The steps of a submission outside the mutex, taking it and releasing it.
LEMMA OutsideSlots ==
  ASSUME SlotInv, NEW s \in Submitters,
         Send(s) \/ Add(s) \/ LoadLen(s) \/ SpawnLock(s) \/ SpawnUnlock(s)
  PROVE  SlotInv'
<1>0. PoolTypeOK /\ Holder /\ Spawning /\ SlotsMatchThreads
  BY DEF SlotInv
<1>1. PICK l \in PoolPCs \ {"spawn"} :
        /\ PoolGoto(s, l)
        /\ l \in {"recheck", "unlock"} => spawnmu = NoSubmitter /\ spawnmu' = s
        /\ l \notin {"recheck", "unlock"} =>
             spawnmu' = IF ppc[s] = "unlock" THEN NoSubmitter ELSE spawnmu
  BY DEF Send, Add, LoadLen, SpawnLock, SpawnMuFree, SpawnUnlock, PoolPCs
<1>2. /\ ppc[s] \in {"idle", "add", "load", "lock", "unlock"}
      /\ UNCHANGED <<threadlen, worker, newlen, oldlen, slot, ran, passerts>>
  BY DEF Send, Add, LoadLen, SpawnLock, SpawnUnlock, spawnVars
<1>3. \A u \in Submitters : ppc'[u] = IF u = s THEN l ELSE ppc[u]
  BY <1>0, <1>1 DEF PoolGoto, PoolTypeOK
<1>4. PoolTypeOK'
  <2>1. ppc' \in [Submitters -> PoolPCs] /\ spawnmu' \in Submitters \cup {NoSubmitter}
    BY <1>0, <1>1 DEF PoolGoto, PoolTypeOK
  <2>2. inflight' \in 0..(Word - 1) /\ seen' \in [Submitters -> 0..(Word - 1)]
    <3>0. inflight + 1 \in Int /\ 0 \in 0..(Word - 1)
      BY <1>0, PoolConstants DEF PoolTypeOK
    <3>1. (inflight + 1) % Word \in 0..(Word - 1) /\ 0 \in 0..(Word - 1)
      BY <3>0, PoolConstants, Zenon
    <3> QED BY <1>0, <3>1 DEF Send, Add, LoadLen, SpawnLock, SpawnUnlock, PoolTypeOK
  <2>3. queue' \in Seq(Submitters \X Nat) /\ sent' \in [Submitters -> Nat]
    <3>1. CASE Send(s)
      <4>1. <<s, sent[s] + 1>> \in Submitters \X Nat
        BY <1>0 DEF PoolTypeOK
      <4>2. queue \in Seq(Submitters \X Nat)
        BY <1>0 DEF PoolTypeOK
      <4>3. Append(queue, <<s, sent[s] + 1>>) \in Seq(Submitters \X Nat)
        BY <4>1, <4>2
      <4> QED BY <1>0, <3>1, <4>3 DEF Send, PoolTypeOK
    <3>2. CASE ~Send(s)
      BY <1>0, <3>2 DEF Add, LoadLen, SpawnLock, SpawnUnlock, PoolTypeOK
    <3> QED BY <3>1, <3>2
  <2> QED BY <1>0, <1>2, <2>1, <2>2, <2>3 DEF PoolTypeOK
<1>5. Holder'
  BY <1>0, <1>1, <1>2, <1>3, NoSubmitterAssumption DEF Holder
<1>6. Spawning' /\ SlotsMatchThreads'
  BY <1>0, <1>1, <1>2, <1>3
     DEF Spawning, SlotsMatchThreads, NoSpawnRace, LenMatchesThreads
<1> QED BY <1>4, <1>5, <1>6 DEF SlotInv

\* The second look at the counters, with the mutex held: nobody else spawns.
LEMMA RecheckSlots ==
  ASSUME SlotInv, NEW s \in Submitters, Recheck(s)
  PROVE  SlotInv'
<1>0. PoolTypeOK /\ Holder /\ Spawning /\ SlotsMatchThreads
  BY DEF SlotInv
<1>1. /\ ppc[s] = "recheck" /\ spawnmu = s
      /\ UNCHANGED <<queue, inflight, threadlen, spawnmu, worker, seen, sent, ran, passerts>>
  BY <1>0 DEF Recheck, Holder
<1>2. \A u \in Submitters : ppc[u] # "spawn"
  BY <1>0, <1>1 DEF Holder
<1>3. \A i \in Slots : worker[i] # "none" <=> i < threadlen
  BY <1>0, <1>2 DEF SlotsMatchThreads, LenMatchesThreads
<1>4. CASE Overcommitted(inflight, threadlen)
  <2>1. /\ PoolGoto(s, "spawn")
        /\ newlen' = [newlen EXCEPT ![s] = NewThreadLen(inflight)]
        /\ oldlen' = [oldlen EXCEPT ![s] = threadlen]
        /\ slot' = [slot EXCEPT ![s] = threadlen]
    BY <1>4 DEF Recheck
  <2>2. /\ NewThreadLen(inflight) \in 0..PoolCap /\ threadlen <= NewThreadLen(inflight)
        /\ threadlen \in 0..PoolCap
    <3>1. /\ inflight \in Nat /\ threadlen \in 1..PoolCap /\ PoolCap \in Nat
          /\ inflight > threadlen
      BY <1>0, <1>4, PoolConstants DEF Overcommitted, PoolTypeOK
    <3> QED BY <3>1 DEF NewThreadLen
  <2>3. /\ \A u \in Submitters : ppc'[u] = IF u = s THEN "spawn" ELSE ppc[u]
        /\ ppc' \in [Submitters -> PoolPCs]
    BY <1>0, <2>1 DEF PoolGoto, PoolTypeOK, PoolPCs
  <2>4. PoolTypeOK'
    BY <1>0, <1>1, <2>1, <2>2, <2>3 DEF PoolTypeOK
  <2>5. Holder'
    BY <1>0, <1>1, <2>3 DEF Holder
  <2>6. Spawning'
    <3>1. oldlen'[s] = threadlen /\ slot'[s] = threadlen /\ newlen'[s] = NewThreadLen(inflight)
      BY <1>0, <2>1 DEF PoolTypeOK
    <3>2. ASSUME NEW u \in Submitters, ppc'[u] = "spawn" PROVE u = s
      BY <1>2, <2>3, <3>2
    <3>3. threadlen' <= slot'[s] /\ slot'[s] <= newlen'[s]
      BY <1>1, <2>2, <3>1
    <3> QED BY <1>1, <1>3, <3>1, <3>2, <3>3 DEF Spawning
  <2>7. SlotsMatchThreads'
    BY <1>0, <1>1, <2>3 DEF SlotsMatchThreads, NoSpawnRace, LenMatchesThreads
  <2> QED BY <2>4, <2>5, <2>6, <2>7 DEF SlotInv
<1>5. CASE ~Overcommitted(inflight, threadlen)
  <2>1. PoolGoto(s, "unlock") /\ UNCHANGED <<newlen, oldlen, slot>>
    BY <1>5 DEF Recheck, spawnVars
  <2>2. /\ \A u \in Submitters : ppc'[u] = IF u = s THEN "unlock" ELSE ppc[u]
        /\ ppc' \in [Submitters -> PoolPCs]
    BY <1>0, <2>1 DEF PoolGoto, PoolTypeOK, PoolPCs
  <2>3. PoolTypeOK'
    BY <1>0, <1>1, <2>1, <2>2 DEF PoolTypeOK
  <2>4. Holder' /\ Spawning' /\ SlotsMatchThreads'
    BY <1>0, <1>1, <1>2, <1>3, <2>1, <2>2
       DEF Holder, Spawning, SlotsMatchThreads, NoSpawnRace, LenMatchesThreads
  <2> QED BY <2>3, <2>4 DEF SlotInv
<1> QED BY <1>4, <1>5

\* One turn of the loop: the slot is inside g_threadv and free.
LEMMA SpawnSlots ==
  ASSUME SlotInv, NEW s \in Submitters, Spawn(s)
  PROVE  SlotInv'
<1>0. PoolTypeOK /\ Holder /\ Spawning /\ SlotsMatchThreads
  BY DEF SlotInv
<1>1. /\ ppc[s] = "spawn" /\ slot[s] < newlen[s]
      /\ worker' = [worker EXCEPT ![slot[s]] = "recv"]
      /\ slot' = [slot EXCEPT ![s] = slot[s] + 1]
      /\ UNCHANGED <<queue, inflight, threadlen, spawnmu, ppc, seen, newlen, oldlen, sent, ran>>
  BY DEF Spawn
<1>2. /\ oldlen[s] = threadlen /\ threadlen <= slot[s] /\ slot[s] <= newlen[s]
      /\ \A i \in Slots : worker[i] # "none" <=> i < slot[s]
  BY <1>0, <1>1 DEF Spawning
<1>3. /\ slot[s] \in Nat /\ newlen[s] \in Nat /\ newlen[s] <= PoolCap /\ PoolCap \in Nat
      /\ threadlen \in Nat
  BY <1>0, PoolConstants DEF PoolTypeOK
<1>4. slot[s] \in Slots /\ worker[slot[s]] = "none"
  <2>1. slot[s] \in Slots
    BY <1>1, <1>3 DEF Slots
  <2> QED BY <1>2, <1>3, <2>1
<1>5. passerts'
  BY <1>0, <1>4 DEF Spawn, SlotsMatchThreads, NoSpawnRace
<1>6. /\ \A u \in Submitters : slot'[u] = IF u = s THEN slot[s] + 1 ELSE slot[u]
      /\ \A i \in Slots : worker'[i] = IF i = slot[s] THEN "recv" ELSE worker[i]
  BY <1>0, <1>1 DEF PoolTypeOK
<1>7. PoolTypeOK'
  <2>1. slot[s] + 1 \in 0..PoolCap
    BY <1>1, <1>3
  <2>2. slot' \in [Submitters -> 0..PoolCap]
    BY <1>0, <1>1, <2>1 DEF PoolTypeOK
  <2>3. worker' \in [Slots -> {"none", "recv", "call"}]
    BY <1>0, <1>1 DEF PoolTypeOK
  <2>4. passerts' \in BOOLEAN
    BY <1>5
  <2> QED BY <1>0, <1>1, <2>2, <2>3, <2>4 DEF PoolTypeOK
<1>8. Holder'
  BY <1>0, <1>1 DEF Holder
<1>9. Spawning'
  <2>1. ASSUME NEW u \in Submitters, ppc[u] = "spawn" PROVE u = s
    BY <1>0, <1>1, <2>1 DEF Holder
  <2>2. /\ threadlen <= slot'[s] /\ slot'[s] <= newlen[s]
    BY <1>1, <1>2, <1>3, <1>6
  <2>3. ASSUME NEW i \in Slots PROVE worker'[i] # "none" <=> i < slot'[s]
    <3>1. i \in Int
      BY DEF Slots
    <3> QED BY <1>2, <1>3, <1>6, <3>1
  <2> QED BY <1>1, <1>2, <2>1, <2>2, <2>3 DEF Spawning
<1>10. SlotsMatchThreads'
  BY <1>1, <1>5 DEF SlotsMatchThreads, NoSpawnRace, LenMatchesThreads
<1> QED BY <1>7, <1>8, <1>9, <1>10 DEF SlotInv

\* thrd_create fails: the loop ends here.
LEMMA SpawnFailsSlots ==
  ASSUME SlotInv, NEW s \in Submitters, SpawnFails(s)
  PROVE  SlotInv'
<1>0. PoolTypeOK /\ Holder /\ Spawning /\ SlotsMatchThreads
  BY DEF SlotInv
<1>1. /\ ppc[s] = "spawn" /\ newlen' = [newlen EXCEPT ![s] = slot[s]]
      /\ UNCHANGED <<queue, inflight, threadlen, spawnmu, worker, ppc, seen, oldlen, slot,
                     sent, ran, passerts>>
  BY DEF SpawnFails
<1>2. \A u \in Submitters : newlen'[u] = IF u = s THEN slot[s] ELSE newlen[u]
  BY <1>0, <1>1 DEF PoolTypeOK
<1>3. PoolTypeOK'
  BY <1>0, <1>1 DEF PoolTypeOK
<1>4. slot[s] <= slot[s]
  BY <1>0 DEF PoolTypeOK
<1>5. Spawning'
  BY <1>0, <1>1, <1>2, <1>4 DEF Spawning
<1>6. Holder' /\ SlotsMatchThreads'
  BY <1>0, <1>1 DEF Holder, SlotsMatchThreads, NoSpawnRace, LenMatchesThreads
<1> QED BY <1>3, <1>5, <1>6 DEF SlotInv

\* The new length is the number of slots that run.
LEMMA PublishSlots ==
  ASSUME SlotInv, NEW s \in Submitters, Publish(s)
  PROVE  SlotInv'
<1>0. PoolTypeOK /\ Holder /\ Spawning /\ SlotsMatchThreads
  BY DEF SlotInv
<1>1. /\ ppc[s] = "spawn" /\ slot[s] >= newlen[s] /\ threadlen' = newlen[s]
      /\ newlen' = [newlen EXCEPT ![s] = 0]
      /\ oldlen' = [oldlen EXCEPT ![s] = 0]
      /\ slot' = [slot EXCEPT ![s] = 0]
      /\ PoolGoto(s, "unlock")
      /\ UNCHANGED <<queue, inflight, spawnmu, worker, seen, sent, ran>>
  BY DEF Publish, Published
<1>2. /\ oldlen[s] = threadlen /\ threadlen <= slot[s] /\ slot[s] <= newlen[s]
      /\ \A i \in Slots : worker[i] # "none" <=> i < slot[s]
  BY <1>0, <1>1 DEF Spawning
<1>3. /\ slot[s] \in Nat /\ newlen[s] \in Nat /\ newlen[s] <= PoolCap /\ PoolCap \in Nat
      /\ threadlen \in 1..PoolCap
  BY <1>0, PoolConstants DEF PoolTypeOK
<1>4. newlen[s] = slot[s] /\ newlen[s] \in 1..PoolCap /\ 0 \in 0..PoolCap
  BY <1>1, <1>2, <1>3
<1>5. passerts'
  BY <1>0, <1>2 DEF Publish, SlotsMatchThreads, NoSpawnRace
<1>6. /\ \A u \in Submitters : ppc'[u] = IF u = s THEN "unlock" ELSE ppc[u]
      /\ ppc' \in [Submitters -> PoolPCs]
  BY <1>0, <1>1 DEF PoolGoto, PoolTypeOK, PoolPCs
<1>7. \A u \in Submitters : ppc'[u] # "spawn"
  BY <1>0, <1>1, <1>6 DEF Holder
<1>8. PoolTypeOK'
  <2>1. passerts' \in BOOLEAN
    BY <1>5
  <2> QED BY <1>0, <1>1, <1>4, <1>6, <2>1 DEF PoolTypeOK
<1>9. Holder'
  BY <1>0, <1>1, <1>6 DEF Holder
<1>10. Spawning' /\ SlotsMatchThreads'
  BY <1>1, <1>2, <1>4, <1>5, <1>7
     DEF Spawning, SlotsMatchThreads, NoSpawnRace, LenMatchesThreads
<1> QED BY <1>8, <1>9, <1>10 DEF SlotInv

LEMMA NextSlotInv == SlotInv /\ [PoolNext]_poolVars => SlotInv'
<1> SUFFICES ASSUME SlotInv, [PoolNext]_poolVars PROVE SlotInv'
  OBVIOUS
<1>1. ASSUME NEW i \in Slots, Receive(i) \/ Finish(i) PROVE SlotInv'
  BY <1>1, WorkerSlots
<1>2. ASSUME NEW s \in Submitters, Send(s) \/ Submit(s) PROVE SlotInv'
  BY <1>2, OutsideSlots, RecheckSlots, SpawnSlots, SpawnFailsSlots, PublishSlots DEF Submit
<1>3. CASE UNCHANGED poolVars
  BY <1>3
     DEF poolVars, spawnVars, SlotInv, PoolTypeOK, Holder, Spawning, SlotsMatchThreads,
         NoSpawnRace, LenMatchesThreads
<1> QED BY <1>1, <1>2, <1>3 DEF PoolNext

-----------------------------------------------------------------------------
\* The counted sets are finite, and a step changes them by one member at most.
LEMMA WorkloadType ==
  ASSUME PoolTypeOK
  PROVE  /\ IsFiniteSet(Busy) /\ Cardinality(Busy) \in Nat
         /\ IsFiniteSet(Uncounted) /\ Cardinality(Uncounted) \in Nat
         /\ Len(queue) \in Nat /\ Workload - Cardinality(Uncounted) \in Int
<1>1. IsFiniteSet(Slots)
  BY PoolConstants, FS_Interval DEF Slots
<1>2. IsFiniteSet(Busy) /\ Cardinality(Busy) \in Nat
  BY <1>1, FS_Subset, FS_CardinalityType DEF Busy
<1>3. IsFiniteSet(Uncounted) /\ Cardinality(Uncounted) \in Nat
  BY PoolAssumptions, FS_Subset, FS_CardinalityType DEF Uncounted
<1>4. Len(queue) \in Nat
  BY DEF PoolTypeOK
<1> QED BY <1>2, <1>3, <1>4 DEF Workload

LEMMA InitInflight == PoolInit => InflightExact
<1> SUFFICES ASSUME PoolInit PROVE InflightExact
  OBVIOUS
<1>1. Busy = {} /\ Uncounted = {} /\ Len(queue) = 0
  BY DEF PoolInit, Busy, Uncounted
<1>2. Workload - Cardinality(Uncounted) = 0
  BY <1>1, FS_EmptySet DEF Workload
<1>3. 0 % Word = 0
  <2>1. Word * 0 + 0 = 0 /\ 0 \in 0..(Word - 1)
    BY PoolConstants
  <2> QED BY <2>1, PoolConstants, ModUnique
<1> QED BY <1>2, <1>3 DEF PoolInit, InflightExact

\* A job that is received moves from the queue to a worker.
LEMMA ReceiveInflight ==
  ASSUME PoolTypeOK, InflightExact, NEW i \in Slots, Receive(i)
  PROVE  InflightExact'
<1>1. Busy' = Busy \cup {i} /\ i \notin Busy /\ Uncounted' = Uncounted /\ inflight' = inflight
  BY DEF PoolTypeOK, Receive, Busy, Uncounted
<1>2. Len(queue') = Len(queue) - 1
  BY DEF PoolTypeOK, Receive
<1>3. Cardinality(Busy') = Cardinality(Busy) + 1
  BY <1>1, WorkloadType, FS_AddElement
<1>4. Workload' = Workload
  BY <1>2, <1>3, WorkloadType DEF Workload
<1> QED BY <1>1, <1>4 DEF InflightExact

\* A job that is finished leaves the workload and the counter.
LEMMA FinishInflight ==
  ASSUME PoolTypeOK, InflightExact, NEW i \in Slots, Finish(i)
  PROVE  InflightExact'
<1> DEFINE k == Workload - Cardinality(Uncounted)
<1>1. /\ Busy' = Busy \ {i} /\ i \in Busy /\ Uncounted' = Uncounted /\ queue' = queue
      /\ inflight' = (inflight - 1) % Word
  BY DEF PoolTypeOK, Finish, NextTurn, JobsDone, Busy, Uncounted
<1>2. Cardinality(Busy') = Cardinality(Busy) - 1
  BY <1>1, WorkloadType, FS_RemoveElement
<1>3. (Workload - Cardinality(Uncounted))' = k - 1
  BY <1>1, <1>2, WorkloadType DEF Workload
<1>4. k \in Int /\ inflight = k % Word
  BY WorkloadType DEF InflightExact
<1> HIDE DEF k
<1>5. ((k % Word) - 1) % Word = (k - 1) % Word
  BY <1>4, PoolConstants, ModDown, Zenon
<1>6. inflight' = (k - 1) % Word
  BY <1>1, <1>4, <1>5, Zenon
<1> QED BY <1>3, <1>6, Zenon DEF InflightExact

\* A job that is sent joins the queue, its sender those who have yet to count.
LEMMA SendInflight ==
  ASSUME PoolTypeOK, InflightExact, NEW s \in Submitters, Send(s)
  PROVE  InflightExact'
<1>1. /\ Uncounted' = Uncounted \cup {s} /\ s \notin Uncounted /\ Busy' = Busy
      /\ inflight' = inflight
  BY DEF PoolTypeOK, Send, PoolGoto, Busy, Uncounted
<1>2. Len(queue') = Len(queue) + 1
  BY DEF PoolTypeOK, Send
<1>3. Cardinality(Uncounted') = Cardinality(Uncounted) + 1
  BY <1>1, WorkloadType, FS_AddElement
<1>4. Workload' - Cardinality(Uncounted') = Workload - Cardinality(Uncounted)
  BY <1>1, <1>2, <1>3, WorkloadType DEF Workload
<1> QED BY <1>1, <1>4 DEF InflightExact

\* The sender counts its job.
LEMMA AddInflight ==
  ASSUME PoolTypeOK, InflightExact, NEW s \in Submitters, Add(s)
  PROVE  InflightExact'
<1> DEFINE k == Workload - Cardinality(Uncounted)
<1>1. /\ Uncounted' = Uncounted \ {s} /\ s \in Uncounted /\ Busy' = Busy /\ queue' = queue
      /\ inflight' = (inflight + 1) % Word
  BY DEF PoolTypeOK, Add, PoolGoto, Busy, Uncounted
<1>2. Cardinality(Uncounted') = Cardinality(Uncounted) - 1
  BY <1>1, WorkloadType, FS_RemoveElement
<1>3. (Workload - Cardinality(Uncounted))' = k + 1
  BY <1>1, <1>2, WorkloadType DEF Workload
<1>4. k \in Int /\ inflight = k % Word
  BY WorkloadType DEF InflightExact
<1> HIDE DEF k
<1>5. ((k % Word) + 1) % Word = (k + 1) % Word
  BY <1>4, PoolConstants, ModUp, Zenon
<1>6. inflight' = (k + 1) % Word
  BY <1>1, <1>4, <1>5, Zenon
<1> QED BY <1>3, <1>6, Zenon DEF InflightExact

\* The other steps leave the counter and the workload alone.
LEMMA QuietInflight ==
  ASSUME PoolTypeOK, InflightExact, NEW s \in Submitters,
         \/ LoadLen(s) \/ SpawnLock(s) \/ Recheck(s) \/ Publish(s) \/ SpawnFails(s)
         \/ SpawnUnlock(s)
  PROVE  InflightExact'
<1>1. UNCHANGED <<queue, worker, inflight>>
  BY DEF LoadLen, SpawnLock, Recheck, Publish, SpawnFails, SpawnUnlock
<1>2. \A u \in Submitters : ppc'[u] = "add" <=> ppc[u] = "add"
  BY DEF PoolTypeOK, LoadLen, SpawnLock, Recheck, Publish, SpawnFails, SpawnUnlock, PoolGoto
<1>3. Busy' = Busy /\ Uncounted' = Uncounted
  BY <1>1, <1>2 DEF Busy, Uncounted
<1> QED BY <1>1, <1>3 DEF InflightExact, Workload

\* A new worker has no job yet.
LEMMA SpawnInflight ==
  ASSUME SlotInv, InflightExact, NEW s \in Submitters, Spawn(s)
  PROVE  InflightExact'
<1>1. UNCHANGED <<queue, inflight, ppc>>
  BY DEF Spawn
<1>2. worker[slot[s]] # "call"
  <2>1. passerts'
    BY SpawnSlots DEF SlotInv, SlotsMatchThreads, NoSpawnRace
  <2> QED BY <2>1 DEF Spawn
<1>3. Busy' = Busy /\ Uncounted' = Uncounted
  BY <1>1, <1>2 DEF SlotInv, PoolTypeOK, Spawn, Busy, Uncounted
<1> QED BY <1>1, <1>3 DEF InflightExact, Workload

LEMMA NextInflight == SlotInv /\ InflightExact /\ [PoolNext]_poolVars => InflightExact'
<1> SUFFICES ASSUME SlotInv, InflightExact, [PoolNext]_poolVars PROVE InflightExact'
  OBVIOUS
<1>0. PoolTypeOK
  BY DEF SlotInv
<1>1. ASSUME NEW i \in Slots, Receive(i) \/ Finish(i) PROVE InflightExact'
  BY <1>0, <1>1, ReceiveInflight, FinishInflight
<1>2. ASSUME NEW s \in Submitters, Send(s) \/ Submit(s) PROVE InflightExact'
  BY <1>0, <1>2, SendInflight, AddInflight, QuietInflight, SpawnInflight DEF Submit
<1>3. CASE UNCHANGED poolVars
  BY <1>3 DEF poolVars, InflightExact, Workload, Busy, Uncounted
<1> QED BY <1>1, <1>2, <1>3 DEF PoolNext

-----------------------------------------------------------------------------
\* The invariants hold in every reachable state.
THEOREM PoolInvariance == PoolSpec => [](SlotInv /\ InflightExact)
BY InitSlotInv, NextSlotInv, InitInflight, NextInflight, PTL DEF PoolSpec

\* The pool is well typed: slots and lengths stay inside g_threadv, the counter
\* inside its width.
THEOREM PoolTypeCorrect == PoolSpec => []PoolTypeOK
BY PoolInvariance, PTL DEF SlotInv

\* Every slot of g_threadv is spawned once, the assertion on g_threadlen holds,
\* and g_threadlen is the number of running threads, also after thrd_create
\* has failed.
THEOREM SlotsSound == PoolSpec => []SlotsMatchThreads
BY PoolInvariance, PTL DEF SlotInv

\* g_inflightcount is the workload less the jobs that are sent but not counted
\* yet, modulo its width, however often it wraps below zero.
THEOREM InflightSound == PoolSpec => []InflightExact
BY PoolInvariance, PTL

-----------------------------------------------------------------------------
(***************************************************************************)
(* The bump allocator, for any number of threads, any sizes, and any       *)
(* addresses at which the operating system maps new slabs.                 *)
(*                                                                         *)
(* a->ptr and what was loaded from it stay within the tail, because a new  *)
(* tail is made only while nobody reads; so blocks lie in slabs, whatever  *)
(* the threads do.  That blocks are apart needs the pointer to be behind   *)
(* every block of the tail, which a race for it would undo.                *)
(***************************************************************************)

\* Slabs are disjoint and have room behind their header.
SlabsSound ==
  /\ \A s \in slabs : s.size > Header
  /\ \A s, u \in slabs : s = u \/ Disjoint(s, u)

\* Who holds the lock is told by where it is, and a writer holds it alone.
HoldersSound ==
  /\ \A t \in BumpThreads : t \in readers <=> bpc[t] \in {"load", "store"}
  /\ \A t \in BumpThreads : bpc[t] = "grown" <=> writers = {t}
  /\ writers # {} => readers = {} /\ \E t \in BumpThreads : writers = {t}

\* What is asked for, and the block that is being freed.
CallsSound ==
  \A t \in BumpThreads :
    /\ bpc[t] \in {"rlock", "load", "store", "grow", "grown"} => size[t] \in Sizes
    /\ \A b \in block[t] : b.by = t
    /\ bpc[t] = "cas" => \E b \in blocks : block[t] = {b} /\ old[t] = b.at + b.size

InSomeSlab == \A b \in blocks : \E s \in slabs : InSlab(b, s)

\* While no slab is being made, a->ptr is in the tail, and so is what was loaded
\* from it under the read lock; a new slab is empty.
PtrInTail ==
  /\ writers = {} => tail.base + Header <= ptr /\ ptr <= End
  /\ writers # {} => \A b \in blocks : ~InSlab(b, tail)
  /\ \A t \in BumpThreads :
       bpc[t] = "store" => tail.base + Header <= old[t] /\ old[t] <= End

\* The blocks of the tail end at p or before.
Below(p) == \A b \in blocks : InSlab(b, tail) => b.at + b.size <= p

\* As long as nobody raced, one thread at a time is about to store a->ptr, and
\* what lies beyond the pointer, also as it was loaded, is free.
Unraced ==
  /\ \A t, u \in BumpThreads : bpc[t] = "store" /\ bpc[u] = "store" => t = u
  /\ writers = {} => Below(ptr)
  /\ \A t \in BumpThreads : bpc[t] = "store" => Below(old[t])
  /\ NoOverlap

BumpIInv ==
  /\ BumpTypeOK /\ SlabsSound /\ HoldersSound /\ CallsSound
  /\ InSomeSlab /\ PtrInTail /\ (~raced => Unraced)

-----------------------------------------------------------------------------
\* Numbers, and members of the sets that BumpTypeOK is about.
LEMMA Ranges ==
  ASSUME BumpTypeOK
  PROVE  /\ Header \in Nat \ {0} /\ SlabSize \in Nat /\ tail \in slabs /\ ptr \in Int
         /\ \A s \in slabs : s.base \in Int /\ s.size \in Nat /\ Limit(s) \in Int
         /\ \A b \in blocks : /\ b.at \in Int /\ b.size \in Nat \ {0}
                             /\ b.by \in BumpThreads
         /\ \A t \in BumpThreads : /\ old[t] \in Int
                                   /\ size[t] \in Nat /\ bops[t] \in 0..BumpMaxOps
         /\ End \in Int
<1>1. \A s \in slabs : s.base \in Int /\ s.size \in Nat
  BY DEF BumpTypeOK
<1>2. \A b \in blocks : b.at \in Int /\ b.size \in Nat \ {0} /\ b.by \in BumpThreads
  <2>1. \A b \in blocks : b.at \in Int /\ b.size \in Sizes /\ b.by \in BumpThreads
    BY DEF BumpTypeOK, Block
  <2> QED BY <2>1, BumpAssumptions
<1>3. \A t \in BumpThreads : size[t] \in Sizes \cup {0}
  BY DEF BumpTypeOK
<1>4. \A t \in BumpThreads : size[t] \in Nat
  <2> TAKE t \in BumpThreads
  <2>1. CASE size[t] \in Sizes
    BY <2>1, BumpAssumptions
  <2>2. CASE size[t] = 0
    BY <2>2
  <2> QED BY <1>3, <2>1, <2>2
<1> QED BY <1>1, <1>2, <1>4, BumpAssumptions DEF BumpTypeOK, Limit, End

-----------------------------------------------------------------------------
\* What is said of the memory holds on when the pointer and the slabs rest, no
\* block is added, and nobody gets ready to store the pointer.
LEMMA MemoryQuiet ==
  ASSUME BumpIInv, blocks' \subseteq blocks, UNCHANGED <<slabs, tail, ptr, writers, raced>>,
         \A u \in BumpThreads : bpc'[u] = "store" => bpc[u] = "store" /\ old'[u] = old[u]
  PROVE  SlabsSound' /\ InSomeSlab' /\ PtrInTail' /\ (~raced => Unraced)'
<1>0. SlabsSound /\ InSomeSlab /\ PtrInTail /\ (~raced => Unraced)
  BY DEF BumpIInv
<1>1. SlabsSound'
  BY <1>0 DEF SlabsSound, Disjoint, Limit
<1>2. InSomeSlab'
  BY <1>0 DEF InSomeSlab, InSlab, Limit
<1>3. PtrInTail'
  BY <1>0 DEF PtrInTail, InSlab, End, Limit
<1>4. (~raced => Unraced)'
  BY <1>0 DEF Unraced, Below, NoOverlap, Apart, InSlab, Limit
<1> QED BY <1>1, <1>2, <1>3, <1>4

\* A call begins: only its locals change.
LEMMA AllocKeeps ==
  ASSUME BumpIInv, NEW t \in BumpThreads, NEW n \in Sizes, NEW own, Alloc(t, n, own)
  PROVE  BumpIInv'
<1>0. BumpTypeOK /\ HoldersSound /\ CallsSound
  BY DEF BumpIInv
<1>1. BumpTypeOK'
  BY <1>0, Ranges, BumpAssumptions DEF BumpTypeOK, Block, Alloc, BumpGoto
<1>2. HoldersSound'
  BY <1>0 DEF HoldersSound, BumpTypeOK, Alloc, BumpGoto
<1>3. CallsSound'
  BY <1>0, Ranges DEF CallsSound, BumpTypeOK, Alloc, BumpGoto
<1>4. /\ blocks' \subseteq blocks /\ UNCHANGED <<slabs, tail, ptr, writers, raced>>
      /\ \A u \in BumpThreads : bpc'[u] = "store" => bpc[u] = "store" /\ old'[u] = old[u]
  BY <1>0 DEF BumpTypeOK, Alloc, BumpGoto
<1> QED BY <1>1, <1>2, <1>3, <1>4, MemoryQuiet DEF BumpIInv

\* A block of another slab, or not the last one, is given up; the pointer stays.
LEMMA FreeKeeps ==
  ASSUME BumpIInv, NEW t \in BumpThreads, NEW b \in blocks, Free(t, b)
  PROVE  BumpIInv'
<1>0. BumpTypeOK /\ HoldersSound /\ CallsSound
  BY DEF BumpIInv
<1>1. BumpTypeOK'
  BY <1>0, Ranges, BumpAssumptions DEF BumpTypeOK, Block, Free, BumpGoto
<1>2. HoldersSound'
  BY <1>0 DEF HoldersSound, BumpTypeOK, Free, BumpGoto
<1>3. CallsSound'
  BY <1>0, Ranges DEF CallsSound, BumpTypeOK, Free, BumpGoto
<1>4. /\ blocks' \subseteq blocks /\ UNCHANGED <<slabs, tail, ptr, writers, raced>>
      /\ \A u \in BumpThreads : bpc'[u] = "store" => bpc[u] = "store" /\ old'[u] = old[u]
  BY <1>0 DEF BumpTypeOK, Free, BumpGoto
<1> QED BY <1>1, <1>2, <1>3, <1>4, MemoryQuiet DEF BumpIInv

\* If a->ptr still is where the block ends, the block lies in the tail, and was
\* the last one there.
LEMMA FreeCASKeeps ==
  ASSUME BumpIInv, NEW t \in BumpThreads, FreeCAS(t)
  PROVE  BumpIInv'
<1>0. /\ BumpTypeOK /\ SlabsSound /\ HoldersSound /\ CallsSound
      /\ InSomeSlab /\ PtrInTail /\ (~raced => Unraced)
  BY DEF BumpIInv
<1>a. PICK b \in blocks : block[t] = {b} /\ old[t] = b.at + b.size
  BY <1>0 DEF CallsSound, FreeCAS
<1>b. \/ ptr' = ptr
      \/ ptr = b.at + b.size /\ ptr' = b.at
  BY <1>a, <1>0, Ranges DEF FreeCAS, StillAt
<1>c. /\ blocks' = blocks \ {b} /\ UNCHANGED <<slabs, tail, writers, raced>>
      /\ \A u \in BumpThreads : bpc'[u] = "store" => bpc[u] = "store" /\ old'[u] = old[u]
  BY <1>a, <1>0 DEF FreeCAS, BumpReturn, BumpGoto, BumpTypeOK
<1>1. BumpTypeOK'
  BY <1>0, Ranges, BumpAssumptions DEF BumpTypeOK, Block, FreeCAS, BumpGoto, BumpReturn, StillAt
<1>2. SlabsSound'
  BY <1>0, Ranges DEF SlabsSound, Limit, Disjoint, FreeCAS, BumpGoto, BumpReturn, StillAt
<1>3. HoldersSound'
  BY <1>0 DEF HoldersSound, BumpTypeOK, FreeCAS, BumpGoto, BumpReturn, StillAt
<1>4. CallsSound'
  BY <1>0, Ranges DEF CallsSound, BumpTypeOK, FreeCAS, BumpGoto, BumpReturn, StillAt
<1>5. InSomeSlab'
  BY <1>0, Ranges DEF InSomeSlab, InSlab, Limit, FreeCAS, BumpGoto, BumpReturn, StillAt
<1>6. PtrInTail'
  <2>1. ASSUME writers = {}, ptr = b.at + b.size
        PROVE  InSlab(b, tail)
    <3>1. PICK s \in slabs : InSlab(b, s)
      BY <1>0 DEF InSomeSlab
    <3>2. tail.base + Header <= ptr /\ ptr <= End
      BY <1>0, <2>1 DEF PtrInTail
    <3>3. s = tail \/ Disjoint(s, tail)
      BY <1>0, Ranges DEF SlabsSound
    <3> QED BY <1>0, <2>1, <3>1, <3>2, <3>3, Ranges DEF InSlab, Disjoint, End, Limit
  <2>2. writers = {} => tail.base + Header <= ptr' /\ ptr' <= End
    BY <1>0, <1>b, <2>1, Ranges DEF PtrInTail, InSlab, End, Limit
  <2> QED BY <1>0, <1>c, <2>2 DEF PtrInTail, InSlab, End, Limit
<1>7. (~raced => Unraced)'
  <2> SUFFICES ASSUME ~raced
               PROVE  Unraced'
    BY <1>c
  <2>1. Unraced
    BY <1>0
  <2>2. ASSUME writers = {}, NEW c \in blocks', InSlab(c, tail)
        PROVE  c.at + c.size <= ptr'
    <3>1. c \in blocks /\ c # b /\ c.at + c.size <= ptr
      BY <1>c, <2>1, <2>2 DEF Unraced, Below
    <3>2. Apart(b, c)
      BY <2>1, <3>1 DEF Unraced, NoOverlap
    <3> QED BY <1>0, <1>b, <3>1, <3>2, Ranges DEF Apart
  <2>3. writers' = {} => Below(ptr)'
    BY <1>c, <2>2 DEF Below, InSlab, Limit
  <2>4. \A u \in BumpThreads : bpc'[u] = "store" => Below(old[u])'
    BY <1>c, <2>1 DEF Unraced, Below, InSlab, Limit
  <2> QED BY <1>c, <2>1, <2>3, <2>4 DEF Unraced, NoOverlap
<1> QED BY <1>1, <1>2, <1>3, <1>4, <1>5, <1>6, <1>7 DEF BumpIInv

\* A reader holds the lock from here until it stores the pointer or gives up.
LEMMA ReadLockKeeps ==
  ASSUME BumpIInv, NEW t \in BumpThreads, ReadLock(t)
  PROVE  BumpIInv'
<1>0. BumpTypeOK /\ HoldersSound /\ CallsSound
  BY DEF BumpIInv
<1>1. BumpTypeOK'
  BY <1>0, Ranges, BumpAssumptions DEF BumpTypeOK, Block, ReadLock, CanRead, BumpGoto
<1>2. HoldersSound'
  BY <1>0 DEF HoldersSound, BumpTypeOK, ReadLock, CanRead, BumpGoto
<1>3. CallsSound'
  BY <1>0, Ranges DEF CallsSound, BumpTypeOK, ReadLock, CanRead, BumpGoto
<1>4. /\ blocks' \subseteq blocks /\ UNCHANGED <<slabs, tail, ptr, writers, raced>>
      /\ \A u \in BumpThreads : bpc'[u] = "store" => bpc[u] = "store" /\ old'[u] = old[u]
  BY <1>0 DEF BumpTypeOK, ReadLock, CanRead, BumpGoto
<1> QED BY <1>1, <1>2, <1>3, <1>4, MemoryQuiet DEF BumpIInv

\* What is loaded is in the tail; who loads alone may store.
LEMMA LoadPtrKeeps ==
  ASSUME BumpIInv, NEW t \in BumpThreads, LoadPtr(t)
  PROVE  BumpIInv'
<1>0. /\ BumpTypeOK /\ SlabsSound /\ HoldersSound /\ CallsSound
      /\ InSomeSlab /\ PtrInTail /\ (~raced => Unraced)
  BY DEF BumpIInv
<1>a. writers = {}
  BY <1>0 DEF HoldersSound, LoadPtr
<1>b. /\ UNCHANGED <<slabs, tail, ptr, writers, blocks>>
      /\ old'[t] = ptr
      /\ \A u \in BumpThreads \ {t} : bpc'[u] = bpc[u] /\ old'[u] = old[u]
  BY <1>0 DEF LoadPtr, BumpGoto, BumpTypeOK
<1>1. BumpTypeOK'
  BY <1>0, Ranges, BumpAssumptions DEF BumpTypeOK, Block, LoadPtr, BumpGoto
<1>2. SlabsSound'
  BY <1>0, Ranges DEF SlabsSound, Limit, Disjoint, LoadPtr, BumpGoto
<1>3. HoldersSound'
  BY <1>0 DEF HoldersSound, BumpTypeOK, LoadPtr, BumpGoto
<1>4. CallsSound'
  BY <1>0, Ranges DEF CallsSound, BumpTypeOK, LoadPtr, BumpGoto
<1>5. InSomeSlab'
  BY <1>0, Ranges DEF InSomeSlab, InSlab, Limit, LoadPtr, BumpGoto
<1>6. PtrInTail'
  <2>1. tail.base + Header <= ptr /\ ptr <= End
    BY <1>0, <1>a DEF PtrInTail
  <2> QED BY <1>0, <1>a, <1>b, <2>1 DEF PtrInTail, End, Limit
<1>7. (~raced => Unraced)'
  <2> SUFFICES ASSUME ~raced, ~\E u \in BumpThreads : bpc[u] = "store"
               PROVE  Unraced'
    BY DEF LoadPtr
  <2>1. Unraced
    BY <1>0
  <2>2. Below(ptr)
    BY <1>a, <2>1 DEF Unraced
  <2>3. \A u \in BumpThreads : bpc'[u] = "store" => u = t
    BY <1>b
  <2> QED BY <1>b, <2>1, <2>2, <2>3 DEF Unraced, Below, InSlab, Limit, NoOverlap
<1> QED BY <1>1, <1>2, <1>3, <1>4, <1>5, <1>6, <1>7 DEF BumpIInv

\* The new block is in the tail, behind what was loaded.
LEMMA StorePtrKeeps ==
  ASSUME BumpIInv, NEW t \in BumpThreads, StorePtr(t)
  PROVE  BumpIInv'
<1>0. /\ BumpTypeOK /\ SlabsSound /\ HoldersSound /\ CallsSound
      /\ InSomeSlab /\ PtrInTail /\ (~raced => Unraced)
  BY DEF BumpIInv
<1> DEFINE new == [at |-> old[t], size |-> size[t], by |-> t, call |-> bops[t]]
<1>a. writers = {} /\ size[t] \in Sizes
  BY <1>0 DEF HoldersSound, CallsSound, StorePtr
<1>b. /\ tail.base + Header <= old[t] /\ old[t] + size[t] <= End
      /\ ptr' = old[t] + size[t]
  BY <1>0 DEF PtrInTail, StorePtr
<1>c. /\ blocks' \subseteq blocks \cup {new}
      /\ UNCHANGED <<slabs, tail, writers, raced>>
  BY DEF StorePtr
<1>d. new \in Block /\ new.at = old[t] /\ new.size = size[t]
  BY <1>0, <1>a DEF Block, BumpTypeOK
<1>e. InSlab(new, tail)
  BY <1>b, <1>d DEF InSlab, End
<1>f. \A u \in BumpThreads : bpc'[u] = "store" => u # t /\ bpc[u] = "store" /\ old'[u] = old[u]
  BY <1>0 DEF StorePtr, BumpReturn, BumpGoto, BumpTypeOK
<1> HIDE DEF new
<1>1. BumpTypeOK'
  <2>1. blocks' \subseteq Block /\ ptr' \in Int
    BY <1>0, <1>b, <1>c, <1>d, Ranges DEF BumpTypeOK
  <2>2. UNCHANGED <<slabs, tail, writers, bops, raced>> /\ readers' \subseteq readers
    BY DEF StorePtr
  <2>3. /\ bpc' = [bpc EXCEPT ![t] = "idle"] /\ size' = [size EXCEPT ![t] = 0]
        /\ old' = [old EXCEPT ![t] = 0] /\ block' = [block EXCEPT ![t] = {}]
    BY DEF StorePtr, BumpReturn, BumpGoto
  <2> QED BY <1>0, <2>1, <2>2, <2>3 DEF BumpTypeOK
<1>2. SlabsSound'
  BY <1>0, Ranges DEF SlabsSound, Limit, Disjoint, StorePtr, BumpGoto, BumpReturn
<1>3. HoldersSound'
  BY <1>0 DEF HoldersSound, BumpTypeOK, StorePtr, BumpGoto, BumpReturn
<1>4. CallsSound'
  BY <1>0, Ranges DEF CallsSound, BumpTypeOK, StorePtr, BumpGoto, BumpReturn
<1>5. InSomeSlab'
  <2>1. tail \in slabs
    BY <1>0 DEF BumpTypeOK
  <2> QED BY <1>0, <1>c, <1>e, <2>1 DEF InSomeSlab, InSlab, Limit
<1>6. PtrInTail'
  <2>1. tail.base + Header <= ptr' /\ ptr' <= End
    BY <1>0, <1>b, <1>a, Ranges
  <2> QED BY <1>0, <1>a, <1>c, <1>f, <2>1 DEF PtrInTail, End, Limit
<1>7. (~raced => Unraced)'
  <2> SUFFICES ASSUME ~raced
               PROVE  Unraced'
    BY <1>c
  <2>1. Unraced /\ Below(old[t])
    BY <1>0 DEF Unraced, StorePtr
  <2>2. \A u \in BumpThreads : bpc'[u] # "store"
    BY <1>f, <2>1 DEF Unraced, StorePtr
  <2>3. \A b \in blocks' : InSlab(b, tail) => b.at + b.size <= ptr'
    <3>1. \A b \in blocks : InSlab(b, tail) => b.at + b.size <= ptr'
      BY <1>0, <1>a, <1>b, <2>1, Ranges DEF Below
    <3> QED BY <1>0, <1>b, <1>c, <1>d, <3>1, Ranges
  <2>4. \A b \in blocks : Apart(b, new)
    <3> TAKE b \in blocks
    <3>1. PICK s \in slabs : InSlab(b, s)
      BY <1>0 DEF InSomeSlab
    <3>2. CASE s = tail
      BY <1>0, <1>d, <2>1, <3>1, <3>2, Ranges DEF Below, Apart
    <3>3. CASE s # tail
      <4>1. Disjoint(s, tail)
        BY <1>0, <3>3, Ranges DEF SlabsSound
      <4> QED BY <1>0, <1>d, <1>e, <3>1, <4>1, Ranges DEF InSlab, Disjoint, Apart
    <3> QED BY <3>2, <3>3
  <2>5. NoOverlap'
    BY <1>c, <2>1, <2>4 DEF NoOverlap, Apart, Unraced
  <2>6. writers' = {} => Below(ptr)'
    BY <1>c, <2>3 DEF Below, InSlab, Limit
  <2> QED BY <2>2, <2>5, <2>6 DEF Unraced
<1> QED BY <1>1, <1>2, <1>3, <1>4, <1>5, <1>6, <1>7 DEF BumpIInv

\* The read lock is given up.
LEMMA NoRoomKeeps ==
  ASSUME BumpIInv, NEW t \in BumpThreads, NoRoom(t)
  PROVE  BumpIInv'
<1>0. BumpTypeOK /\ HoldersSound /\ CallsSound
  BY DEF BumpIInv
<1>1. BumpTypeOK'
  BY <1>0, Ranges, BumpAssumptions DEF BumpTypeOK, Block, NoRoom, BumpGoto
<1>2. HoldersSound'
  BY <1>0 DEF HoldersSound, BumpTypeOK, NoRoom, BumpGoto
<1>3. CallsSound'
  BY <1>0, Ranges DEF CallsSound, BumpTypeOK, NoRoom, BumpGoto
<1>4. /\ blocks' \subseteq blocks /\ UNCHANGED <<slabs, tail, ptr, writers, raced>>
      /\ \A u \in BumpThreads : bpc'[u] = "store" => bpc[u] = "store" /\ old'[u] = old[u]
  BY <1>0 DEF BumpTypeOK, NoRoom, BumpGoto
<1> QED BY <1>1, <1>2, <1>3, <1>4, MemoryQuiet DEF BumpIInv

\* The new tail is disjoint from every block; nobody is reading.
LEMMA GrowKeeps ==
  ASSUME BumpIInv, NEW t \in BumpThreads, Grow(t)
  PROVE  BumpIInv'
<1>0. /\ BumpTypeOK /\ SlabsSound /\ HoldersSound /\ CallsSound
      /\ InSomeSlab /\ PtrInTail /\ (~raced => Unraced)
  BY DEF BumpIInv
<1>a. PICK base \in Bases :
        /\ \A s \in slabs : Disjoint(NewSlab(t, base), s)
        /\ slabs' = slabs \cup {NewSlab(t, base)} /\ tail' = NewSlab(t, base)
  BY DEF Grow
<1>b. /\ tail' \in [base : Int, size : Nat] /\ tail'.size > Header
      /\ Limit(tail') = tail'.base + tail'.size
  <2>1. /\ size[t] \in Nat \ {0} /\ base \in Int
        /\ Header \in Nat /\ SlabSize \in Nat /\ SlabSize > Header
    BY <1>0, BumpAssumptions DEF CallsSound, Grow
  <2> QED BY <1>a, <2>1 DEF NewSlab, Limit
<1>c. slabs' = slabs \cup {tail'} /\ \A s \in slabs : Disjoint(tail', s)
  BY <1>a
<1>d. /\ writers = {} /\ writers' = {t} /\ readers = {} /\ UNCHANGED <<blocks, raced, old>>
      /\ \A u \in BumpThreads : bpc[u] # "store" /\ bpc'[u] # "store"
  BY <1>0 DEF HoldersSound, Grow, CanWrite, BumpGoto, BumpTypeOK
<1>1. BumpTypeOK'
  BY <1>0, Ranges, BumpAssumptions DEF BumpTypeOK, Block, Grow, CanWrite, BumpGoto, NewSlab
<1>2. SlabsSound'
  <2>1. \A s \in slabs : Disjoint(s, tail')
    BY <1>c DEF Disjoint
  <2> QED BY <1>0, <1>b, <1>c, <2>1 DEF SlabsSound, Disjoint, Limit
<1>3. HoldersSound'
  BY <1>0 DEF HoldersSound, BumpTypeOK, Grow, CanWrite, BumpGoto, NewSlab
<1>4. CallsSound'
  BY <1>0, Ranges DEF CallsSound, BumpTypeOK, Grow, CanWrite, BumpGoto, NewSlab
<1>5. InSomeSlab'
  BY <1>0, Ranges DEF InSomeSlab, InSlab, Limit, Grow, CanWrite, BumpGoto, NewSlab
<1>6. PtrInTail'
  <2>1. \A b \in blocks : ~InSlab(b, tail')
    <3> TAKE b \in blocks
    <3>1. PICK s \in slabs : InSlab(b, s)
      BY <1>0 DEF InSomeSlab
    <3>2. Disjoint(tail', s)
      BY <1>c
    <3> QED BY <1>0, <1>b, <3>1, <3>2, Ranges DEF InSlab, Disjoint
  <2> QED BY <1>d, <2>1 DEF PtrInTail, InSlab, Limit
<1>7. (~raced => Unraced)'
  BY <1>0, <1>d DEF Unraced, NoOverlap
<1> QED BY <1>1, <1>2, <1>3, <1>4, <1>5, <1>6, <1>7 DEF BumpIInv

\* The pointer moves to the new tail, which is empty.
LEMMA GrownKeeps ==
  ASSUME BumpIInv, NEW t \in BumpThreads, Grown(t)
  PROVE  BumpIInv'
<1>0. /\ BumpTypeOK /\ SlabsSound /\ HoldersSound /\ CallsSound
      /\ InSomeSlab /\ PtrInTail /\ (~raced => Unraced)
  BY DEF BumpIInv
<1>a. /\ writers = {t} /\ readers = {} /\ writers' = {} /\ ptr' = tail.base + Header
      /\ UNCHANGED <<slabs, tail, readers, blocks, raced, old>>
  BY <1>0 DEF HoldersSound, Grown
<1>b. \A u \in BumpThreads : bpc'[u] \notin {"load", "store", "grown"}
  BY <1>0, <1>a DEF HoldersSound, Grown, BumpGoto, BumpTypeOK
<1>1. BumpTypeOK'
  BY <1>0, Ranges, BumpAssumptions DEF BumpTypeOK, Block, Grown, BumpGoto
<1>2. SlabsSound'
  BY <1>0, Ranges DEF SlabsSound, Limit, Disjoint, Grown, BumpGoto
<1>3. HoldersSound'
  BY <1>a, <1>b DEF HoldersSound
<1>4. CallsSound'
  BY <1>0, Ranges DEF CallsSound, BumpTypeOK, Grown, BumpGoto
<1>5. InSomeSlab'
  BY <1>0, Ranges DEF InSomeSlab, InSlab, Limit, Grown, BumpGoto
<1>6. PtrInTail'
  <2>1. tail.base + Header <= ptr' /\ ptr' <= End
    BY <1>0, <1>a, Ranges DEF SlabsSound, End, Limit
  <2> QED BY <1>a, <1>b, <2>1 DEF PtrInTail, End, Limit
<1>7. (~raced => Unraced)'
  <2>1. \A b \in blocks : ~InSlab(b, tail)
    BY <1>0, <1>a DEF PtrInTail
  <2>2. Below(ptr)'
    BY <1>a, <2>1 DEF Below, InSlab, Limit
  <2> QED BY <1>0, <1>a, <1>b, <2>2 DEF Unraced, NoOverlap
<1> QED BY <1>1, <1>2, <1>3, <1>4, <1>5, <1>6, <1>7 DEF BumpIInv

\* The call fails.
LEMMA GrowFailsKeeps ==
  ASSUME BumpIInv, NEW t \in BumpThreads, GrowFails(t)
  PROVE  BumpIInv'
<1>0. BumpTypeOK /\ HoldersSound /\ CallsSound
  BY DEF BumpIInv
<1>1. BumpTypeOK'
  BY <1>0, Ranges, BumpAssumptions DEF BumpTypeOK, Block, GrowFails, CanWrite, BumpGoto,
     BumpReturn
<1>2. HoldersSound'
  BY <1>0 DEF HoldersSound, BumpTypeOK, GrowFails, CanWrite, BumpGoto, BumpReturn
<1>3. CallsSound'
  BY <1>0, Ranges DEF CallsSound, BumpTypeOK, GrowFails, CanWrite, BumpGoto, BumpReturn
<1>4. /\ blocks' \subseteq blocks /\ UNCHANGED <<slabs, tail, ptr, writers, raced>>
      /\ \A u \in BumpThreads : bpc'[u] = "store" => bpc[u] = "store" /\ old'[u] = old[u]
  BY <1>0 DEF BumpTypeOK, GrowFails, CanWrite, BumpGoto, BumpReturn
<1> QED BY <1>1, <1>2, <1>3, <1>4, MemoryQuiet DEF BumpIInv

\* The first state satisfies the invariant.
LEMMA BumpInitIInv == BumpInit => BumpIInv
<1> SUFFICES ASSUME BumpInit
             PROVE  BumpIInv
  OBVIOUS
<1>1. BumpTypeOK
  <2>1. tail \in [base : Int, size : Nat] /\ ptr \in Int /\ 0 \in 0..BumpMaxOps
    BY BumpAssumptions DEF BumpInit
  <2> QED BY <2>1 DEF BumpInit, BumpTypeOK
<1>2. slabs = {tail} /\ tail.base = 0 /\ tail.size = SlabSize /\ blocks = {} /\ ptr = Header
  BY DEF BumpInit
<1>3. SlabsSound
  BY <1>2, BumpAssumptions DEF SlabsSound
<1>4. PtrInTail
  BY <1>2, BumpAssumptions DEF BumpInit, PtrInTail, End, Limit
<1>5. HoldersSound /\ CallsSound
  BY DEF BumpInit, HoldersSound, CallsSound
<1> QED BY <1>1, <1>2, <1>3, <1>4, <1>5 DEF BumpIInv, InSomeSlab, Unraced, Below, NoOverlap,
   BumpInit

\* Every step preserves the invariant.
LEMMA BumpNextIInv == BumpIInv /\ [BumpNext]_bumpVars => BumpIInv'
<1> SUFFICES ASSUME BumpIInv, [BumpNext]_bumpVars
             PROVE  BumpIInv'
  OBVIOUS
<1>1. CASE BumpNext
  <2>1. PICK t \in BumpThreads : BumpStep(t)
    BY <1>1 DEF BumpNext
  <2>2. CASE \E n \in Sizes, own \in {{}} \cup {{b} : b \in blocks} : Alloc(t, n, own)
    BY <2>2, AllocKeeps
  <2>3. CASE \E b \in blocks : Free(t, b)
    BY <2>3, FreeKeeps
  <2> QED BY <2>1, <2>2, <2>3, FreeCASKeeps, ReadLockKeeps, LoadPtrKeeps, StorePtrKeeps,
             NoRoomKeeps, GrowKeeps, GrownKeeps, GrowFailsKeeps DEF BumpStep
<1>2. CASE UNCHANGED bumpVars
  BY <1>2 DEF bumpVars, BumpIInv, BumpTypeOK, SlabsSound, HoldersSound, CallsSound, InSomeSlab,
     PtrInTail, Unraced, Below, NoOverlap, Apart, InSlab, Disjoint, Limit, End
<1> QED BY <1>1, <1>2

\* So it holds in every state.
LEMMA BumpInvariance == BumpSpec => []BumpIInv
BY BumpInitIInv, BumpNextIInv, PTL DEF BumpSpec

-----------------------------------------------------------------------------
\* The locals of every call, the lock and the blocks have their types.
THEOREM BumpTypes == BumpSpec => []BumpTypeOK
BY BumpInvariance, PTL DEF BumpIInv

\* Every block lies in a slab, behind its header, whatever the threads do; and
\* no two blocks in use share memory unless two threads were between the load
\* and the store of a->ptr at once.
THEOREM BumpBlocksSound == BumpSpec => []BlocksSound
<1>1. BumpIInv => BlocksSound
  BY DEF BumpIInv, InSomeSlab, Unraced, BlocksSound
<1> QED BY <1>1, BumpInvariance, PTL
=============================================================================
