------------------------------- MODULE Future -------------------------------
(***************************************************************************)
(* future_t of src/src/future.c: a single-producer, multi-consumer cell    *)
(* made of one atomic status word and one counting semaphore.  Every       *)
(* atomic access of the C code is a step of its own.                       *)
(***************************************************************************)
EXTENDS Integers, FiniteSets, Functions

CONSTANTS Threads,      \* the threads that share the future
          Errs          \* error codes a producer may finish with

\* err_t codes are negative (src/src/err.c); 1 and 2 are statuses.
ASSUME ErrsAssumption == Errs \subseteq {e \in Int : e < 0}
ASSUME ThreadsAssumption == IsFiniteSet(Threads)

VARIABLES status,       \* 0 not started, 1 processing, 2 done, < 0 failed
          sem,          \* value of the semaphore
          pc,           \* pc[t]: the atomic step t takes next
          acquirers,    \* the threads future_acquire returned true to
          result,       \* {} or {v}: what future_finalize was called with
          told,         \* told[t]: what t's last (try)wait returned; {} or {v}
          disposed,     \* future_dispose was called
          asserts       \* no assertf of future.c has failed

vars == <<status, sem, pc, acquirers, result, told, disposed, asserts>>

Results  == {0} \cup Errs
Statuses == {0, 1, 2} \cup Errs
Done     == status \notin {0, 1}
PCs      == {"idle", "acq_cas", "owner", "fin_signal",
             "wait_sem", "wait_restore", "wait_reload"}

\* The err_t a final status stands for, and back.
ErrOf(s)    == IF s = 2 THEN 0 ELSE s
StatusOf(e) == IF e = 0 THEN 2 ELSE e

\* A bug: test and store instead of compare and swap.
CASAlways == TRUE

CASSucceeds == status = 0     \* AtomicCAS(&p->status, 0, 1)
Signals     == 2              \* "yes, 2 signals"
Token       == sem > 0        \* sema_wait can return

Goto(t, l) == pc' = [pc EXCEPT ![t] = l]
Tell(t, s) == told' = [told EXCEPT ![t] = {ErrOf(s)}]

TypeOK ==
  /\ status \in Statuses
  /\ sem \in Nat
  /\ pc \in [Threads -> PCs]
  /\ acquirers \subseteq Threads
  /\ result \subseteq Results
  /\ told \in [Threads -> SUBSET (Statuses \cup Results)]
  /\ disposed \in BOOLEAN
  /\ asserts \in BOOLEAN

\* future_init
Init ==
  /\ status = 0
  /\ sem = 0
  /\ pc = [t \in Threads |-> "idle"]
  /\ acquirers = {}
  /\ result = {}
  /\ told = [t \in Threads |-> {}]
  /\ disposed = FALSE
  /\ asserts = TRUE

-----------------------------------------------------------------------------
\* future_acquire: the early return when the status is not 0 changes nothing.
AcquireLoad(t) ==
  /\ pc[t] = "idle" /\ ~disposed
  /\ status = 0
  /\ Goto(t, "acq_cas")
  /\ UNCHANGED <<status, sem, acquirers, result, told, disposed, asserts>>

AcquireCAS(t) ==
  /\ pc[t] = "acq_cas"
  /\ \/ /\ CASSucceeds
        /\ status' = 1
        /\ acquirers' = acquirers \cup {t}
        /\ Goto(t, "owner")
     \/ /\ ~CASSucceeds
        /\ Goto(t, "idle")
        /\ UNCHANGED <<status, acquirers>>
  /\ UNCHANGED <<sem, result, told, disposed, asserts>>

\* A bug: the semaphore is signalled before the status is stored.
FinalizeSignalFirst(t, e) ==
  /\ pc[t] = "owner"
  /\ sem' = sem + 2
  /\ result' = {e}
  /\ Goto(t, "fin_signal")
  /\ UNCHANGED <<status, acquirers, told, disposed, asserts>>

\* future_finalize: the assertion and the release store ...
FinalizeStore(t, e) ==
  /\ pc[t] = "owner"
  /\ asserts' = (asserts /\ status = 1)
  /\ status' = StatusOf(e)
  /\ result' = {e}
  /\ Goto(t, "fin_signal")
  /\ UNCHANGED <<sem, acquirers, told, disposed>>

\* ... and the two signals.
FinalizeSignal(t) ==
  /\ pc[t] = "fin_signal"
  /\ sem' = sem + Signals
  /\ Goto(t, "idle")
  /\ UNCHANGED <<status, acquirers, result, told, disposed, asserts>>

\* future_trywait
TryWait(t) ==
  /\ pc[t] = "idle" /\ ~disposed
  /\ Done
  /\ Tell(t, status)
  /\ UNCHANGED <<status, sem, pc, acquirers, result, disposed, asserts>>

\* future_wait: the first load.
WaitLoad(t) ==
  /\ pc[t] = "idle" /\ ~disposed
  /\ \/ Done /\ Tell(t, status) /\ UNCHANGED pc
     \/ ~Done /\ Goto(t, "wait_sem") /\ UNCHANGED told
  /\ UNCHANGED <<status, sem, acquirers, result, disposed, asserts>>

WaitSem(t) ==
  /\ pc[t] = "wait_sem"
  /\ Token
  /\ sem' = sem - 1
  /\ Goto(t, "wait_restore")
  /\ UNCHANGED <<status, acquirers, result, told, disposed, asserts>>

\* A bug: the token is not given back.
WaitKeepToken(t) ==
  /\ pc[t] = "wait_restore"
  /\ Goto(t, "wait_reload")
  /\ UNCHANGED <<status, sem, acquirers, result, told, disposed, asserts>>

WaitRestore(t) ==
  /\ pc[t] = "wait_restore"
  /\ sem' = sem + 1
  /\ Goto(t, "wait_reload")
  /\ UNCHANGED <<status, acquirers, result, told, disposed, asserts>>

WaitReload(t) ==
  /\ pc[t] = "wait_reload"
  /\ Tell(t, status)
  /\ Goto(t, "idle")
  /\ UNCHANGED <<status, sem, acquirers, result, disposed, asserts>>

\* future_dispose, called once nobody is inside an operation and an acquired
\* future has been finalized, as future.h demands.
Dispose ==
  /\ ~disposed
  /\ \A t \in Threads : pc[t] = "idle"
  /\ disposed' = TRUE
  /\ asserts' = (asserts /\ (status = 0 \/ sem > 0))
  /\ sem' = IF status # 0 /\ sem > 0 THEN sem - 1 ELSE sem
  /\ UNCHANGED <<status, pc, acquirers, result, told>>

Step(t) ==
  \/ AcquireCAS(t)
  \/ \E e \in Results : FinalizeStore(t, e)
  \/ FinalizeSignal(t)
  \/ WaitSem(t) \/ WaitRestore(t) \/ WaitReload(t)

Next ==
  \/ \E t \in Threads : AcquireLoad(t) \/ TryWait(t) \/ WaitLoad(t) \/ Step(t)
  \/ Dispose

\* An operation that has begun goes on: the scheduler is fair to every
\* thread.  Nobody is obliged to begin one.
Fairness == \A t \in Threads : WF_vars(Step(t))

Spec == Init /\ [][Next]_vars /\ Fairness

-----------------------------------------------------------------------------
\* future.h: "future_acquire returns true exactly once, for one thread."
AcquiredOnce == \A t, u \in acquirers : t = u

\* future.h on future_wait and future_trywait: what they return is the value
\* future_finalize was called with; in particular a waiter that was woken
\* never reads the "processing" status.
WaitersGetResult == \A t \in Threads : told[t] \subseteq result

\* Once the producer has signalled, the two tokens are in the semaphore or in
\* the hand of a waiter that will put its token back.
TokensConserved ==
  (Done /\ ~disposed /\ \A t \in Threads : pc[t] # "fin_signal")
    => sem + Cardinality({t \in Threads : pc[t] = "wait_restore"}) = 2

\* No assertf of future_finalize or future_dispose fails.
AssertsHold == asserts

\* A published status is never changed again.
ResultIsFinal == [][Done => status' = status]_vars

\* Every waiter returns once the producer has published, however many wait
\* on the two tokens.
WaitersReturn ==
  \A t \in Threads : (Done /\ pc[t] = "wait_sem") ~> (pc[t] = "idle")

\* The future implements its contract.
Contract == INSTANCE FutureSpec WITH
  producer <- acquirers, outcome <- result, told <- told
ImplementsContract == Contract!FutureContract
=============================================================================
