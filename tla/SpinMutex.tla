----------------------------- MODULE SpinMutex ------------------------------
(***************************************************************************)
(* spinmutex_t of src/src/thread.h and thread.c, the lock of every chan_t: *)
(* one flag that is exchanged, a count of sleepers and a semaphore.        *)
(***************************************************************************)
EXTENDS Integers, FiniteSets

CONSTANTS SpinThreads,
          SpinMaxOps    \* bound: lock/unlock rounds per thread

ASSUME SpinAssumptions == IsFiniteSet(SpinThreads) /\ SpinMaxOps \in Nat

VARIABLES flag, nwait, sema,    \* spinmutex_t
          spc,                  \* spc[t]: the next atomic access of t
          tired,                \* tired[t]: t has used up its spins
          sops                  \* sops[t]: rounds t has begun

spinVars == <<flag, nwait, sema, spc, tired, sops>>

\* spinmutex_init
SpinInit ==
  /\ flag = FALSE /\ nwait = 0 /\ sema = 0
  /\ spc = [t \in SpinThreads |-> "idle"]
  /\ tired = [t \in SpinThreads |-> FALSE]
  /\ sops = [t \in SpinThreads |-> 0]

SpinGoto(t, l) == spc' = [spc EXCEPT ![t] = l]

\* Bugs: the exchange is a plain store; nobody is woken.
SpinFreeUnchecked == TRUE
HasSleepersNever == FALSE

SpinFree == ~flag
HasSleepers == nwait # 0
SpinToken == sema > 0

-----------------------------------------------------------------------------
SpinCall(t) ==
  /\ spc[t] = "idle" /\ sops[t] < SpinMaxOps
  /\ sops' = [sops EXCEPT ![t] = @ + 1]
  /\ SpinGoto(t, "xchg")
  /\ UNCHANGED <<flag, nwait, sema, tired>>

\* The exchange of spinmutex_lock and of each turn of _spinmutex_wait.
Exchange(t) ==
  /\ spc[t] = "xchg"
  /\ flag' = TRUE
  /\ tired' = [tired EXCEPT ![t] = FALSE]
  /\ SpinGoto(t, IF SpinFree THEN "critical" ELSE "spin")
  /\ UNCHANGED <<nwait, sema, sops>>

\* The spin loop sees the flag cleared ...
SpinEnds(t) ==
  /\ spc[t] = "spin" /\ ~flag
  /\ SpinGoto(t, "xchg")
  /\ UNCHANGED <<flag, nwait, sema, tired, sops>>

\* ... or runs out of tries.  That happens once per exchange: n then wraps
\* around and the thread only spins.
SpinTired(t) ==
  /\ spc[t] = "spin" /\ flag /\ ~tired[t]
  /\ tired' = [tired EXCEPT ![t] = TRUE]
  /\ SpinGoto(t, "announce")
  /\ UNCHANGED <<flag, nwait, sema, sops>>

Announce(t) ==
  /\ spc[t] = "announce"
  /\ nwait' = nwait + 1
  /\ SpinGoto(t, "test")
  /\ UNCHANGED <<flag, sema, tired, sops>>

\* The test of the inner loop: sleep while the flag is set.
SleepTest(t) ==
  /\ spc[t] = "test"
  /\ SpinGoto(t, IF flag THEN "sleep" ELSE "leave")
  /\ UNCHANGED <<flag, nwait, sema, tired, sops>>

\* sema_wait, and the test again; when it succeeds the sleeper counts itself
\* out and goes on spinning.
Sleep(t) ==
  /\ spc[t] = "sleep" /\ SpinToken
  /\ sema' = sema - 1
  /\ SpinGoto(t, "test")
  /\ UNCHANGED <<flag, nwait, tired, sops>>

Leave(t) ==
  /\ spc[t] = "leave"
  /\ nwait' = nwait - 1
  /\ SpinGoto(t, "spin")
  /\ UNCHANGED <<flag, sema, tired, sops>>

\* spinmutex_unlock: clear the flag ...
SpinUnlock(t) ==
  /\ spc[t] = "critical"
  /\ flag' = FALSE
  /\ SpinGoto(t, "wake")
  /\ UNCHANGED <<nwait, sema, tired, sops>>

\* ... load nwait ...
LoadWaiters(t) ==
  /\ spc[t] = "wake"
  /\ SpinGoto(t, IF HasSleepers THEN "signal" ELSE "idle")
  /\ UNCHANGED <<flag, nwait, sema, tired, sops>>

\* ... and wake one sleeper.
SignalOne(t) ==
  /\ spc[t] = "signal"
  /\ sema' = sema + 1
  /\ SpinGoto(t, "idle")
  /\ UNCHANGED <<flag, nwait, tired, sops>>

SpinStep(t) ==
  \/ Exchange(t) \/ SpinEnds(t) \/ SpinTired(t) \/ Announce(t) \/ SleepTest(t)
  \/ Sleep(t) \/ Leave(t)
  \/ SpinUnlock(t) \/ LoadWaiters(t) \/ SignalOne(t)

SpinNext == \E t \in SpinThreads : SpinCall(t) \/ SpinStep(t)

\* SpinThreads inside a call are scheduled again and again.
SpinFairness == \A t \in SpinThreads : WF_spinVars(SpinStep(t))

SpinSpec == SpinInit /\ [][SpinNext]_spinVars /\ SpinFairness

-----------------------------------------------------------------------------
SpinPCs == {"idle", "xchg", "spin", "announce", "test", "sleep",
        "leave", "critical", "wake", "signal"}

SpinTypeOK ==
  /\ flag \in BOOLEAN /\ nwait \in Int /\ sema \in Nat
  /\ spc \in [SpinThreads -> SpinPCs] /\ tired \in [SpinThreads -> BOOLEAN]
  /\ sops \in [SpinThreads -> Nat]

\* One thread at a time is between spinmutex_lock and spinmutex_unlock, and
\* exactly while the flag is set.
MutualExclusion ==
  /\ \A t, u \in SpinThreads : spc[t] = "critical" /\ spc[u] = "critical" => t = u
  /\ flag <=> \E t \in SpinThreads : spc[t] = "critical"

\* thread.h: "at least one thread waiting on a semaphore signal -- wake one
\* thread".  If someone sleeps on a free lock, a token is there for a sleeper
\* or a thread is on its way to wake one or to unlock again.
SleeperNotForgotten ==
  (\E t \in SpinThreads : spc[t] = "sleep") =>
    \/ flag
    \/ sema > 0
    \/ \E t \in SpinThreads : spc[t] \in {"wake", "signal", "test", "leave"}
    \/ \E t \in SpinThreads : spc[t] = "spin" /\ tired[t]
    \/ \E t \in SpinThreads : spc[t] = "xchg"

\* What spinmutex_t promises at every moment.
SpinSound == MutualExclusion /\ SleeperNotForgotten

\* Every thread that wants the lock gets it and gets out again.
SpinCallsReturn == \A t \in SpinThreads : (spc[t] # "idle") ~> (spc[t] = "idle")
=============================================================================
