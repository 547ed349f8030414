------------------------------ MODULE MCTasks -------------------------------
(* What the threads of a build share besides channels: a future, the thread  *)
(* pool, the bump allocator and the two locks of thread.c.  These share      *)
(* nothing among them, so a behaviour uses only one.                         *)
EXTENDS Future, ThreadPool, Bump, RWMutex, SpinMutex

CONSTANTS t1, t2, t3, t4, s1, s2, j1, j2
MCThreads == {t1, t2, t3, t4}
MCRWThreads == {t1, t2, t3}
MCErrs == {-1, -2}
MCSubmitters == {s1, s2}
MCBumpThreads == {j1, j2}
MCBases == {-SlabSize, SlabSize}

VARIABLE use    \* the part that the behaviour uses

MCInit ==
  /\ use \in {"future", "pool", "memory", "rwmutex", "spinmutex"}
  /\ Init /\ PoolInit /\ BumpInit /\ RWInit /\ SpinInit

Future1 == use = "future" /\ UNCHANGED <<poolVars, bumpVars, rwVars, spinVars, use>>
Pool1 == use = "pool" /\ UNCHANGED <<vars, bumpVars, rwVars, spinVars, use>>
Memory1 == use = "memory" /\ UNCHANGED <<vars, poolVars, rwVars, spinVars, use>>
RWMutex1 == use = "rwmutex" /\ UNCHANGED <<vars, poolVars, bumpVars, spinVars, use>>
SpinMutex1 == use = "spinmutex" /\ UNCHANGED <<vars, poolVars, bumpVars, rwVars, use>>

MCNext ==
  \/ Future1 /\ Next
  \/ Pool1 /\ PoolNext
  \/ Memory1 /\ BumpNext
  \/ RWMutex1 /\ RWNext
  \/ SpinMutex1 /\ SpinNext

\* The i'th actor of the part in use.  For that part this is its own fairness.
Thread == <<t1, t2, t3, t4, t1>>
Locker == <<t1, t2, t3, t1, t2>>
Submitter == <<s1, s2>>
Steps(i) ==
  \/ Future1 /\ Step(Thread[i])
  \/ Pool1 /\ IF i <= 2 THEN Submit(Submitter[i])
              ELSE i - 3 \in Slots /\ (Receive(i - 3) \/ Finish(i - 3))
  \/ RWMutex1 /\ RWStep(Locker[i])
  \/ SpinMutex1 /\ SpinStep(Locker[i])
MCVars == <<vars, poolVars, bumpVars, rwVars, spinVars, use>>
MCFairness ==
  /\ \A i \in 1..(2 + PoolCap) : WF_MCVars(Steps(i))
  /\ \A t \in RWThreads : SF_rwVars(MutexLock(t))

MCSpec == MCInit /\ [][MCNext]_MCVars /\ MCFairness

\* What the i'th thread waits for, or the i'th job, and its end.
Begun(i) ==
  CASE use = "future" -> Done /\ pc[Thread[i]] = "wait_sem"
    [] use = "pool" -> <<s1, i>> \in Submitted
    [] use = "memory" -> FALSE
    [] use = "rwmutex" -> rwpc[Locker[i]] # "idle"
    [] use = "spinmutex" -> spc[Locker[i]] # "idle"
Ended(i) ==
  CASE use = "future" -> pc[Thread[i]] = "idle"
    [] use = "pool" -> <<s1, i>> \in ran
    [] use = "memory" -> TRUE
    [] use = "rwmutex" -> rwpc[Locker[i]] = "idle"
    [] use = "spinmutex" -> spc[Locker[i]] = "idle"

\* What is begun comes to its end.  A thread in future_wait returns once the result
\* is published, however many wait on the two tokens; every job that
\* threadpool_submit took is called, as long as jobs return; every call that locks
\* or unlocks an rwmutex_t or a spinmutex_t returns.  Threads are interchangeable,
\* and so are submitters: what is true of the first is true of all.
EverythingEnds == \A i \in 1..MaxJobs : Begun(i) ~> Ended(i)
=============================================================================
