----------------------------- MODULE ThreadPool -----------------------------
(***************************************************************************)
(* The global thread pool of src/src/threadpool.c: submitters send jobs on *)
(* g_workch, count them in g_inflightcount, and spawn more workers under   *)
(* g_spawnmu when the count says that the pool is over-committed.          *)
(* The channel is the one of Chan, taken here as a bounded queue.          *)
(***************************************************************************)
EXTENDS Integers, Sequences, FiniteSets

CONSTANTS Submitters,
          PoolCap,      \* g_threadcap, also the capacity of g_workch
          InitialLen,   \* workers started by threadpool_init, 4 in the code
          Threshold,    \* SPAWN_THRESHOLD
          Word,         \* values of an unsigned counter, 2^32 in the code
          MaxJobs       \* bound: jobs per submitter

ASSUME PoolAssumptions ==
  /\ IsFiniteSet(Submitters)
  /\ PoolCap \in Nat /\ InitialLen \in 1..PoolCap /\ Threshold \in Nat /\ MaxJobs \in Nat
  /\ Word \in Nat /\ Word > PoolCap + 1

NoSubmitter == "no submitter"
ASSUME NoSubmitterAssumption == NoSubmitter \notin Submitters

\* The locals of a submitter are zero outside their scope.
VARIABLES queue,      \* g_workch: jobs <<submitter, number>>
          inflight,   \* g_inflightcount
          threadlen,  \* g_threadlen
          spawnmu,    \* holder of g_spawnmu
          worker,     \* worker[i]: what slot i of g_threadv is doing
          ppc,        \* ppc[s]: the next step of s in threadpool_submit
          seen,       \* seen[s]: s's local inflightcount
          newlen,     \* newlen[s]: s's local newthreadlen
          oldlen,     \* oldlen[s]: s's local threadlen, under the mutex
          slot,       \* slot[s]: s's loop index i
          sent,       \* sent[s]: jobs s has submitted
          ran,        \* the jobs that were called
          passerts    \* no assertf has failed, no slot was taken

spawnVars == <<newlen, oldlen, slot>>
poolVars == <<queue, inflight, threadlen, spawnmu, worker, ppc, seen, spawnVars, sent, ran,
              passerts>>

Slots == 0..(PoolCap - 1)

\* threadpool_init
PoolInit ==
  /\ queue = <<>> /\ inflight = 0 /\ spawnmu = NoSubmitter
  /\ threadlen = InitialLen
  /\ worker = [i \in Slots |-> IF i < InitialLen THEN "recv" ELSE "none"]
  /\ ppc = [s \in Submitters |-> "idle"]
  /\ seen = [s \in Submitters |-> 0]
  /\ newlen = [s \in Submitters |-> 0]
  /\ oldlen = [s \in Submitters |-> 0]
  /\ slot = [s \in Submitters |-> 0]
  /\ sent = [s \in Submitters |-> 0]
  /\ ran = {} /\ passerts = TRUE

PoolGoto(s, l) == ppc' = [ppc EXCEPT ![s] = l]

-----------------------------------------------------------------------------
\* worker_thread: receive a job and call it ...
Receive(i) ==
  /\ worker[i] = "recv" /\ queue # <<>>
  /\ queue' = Tail(queue)
  /\ ran' = ran \cup {Head(queue)}
  /\ worker' = [worker EXCEPT ![i] = "call"]
  /\ UNCHANGED <<inflight, threadlen, spawnmu, ppc, seen, spawnVars, sent, passerts>>

\* Bugs: the finished job stays counted; the worker exits after one job.
JobsDoneNot(n) == n
NextTurnExits == "none"

JobsDone(n) == (n - 1) % Word
NextTurn == "recv"

\* ... and count it out.
Finish(i) ==
  /\ worker[i] = "call"
  /\ inflight' = JobsDone(inflight)
  /\ worker' = [worker EXCEPT ![i] = NextTurn]
  /\ UNCHANGED <<queue, threadlen, spawnmu, ppc, seen, spawnVars, sent, ran, passerts>>

-----------------------------------------------------------------------------
\* Bugs: the mutex does not lock; the new count is not stored.
SpawnMuFreeAlways == TRUE
PublishedOld(s) == threadlen

SpawnMuFree == spawnmu = NoSubmitter
Overcommitted(n, len) == n > len /\ n - len >= Threshold /\ len < PoolCap
NewThreadLen(n) == IF n < PoolCap THEN n ELSE PoolCap
Published(s) == newlen[s]

\* threadpool_submit: send the message; blocks while the channel is full ...
Send(s) ==
  /\ ppc[s] = "idle" /\ sent[s] < MaxJobs /\ Len(queue) < PoolCap
  /\ queue' = Append(queue, <<s, sent[s] + 1>>)
  /\ sent' = [sent EXCEPT ![s] = @ + 1]
  /\ PoolGoto(s, "add")
  /\ UNCHANGED <<inflight, threadlen, spawnmu, worker, seen, spawnVars, ran, passerts>>

\* ... only then count it ...
Add(s) ==
  /\ ppc[s] = "add"
  /\ inflight' = (inflight + 1) % Word
  /\ seen' = [seen EXCEPT ![s] = (inflight + 1) % Word]
  /\ PoolGoto(s, "load")
  /\ UNCHANGED <<queue, threadlen, spawnmu, worker, spawnVars, sent, ran, passerts>>

\* ... and compare the count with the number of threads.
LoadLen(s) ==
  /\ ppc[s] = "load"
  /\ PoolGoto(s, IF Overcommitted(seen[s], threadlen) THEN "lock" ELSE "idle")
  /\ seen' = [seen EXCEPT ![s] = 0]
  /\ UNCHANGED <<queue, inflight, threadlen, spawnmu, worker, spawnVars, sent, ran, passerts>>

SpawnLock(s) ==
  /\ ppc[s] = "lock" /\ SpawnMuFree
  /\ spawnmu' = s
  /\ PoolGoto(s, "recheck")
  /\ UNCHANGED <<queue, inflight, threadlen, worker, seen, spawnVars, sent, ran, passerts>>

\* The second look, with the mutex held.
Recheck(s) ==
  /\ ppc[s] = "recheck"
  /\ IF Overcommitted(inflight, threadlen)
       THEN /\ newlen' = [newlen EXCEPT ![s] = NewThreadLen(inflight)]
            /\ oldlen' = [oldlen EXCEPT ![s] = threadlen]
            /\ slot' = [slot EXCEPT ![s] = threadlen]
            /\ PoolGoto(s, "spawn")
       ELSE PoolGoto(s, "unlock") /\ UNCHANGED spawnVars
  /\ UNCHANGED <<queue, inflight, threadlen, spawnmu, worker, seen, sent, ran, passerts>>

\* One thrd_create; slots beyond g_threadcap would be outside g_threadv.
Spawn(s) ==
  /\ ppc[s] = "spawn" /\ slot[s] < newlen[s]
  /\ passerts' = (passerts /\ slot[s] \in Slots /\ worker[slot[s]] = "none")
  /\ worker' = [worker EXCEPT ![slot[s]] = "recv"]
  /\ slot' = [slot EXCEPT ![s] = @ + 1]
  /\ UNCHANGED <<queue, inflight, threadlen, spawnmu, ppc, seen, newlen, oldlen, sent, ran>>

\* thrd_create fails: keep what was spawned so far.
SpawnFails(s) ==
  /\ ppc[s] = "spawn" /\ slot[s] < newlen[s]
  /\ newlen' = [newlen EXCEPT ![s] = slot[s]]
  /\ UNCHANGED <<queue, inflight, threadlen, spawnmu, worker, ppc, seen, oldlen, slot, sent,
                 ran, passerts>>

Publish(s) ==
  /\ ppc[s] = "spawn" /\ slot[s] >= newlen[s]
  /\ passerts' = (passerts /\ threadlen = oldlen[s])
  /\ threadlen' = Published(s)
  /\ newlen' = [newlen EXCEPT ![s] = 0]
  /\ oldlen' = [oldlen EXCEPT ![s] = 0]
  /\ slot' = [slot EXCEPT ![s] = 0]
  /\ PoolGoto(s, "unlock")
  /\ UNCHANGED <<queue, inflight, spawnmu, worker, seen, sent, ran>>

SpawnUnlock(s) ==
  /\ ppc[s] = "unlock"
  /\ spawnmu' = NoSubmitter
  /\ PoolGoto(s, "idle")
  /\ UNCHANGED <<queue, inflight, threadlen, worker, seen, spawnVars, sent, ran, passerts>>

Submit(s) ==
  \/ Add(s) \/ LoadLen(s) \/ SpawnLock(s) \/ Recheck(s)
  \/ Spawn(s) \/ SpawnFails(s) \/ Publish(s) \/ SpawnUnlock(s)

PoolNext ==
  \/ \E i \in Slots : Receive(i) \/ Finish(i)
  \/ \E s \in Submitters : Send(s) \/ Submit(s)

\* Threads inside the pool and inside a submission are scheduled, and the
\* jobs of this module return.
PoolFairness ==
  /\ \A i \in Slots : WF_poolVars(Receive(i) \/ Finish(i))
  /\ \A s \in Submitters : WF_poolVars(Submit(s))

PoolSpec == PoolInit /\ [][PoolNext]_poolVars /\ PoolFairness

-----------------------------------------------------------------------------
PoolPCs == {"idle", "add", "load", "lock", "recheck", "spawn", "unlock"}

PoolTypeOK ==
  /\ queue \in Seq(Submitters \X Nat) /\ inflight \in 0..(Word - 1)
  /\ threadlen \in 1..PoolCap /\ spawnmu \in Submitters \cup {NoSubmitter}
  /\ worker \in [Slots -> {"none", "recv", "call"}]
  /\ ppc \in [Submitters -> PoolPCs] /\ seen \in [Submitters -> 0..(Word - 1)]
  /\ newlen \in [Submitters -> 0..PoolCap] /\ slot \in [Submitters -> 0..PoolCap]
  /\ oldlen \in [Submitters -> 0..PoolCap]
  /\ sent \in [Submitters -> Nat] /\ ran \in SUBSET (Submitters \X Nat)
  /\ passerts \in BOOLEAN

\* "race should not be possible here since we hold a lock on g_spawnmu":
\* g_threadlen is what the thread that spawned has read, and every slot is
\* spawned once, in order, inside g_threadv.
NoSpawnRace == passerts

\* Outside the spawning critical section the first g_threadlen slots are
\* running threads and the others are free.
LenMatchesThreads ==
  (\A s \in Submitters : ppc[s] # "spawn") =>
    \A i \in Slots : worker[i] # "none" <=> i < threadlen

\* threadpool.c: "race should not be possible here since we hold a lock on
\* g_spawnmu".  Every slot is spawned once, inside g_threadv, and outside the
\* spawning section the first g_threadlen slots are the running threads, also
\* when thrd_create has failed in between.
SlotsMatchThreads == NoSpawnRace /\ LenMatchesThreads

Busy == {i \in Slots : worker[i] = "call"}
Uncounted == {s \in Submitters : ppc[s] = "add"}
Workload == Len(queue) + Cardinality(Busy)

\* The counter is the workload less the jobs sent but not yet counted, modulo
\* the width of the counter; in particular it returns to zero.
InflightExact == inflight = (Workload - Cardinality(Uncounted)) % Word

Submitted == {j \in Submitters \X (1..MaxJobs) : j[2] <= sent[j[1]]}

\* threadpool.h: "threadpool_submit enqueues fn to be called on a thread in the
\* pool."
SubmittedJobsRun ==
  \A j \in Submitters \X (1..MaxJobs) : (j \in Submitted) ~> (j \in ran)
=============================================================================
