# TLA+ models of compis

compis is a compiler for the co language: it parses and checks packages, analyses ownership,
generates C, compiles that with an embedded clang and links it with system libraries that it
builds itself on first use. This directory models the parts of it in which steps of several
threads, processes or builds interleave, and the algorithms whose correctness depends on paths, orders
or long sequences of calls rather than on threads: ownership analysis, narrowing of optional types, the
order of definitions, scopes and hash tables.

Paths such as `pkgbuild.c:419` are relative to `src/src/`. `PROJECT.json` lists components,
runs, hazards, findings and theorems, and maps every definition to the lines it models.

## 1. The system

| Part | Source | State | Operations | Talks to |
|---|---|---|---|---|
| bump allocator | memalloc_bump2.c | slabs, pointer, end, an rwmutex | alloc, resize, free, grow | the parse jobs of a package |
| locks | thread.h, thread.c | flag, counters, OS mutex, semaphore | lock, trylock, unlock, read locks | everything below |
| future | future.c | status word, semaphore | init, acquire, finalize, wait, trywait, dispose | package loading: one per package |
| channel | chan.c | ring buffer, two wait queues, closed flag, a spinmutex | open, send, recv, trysend, tryrecv, close, free | thread pool |
| thread pool | threadpool.c | channel of jobs, in-flight counter, thread table, spawn mutex | init, submit, worker loop | package loading |
| package loading and building | pkgbuild.c, pkg.c, import.c | package table, parent cells, future per package, parse results, error count | load_dependency, build_pkg, parse, import, typecheck, codegen, link | futures, pool, metafiles |
| incremental builds | pkgbuild.c, astencode.c | sources, metafiles, libraries on disk; mtimes and API hashes in memory | is it up to date, load API, write metafile, link | file system |
| scanner and parser | scanner.c, parser.c | tokens, syntax tree, scopes | scan, parse | one thread per source file |
| scopes | scope.c | one array of values, keys, bases and marks | push, pop, define, stash, unstash, lookup | parser, type checker |
| type checker | typecheck.c, comptime.c | syntax tree, types, what is known of optional values | visit, narrow, enter and leave scopes, assign | one thread per package; scopes |
| order of definitions | ast.c, check_typedeps.c, qsort.c | the array of definitions so far, marks on nodes | toposort, check for cyclic types, sort | type checker, C generator |
| interning | sym.c, typeid.c, typefun.c | hash tables shared by all threads, an rwmutex each | intern, look up | everything that compares names or types |
| containers | hashtable.c, map.c | entries, status bits or marks, length, capacity | assign, look up, delete, grow, clear | everything |
| ownership analysis | ir.c | owners per scope, deadset, drop lists, liveness variables, blocks and PHIs | move, drop, enter and leave scopes, if/else, return | drop lists of the syntax tree, read by the C generator |
| C generator | cgen.c, mangle.c | output buffer | generate | ownership analysis, clang |
| sysroot builder | main_build_sysroot.c, fs_lock.c | a cache directory shared by processes: lock files, marks, libraries | build_sysroot, build_component, finalize_build_component | cbuild, other compis processes |
| C builds and subprocesses | cbuild.c, subproc.c, promise.c, bgtask.c | pools of compiler processes, object files | start, await, cancel, archive, link | sysroot builder, packages |
| diagnostics, paths, targets, command line | diag.c, path.c, target.c, ... | tables and streams, some under a lock | | everything |

What is hard to test in it:

* **Interleaving.** Locks, futures and channels are built from atomic accesses; channels have
  lock-free fast paths and signal after they unlock; the pool grows while jobs are submitted; several
  importers reach one package at once.
* **Everyone waiting.** Jobs of the pool wait for packages that are loaded, and for files that are parsed,
  by jobs of the same pool.
* **Failure half way.** One of several packages has an error while the others load; a thread cannot be
  created; a library build fails while other processes wait for it; one of several compilers fails while
  the others still write their object files.
* **Crashes and edits.** A build dies between the metafile and the library; sources change before,
  during and after a build; files are removed, and nothing becomes newer.
* **Paths.** A value may be given away in one branch and kept in the other, branches may return, and both
  the analysis and the generated C must drop it once on every path. An optional value may be tested, assigned
  and left behind on different paths, and is read without a test where the checker takes it to be there.
* **Long sequences of calls.** Deletions leave marks in hash tables, tables grow and move while a thread holds
  the address of an entry, an array of definitions is sorted again after every visit that extends it.
* **Limits.** A buffer that wraps, a counter that is decremented before it is incremented, more
  readers than the watermark; a hash that begins at the last entry and wraps.

What makes each part correct is listed with its module in section 2. The hazards, each at its line, are
in `PROJECT.json`.

## 2. The modules

Every component module has its state as variables, one action per operation or atomic step, and a
paragraph of bugs: plausible mistakes; these are used by the mutants of `PROJECT.json`, where
each property of a passing run is shown to fail when the code is changed in a way it is meant to catch.

**`Future`, `FutureSpec`** (future.c). One atomic access of `status` or one semaphore call is one action.
`pc[t]` is where a thread is in a call, `sem` the semaphore count. `FutureSpec` is the contract in three
values: not begun, in process, done with a result; one thread is elected, the result is published once,
waiters are told that result. `Future` implements it under the mapping at the end of the module
(`ImplementsContract`). `future_wait` passes its token on, so two tokens are enough for any number of
waiters, who all return (in `EverythingEnds`).

**`Chan`** (chan.c). Each critical section under `c->lock` is one action; fast paths, the semaphore wait of
a parked thread and the signal that follows the unlock are separate. Wait queues are the linked lists of
the code, including `last`, which `wq_dequeue` leaves alone, and the links that `chan_close` follows.
`RingOK`: indices and length agree with the buffer. `FirstInFirstOut`: each receiver sees each
producer's messages in order. `NoMissedMeeting`: nobody is parked for what is there. `ReceivedExactlyOnce`,
`SendTrueMeansSent`, `RecvFalseMeansClosed`: return values say what happened. `WokenThreadsReturn`.
A sender parked when the channel is closed returns true although its message is discarded;
`SendTrueMeansSent` and `ReceivedExactlyOnce` allow for that case, and the hazard at chan.c:676 names it.
`waiting[t]` is history: the queue that a thread was put in and not yet taken out of.
A thread may send, receive, or do both: a worker of the pool receives its jobs from `g_workch` and sends on it, through `threadpool_submit`,
inside the jobs that load and build packages, with one thread-local `Thr`. The message it sends and the one
it receives into are different objects of the code (`_threadpool_submit`, `worker_thread`), hence `elem[t]` and `into[t]`.
The four properties about messages belong to `StaySpec`, in which a thread that has met a closed channel keeps to it
(`StaysWithClosed`). Under `Spec` they are false in general: `chan_close` sets `Thr.closed` of the threads it wakes (chan.c:676)
and no call ever resets it, and the links of threads that a closed queue held stay as they are. A thread
that goes on to another channel brings both along, so a later `chan_recv` there returns false although a message was handed to it
and the channel is open. In compis each thread uses the one channel of the pool, so it cannot meet this.

**`RWMutex`, `SpinMutex`** (thread.c, thread.h). One atomic access per action, over an external OS mutex
and semaphore. `RWSound`: a writer is alone (`Exclusion`), `r` counts exactly the threads that have added to it
(`CountMatches`), and no `safecheckf` or `assertf` of thread.c fails (`ChecksHold`). `SpinSound`: one thread at a time is
inside (`MutualExclusion`), and a thread that sleeps on a free spinmutex has a wake-up under way (`SleeperNotForgotten`).
Every call returns, which is part of `EverythingEnds`.

**`ThreadPool`** (threadpool.c). Workers, and submitters that send a job, count it and spawn. The channel is
taken as the bounded queue that `Chan` shows it to be. The unsigned counter wraps (`Word`), as
a job may be finished before it is counted. `SlotsMatchThreads`: no slot is spawned into twice, and the length
of the table is the number of threads; `InflightExact`; submitted jobs run (in `EverythingEnds`).

**`Bump`** (memalloc_bump2.c). The allocator that the parse jobs of a package share. Load and store of `a->ptr` are
steps of their own, as are the compare-and-swap of a free and the two stores of a new slab; `tailmu` is the
lock of `RWMutex`, taken as its readers and its writer. `NoOverlap` is what "thread safe" promises; it fails, see below.
`BlocksSound`: two threads between load and store of `a->ptr` are the only way to it, whatever others free and grow,
and each block lies inside one slab, also in a race, which is what the allocator's own test looks at. The
operating system may map a slab anywhere (`Bases`), next to others too: the address asked for is a hint.
`a->end` is `End`, of the tail, as its declaration says.

**`PkgLoad`** (pkgbuild.c). One build. `stack[t]` holds one frame for each package that a thread is loading or
building, since an importer loads its last import itself; `fut[p]` is the package's future, as in
`FutureSpec`; `queue` the pool's channel; `parent` and `alive` the chain of stack-allocated `pkgcell_t`
that the import cycle check walks. `ImportsReady`: a package is type checked only after its
imports are loaded, what is loaded stands on what is loaded, and no cell is read after the function that owns it has
returned (`ParentsAlive`), except where an importer of three packages can leave early while the pool loads two of them.
An importer leaves the loop over the imports of its metafile when one of them has failed, or is newer than the importer and has another API (`MetaWait`);
that one need not have been rebuilt in this run, since a build of another program may have done it before.
`LoadedOnce`. `SuccessMeansLoaded`: exit code 0 means that everything needed was built, without an error, and that
it has no import cycle. Builds end (in `EveryBuildEnds`; `BuildEnds` where the pool is too small for it).

**`Incremental`** (pkgbuild.c, astencode.c). Several builds, one after another, with edits and a crash at
any point. The clock ticks at every write. A source file is known by its mtime and by the edit that last changed its
public declarations; an API hash is a function of those, so it can come back to an earlier value when a file
is removed again. `SourcesCurrent`: after a build that succeeded, the libraries are those of the present sources.
`ApisCurrentAfterTwo`: after two builds every library is compiled against the present API of what it imports.
`NothingRebuilt`: then a further build compiles nothing but the program. They set aside, by history variables, a package whose source was edited
between its parse and its metafile (`raced`), and one for which a crash has left a new metafile beside a library that is
not older than its sources (`torn`), until it is next built without that. `streak` counts the whole builds of one program since the last
edit or crash, and those since such a package was last built: that build may still change an API that others
were compared against.

**`Ownership`** (ir.c, cgen.c). The program under analysis is arbitrary: an action is the next statement, or
the opening or closing of a block, an if or an else. Beside what ir.c keeps (scopes of owners, drop
lists, deadset, liveness variables with their PHIs) the model follows every run of the program: which objects
are alive, once as the MOVE and DROP of the IR have it, once as the generated C has it. The function's result is of type void, an
owner or another value, because the generated C differs: for a `return` of type void `gen_block` (cgen.c:1403) prints the value and the drops but no
`return`, so after an early one the C goes on behind the if, where the function has ended. These runs are kept apart from the others (`cfell`).
`OwnersExact`: the deadset says, at each point and for every run that reaches it, which owners have given
their value away. `DropsOnce`: on every path each object is given away or dropped once, in the IR and also
in the generated C as long as no if moves a value in one branch only and on the runs that have not gone on behind a void `return`.
`CDropsOnce`, without these two exceptions, fails. `LivenessDefinite`: a liveness
variable that is read as a constant is one. The comments "BUG: z is not dropped in this branch" and "BUG: y is not dropped in this branch" at
examples/ownership.co:7 and 9 say otherwise of `bug1`, which the model covers (two owning parameters, a `return` of one inside an if, and one of the
other at the end). They do not describe the code as it is: `ret` drops the owners of all scopes but the one
returned (`owners_unwind_all`), so `z` in the branch, and those drops are in the drop list of that branch, which `gen_block` prints before the `return`;
as a branch that returns takes its changes of the deadset back (ir.c:1856), `y` is still an owner at the end of the function and is
dropped there. `bug2`, with its "TODO: b is not dropped in this branch" (line 16), is refused by the analysis, see section 5.

**`Sysroot`** (main_build_sysroot.c, fs_lock.c). Processes, each of which may fail at any call and be
killed at any moment. A lock belongs to the file that was opened: `lockfile[c]` is the file that has the name
`c.lock`, `fd[p]` the one `p` has opened, which after a rename is another. `OneBuilder`; `MarkedMeansBuilt`:
a component marked `.ok` is complete; `MarkedIsFinal`: what is marked is not written again;
`PassedMeansBuiltIfNotMisled`; everyone returns (in `EveryBuildEnds`).

**`Subprocs`** (subproc.c, promise.c, and their callers in cbuild.c and pkgbuild.c). Builders that start compilers
in the places of a `subprocs_t`, waiting when all are taken, and compilers that end in any order, with or without an
error, and take the object file through half-written to whole. `cbuild_build` uses one pool for a library, makes an
archive and removes the objects; `build_pkg` has one pool per source, awaits all and links. After a failure the other
compilers are sent SIGINT and are not waited for. `ResultExact`: success and failure are told as they are, whatever
the order of ends. `OutputGood`: what is archived or linked is whole, unless a compiler left by a failed builder is
at work in the same directory (`strayed`, the hazard at subproc.c:349). `LeftAreInterrupted`: only what was told
to stop outlives its builder. Builders come to an end (in `EveryBuildEnds`).

**`HashTable`, `StrSet`** (hashtable.c; `Pow2` has the CEIL_POW2 of colib.h). The table as functions on its state: two status bits per entry, probing that
wraps, growth that drops deleted entries but not their count. `StrSet` is one in use. `TableIsSet`: every
answer is that of the set, after any assignments, failed copies, deletions, growth and clearing.

**`Interning`** (sym.c, typeid.c, typefun.c) puts that table under the lock of `RWMutex`, taken as readers and a
writer. Threads look up and add keys in the three ways the callers have; an entry is read after the unlock, at an
address that names a generation of the table. `OneValuePerKey`: equal keys get one value and different keys
different ones, as long as no entry was read from a table that was replaced meanwhile (`idangled`, the hazard at sym.c).

**`Map`** (map.c). Probing, deletion marks, growth that relocates, maps with a parent, keys that are
pointers or byte strings. `MapIsFunction`: lookups, iteration and `len` are those of the function the caller has made,
as long as a map of pointers has not grown; `NodesInMap`, without that exception, fails.

**`Scope`** (scope.c): the array with its bases and marks, beside the stack of frames it stands for. `scope_lookup`
walks from scope to scope, in each of which the last definition counts.
`LookupFindsInnermost`: it finds what the frames in view define, among as many of them as it may visit. **`Narrowing`** (typecheck.c) uses a scope for what is known of optional variables. Like
`Ownership` it follows an arbitrary body, statement by statement, and carries along the set of valuations with which
the generated code can come to that point. `NoEmptyDeref`: what is dereferenced without a test has a value, on every
path. Two exceptions are hazards, at typecheck.c:2457 (a negated test inside `&&`, which the conditions leave out) and
typecheck.c:1068 (an assignment in a block to a variable narrowed outside of it, set aside by `noutdated`).

**`TypeDeps`, `QSort`** (ast.c, check_typedeps.c, qsort.c). `ast_toposort_visit_def` with its marks, forward
declarations and the smoothsort after every visit, and `check_type` on what it collects. `CyclesFound`, against
reachability in the graph of types; `DefsExact`: every definition that is needed, once, grouped by kind, and in order
as long as no sort had to move anything; `DefsInOrder`, without that exception, fails.

The modules fit together by taking each lower part as what it was shown to be: `Chan` takes its critical
sections as atomic (`SpinMutex`), `ThreadPool` the channel as a queue (`Chan`), `Bump` and `Interning` their lock as one that
excludes (`RWMutex`), `PkgLoad` the future as `FutureSpec` and the pool as a queue of jobs with all its workers started,
`Incremental` takes packages in the order that `PkgLoad` establishes, `Subprocs` takes builders of one library to
take turns (`Sysroot`), `Interning` and `StrSet` use the table of `HashTable`, `Narrowing` the scopes of `Scope`, `TypeDeps` the
sort of `QSort`. `MCTasks`, `MCCompile` and `MCBuild` put parts that share nothing beside each other: a
behaviour picks one of them (`use`) and the state of the others rests. `MCChan`, `MCIncremental`, `MCBump`, `MCPkgLoad` and
`MCSysroot` give one module its instance.

## 3. The runs

`tlc -config X.cfg M`. States are distinct states.

| Run | Instance | States | Result |
|---|---|---|---|
| `tasks` | a future with 4 threads and 2 error codes; a pool with 2 submitters, 2 jobs each, 1 to 3 workers, counter modulo 8; an allocator with 2 threads, 2 calls each, and slabs on both sides of the first; an rwmutex with watermark 4 or a spinmutex, 3 threads, 2 rounds each | 136 thousand | all nine hold |
| `chan` | a worker that sends 2 messages and receives, a receiver, and a poller that sends 1 and receives, by trysend and tryrecv; a buffer of 2 closed at the end, or a rendezvous closed at any moment, also twice | 350 thousand | all seven hold |
| `incremental` | 3 packages, 2 files, 2 edits, 4 builds, 1 crash | 2.5 million | all three hold |
| `compile` | bodies of 6 statements, 2 owning parameters, 3 values, each kind of result, 3 levels (2 if it is neither void nor an owner); a set of 3 strings, with any of 8 ways to collide; 3 threads that intern 3 keys in 3 calls; a map of 4 keys, 2 of which point to equal bytes, that grows once; 2 names in 3 scopes; bodies of 3 statements over 2 optional variables and 114 conditions; all ways in which 3 types contain, own, refer to or rename each other, with a variable and 2 functions in 4 orders | 564 thousand | all ten hold |
| `build` | 3 processes, 3 components, failures and kills; 4 packages as diamond, ladder, fan and cycle, with 2 workers or none, any of which may have errors; a library of 3 sources and 2 builders, or a package of 2 sources, with 1 or 2 compilers at a time | 508 thousand | all eleven hold |
| `bump` | 2 threads, 3 calls each | few hundred | `NoOverlap` fails |
| `pkgload_starved` | 3 imports out of date, 2 workers | 1 thousand | `BuildEnds` fails |
| `incremental_stale` | as `incremental`, 1 edit | 3 thousand | `ApisCurrentAfterOne` fails |
| `ownership_lost` | 4 statements, 1 parameter, a result that is no owner | 1 thousand | `CDropsOnce` fails |
| `sysroot_misled` | 3 processes, 3 components | 1 thousand | `PassedMeansBuilt` fails |
| `map_grown` | a map of 4 keys | few | `NodesInMap` fails |
| `toposort` | 3 types in a row and a function | few | `DefsInOrder` fails |

**What the failing runs show.** Each checks what a comment or the documentation says; the
details are under `findings`.

* `bump`: two threads load the allocator's pointer, both under the read lock, before one of them stores it, and get the
  same memory.
* `pkgload_starved`: build jobs occupy every thread of the pool and each waits for a parse job that no thread
  is left to run. `pkgbuild.c:421` means to parse the last unit on the current thread, but compares an index that was
  incremented already.
* `incremental_stale`: `pkg->mtime` of a package that was just built is the age of its *old* library, so an
  importer between it and the program takes the "up to date" exit before it compares API hashes.
* `ownership_lost`: the drop of a value that only one branch gives away goes to the drop list of the
  block around the if, where the generated C performs it on both paths. The run is about functions with a result: in others
  `CDropsOnce` fails for the missing `return` as well, which is the hazard at cgen.c:1403.
* `sysroot_misled`: a process that waited for another to build a component does not look whether it did.
* `map_grown`: `map_relocate` places the entries of a map of pointers by the bytes behind the pointers, where
  `map_lookup_ptr` does not look for them.
* `toposort`: definitions are grouped by kind with a sort that is not stable, which undoes the order
  `ast_toposort_visit_def` has just established, and a structure comes before one it contains.

**Bounds, and why they are enough.** Each is the least at which the hazards of that component happen: a fourth
thread so that more threads wait than `future_finalize` posts tokens; a buffer of two and three messages so that
indices wrap with a sender parked; on both channels a thread that sends and receives, so that what a call leaves behind in its `Thr` meets
a call of the other kind, and one that polls, so that fast paths meet parked threads; three threads so that two readers meet a writer, with the smallest watermark
the assumption allows; a pool that grows twice, and a word in which one decrement too early wraps;
slabs that two allocations fill, and a call to free beside each call to allocate;
packages with a common import, an importer on each side of the pool's limit and a cycle that does not contain
the root; two edits so that one can be public and one private, and three packages in a row, which is what
the stale API needs; six statements, which allow an if inside an if with a move and a return in each;
three processes so that one builds, one waits and one comes when the lock file was renamed; tables of the
smallest capacity, so that three keys make them grow, collide and wrap; three threads, so that one makes the table move
between another's unlock and read while a third looks; three statements, which allow an assignment in a branch and a use after it;
three types, so that a cycle has two members beside a bystander or a way into it; more sources than places for
compilers, and a second builder that comes while compilers of the first are left. What
holds for other sizes is a matter of the proofs below where there are some, and otherwise not shown.

**Deadlock** is not checked by TLC's switch: every instance comes to an end by its bounds. That nobody
hangs is what the liveness properties say.

**Fairness.** Weak fairness for each thread or process, because the operating system runs every thread that can run:
in `tasks`, `chan` and `build` for the steps of a call that has begun (never for beginning one). Some remarks.
`RWMutex` has strong fairness for taking the OS mutex: pthread mutexes do not starve a waiter for
ever, and `rwmutex_rlock` may keep taking it in a loop. In `Sysroot`, no call is *made* to fail (`Go` is
fair, `IOError` and `Kill` are not), and the compilers it waits for come to an end.
In `Subprocs` every compiler ends, with or without an error; as each takes only a few steps, one weak
fairness condition for all of them together is enough. In `MCBuild` fairness is stated for the i'th actor of whichever part is in
use (`Steps(i)`), and what must end is stated for one process and one builder, since all are alike.
Jobs of the thread pool return (`ThreadPool`); in `PkgLoad`, where they may not, this is not assumed.

**Atomic accesses** are sequentially consistent in all modules. Where the code asks for less,
as at thread.c:243, the hazard at thread.c:245 names it.

## 4. The proofs

`tlapm M.tla`. They hold for every value of the constants that satisfies the ASSUMEs of the module. Most of these say that sets are
finite, that bounds and sizes are numbers, that a name such as `NULL` is not that of a thread, or which type a constant has. In `Chan` threads send, receive, or
do both as they like. Some ask for more, which the code provides:

* `RWAssumptions`: there are fewer threads than the watermark, as thread.h says.
* `PoolAssumptions`: the counter's word holds more than the number of threads.
* `ErrsAssumption`: error codes are negative.
* `SubprocsAssumptions`: object files of different sources of one library or package have different names, a
  library has one pool of compilers, and no pool is without a source. `cbuild_objfile` and `pkgbuild.c:140` derive the names from those of the sources.
* `BuiltinsFit`: the builtin symbols fit into the map made for them without growing. 15 of them do, in 32 entries; 50 in 64 would not.
* `InternAssumptions`: `sym_init` defines no symbol twice, as `def_static_symn` asserts.
* `PartsInOrder`: `build_sysroot` builds each component once, and libc before those it makes empty archives for.

**`ChanProofs`**, the ring and the meetings: `TypeCorrect`, `RingConsistent`, `MeetingsHappen`. `RingOK` is not inductive by itself: `_chan_recv_direct`
sets `sendx` to the new `recvx`, which is right only if the buffer is full. `SenderBehindFull` says that it is
when a sender is parked.

**`ChanProofs`**, messages: `StayInvariance`, `OrderKept`, `DeliveredOnce`, `SendSound`, `RecvSound`, of `StaySpec`. The invariant (`AllInv`) has
four parts. *Structure* (`StructInv`): each wait queue is a list without repetition whose members are exactly the threads that
wait in it (`waiting`), its links lead from each to the next, and a thread has a token, or somebody about to post one, if and only if it was taken out.
The difficulty is what the code leaves behind: `last` of an empty queue and `next` of a thread that has left. *Flow* (`MsgInv`): a
message that was sent is in one place: in the sender's hand, in a slot of the ring between `recvx` and `sendx`, in a receiver's hand,
received, or discarded by a close. *Line* (`OrderInv`): the messages of one producer lie along received, held by the receiver, in the ring and parked in
increasing order. *Hands* (`HandsInv`): what a woken thread finds in its element and its flags is what the one that woke it has done. Each
critical section moves a message from one place to the next; that places exclude each other, and so that nothing is received twice, is a
matter of indices modulo the capacity for the ring, and of structure for the queues.

**`TaskProofs`**, futures: `FutureTypeCorrect`, `OneAcquirer`, `ResultDelivered`, `ResultFinal`, `FutureRefines`. A waiter's answer comes
from the status word it reads again after the semaphore, so the invariant has to say that a token exists, or is
held by a waiter, only when the status is final (`TokenMeansDone`), and that status, the thread that acquired and the
published result agree (`StatusAgrees`, `OwnerIsAcquirer`).

**`TaskProofs`**, the two locks and the pool: `RWInvariance`, `RWTypeCorrect`, `RWLockSound`, `SpinInvariance`, `SpinTypeCorrect`,
`SpinLockSound`. For the rwmutex a count: `r` is the number of threads that have added to it, plus the watermark if and only if a writer
has claimed the lock; with fewer threads than the watermark `r` tells one from the other (`CountInv`, with cardinalities of finite sets),
and the OS mutex is free exactly if no thread is between its lock and unlock (`MutexInv`). For the spinmutex the number of waiters
counted, of sleepers and of tokens posted or owed (`WakeInv`). `PoolInvariance`, `PoolTypeCorrect`, `SlotsSound`, `InflightSound`: the
thread table grows only under `g_spawnmu`, but its length is published after the threads are started, so `SlotInv` says where the
holder is in its loop. `InflightExact` is about a counter modulo `Word`, which is decremented before it is incremented when a job is
fast: the invariant adds up, over finite sets, submitters between send and count, workers between receive and end, and the queue.

**`TaskProofs`**, the allocator: `BumpTypes`, `BumpBlocksSound`, for any threads and sizes, and for any addresses at which slabs are mapped.
That the pointer, and what a reader loaded from it, stays in the tail (`PtrInTail`) holds in a race too, because a new tail
is made only while nobody reads; it takes that the slabs are disjoint and their headers not empty, so that a block of an
older slab never seems to end at the pointer, and its free does not move it. Blocks are apart as long as the pointer
lies behind all blocks of the tail (`Below`), also as it was loaded (`Unraced`); one store by a second thread would undo that.

**`BuildProofs`**: `LoadTypes`, `AlwaysParentsAlive`, `AlwaysImportsReady`, `AlwaysLoadedOnce`, `AlwaysSuccessMeansLoaded`, for any packages
and imports, cyclic ones included, any number of workers and any capacity of the work channel. What holds a package between
`future_acquire` and `future_finalize` is a frame of some thread, a frame about to submit it, or a job in the queue; `HoldersOK` says
that it is exactly one of these. `FramesOK` says what a frame may rely on where it is (`Knows`): which imports it has waited for, and that
the frame below it waits for it. With these `OkClosed` is inductive: the loaded packages are closed under imports and have no cycle,
because a package becomes loaded after all its imports were. `DemandOK`: only what Root needs is touched, so that after Root's
imports nothing is left in process. On this base (`Base`) rest four independent parts. `BuiltOK` counts code generation.
`ParseOK` keeps the jobs of one package apart: a file that waits in the queue or is being parsed is in `unparsed` of its package. `SuccessOK`: an
error, once counted, is on the way to the exit code. `CellsOK` and `ParentOK`: a load in process has the cell of an importer that is still in its
wait loop, which is alive. The last one fails if an importer has three imports: it may leave the loop at the error of the first
or the changed API of the first while the second is still loading. So `ParentsAlive` makes an exception for that, and the theorem
shows that it is the only one.

**`SubprocProofs`**: `SubTypes`, `AlwaysResultExact`, `AlwaysOutputGood`, `AlwaysLeftAreInterrupted`, for any builders, libraries, packages and
number of places. The properties speak of the end; the invariant of one builder (`Own`) follows its compilers. `PlacesOK`: a place
holds a compiler that was not awaited, of a promise that was not, and no compiler has two. `JobsOK`: a compiler that was started
and not awaited has a place, or was told to stop, and then there is an error. `PhaseOK` and `BegunOK`: which promises are pending and which
compilers were started, at each step. `InUse` is about an error that must *not* be reported: `promise_await` of
a `subprocs_t` without a process returns `ErrEnd`, so a promise that is still pending must have somebody in its places, whatever was reaped early to free
one. Between builders there is only `WholeOK`: while no compiler of another one is left, what the own compilers have written
stays whole. The proof needs that object files of different sources have different names (`SubprocsAssumptions`), which
`cbuild_objfile` and `pkgbuild.c:140` derive from the names of the sources (`a/b.c` and `a b.c` of one library would meet; there are no
such sources).

**`IncrementalProofs`**: `IncrementalInvariance`, `IncrementalTypes`, `LibrariesCurrent`, `ApisCurrent`, `NothingBuiltForNothing`, for
any number of packages, imports, files, edits, builds and crashes. The properties speak of the end of a build, the
invariant of what files are worth at every moment. `Products`: metafile and library of a package describe each other, or the library is
visibly old. `DepsNoticed`: a metafile has the present API of an import, or is visibly older than that import. `Undisturbed` and
`AllUpToDate` carry the first through a build without edits, `Settling` and `Settled` the second through the build after it, which is the
one that compares with API hashes that do not change any more. The attempt to prove them has corrected two definitions of the model that
hold for three packages and not for four: what a raced or torn package needs to be right again, and when counting starts anew.

**`SysrootProofs`**: `TypeCorrect`, `BuildersExclude`, `MarksAreTrue`, `PassingIsSafe`, `MarksAreFinal`, all but the first for processes
not run with `--force`. That a lock excludes those who opened the same file does not make it exclude
builders, because the name changes hands. `FileInv` does: as long as a component is not marked, its lock file keeps
its name, so whoever has opened one has the same one; whoever has an old one finds the mark when it looks again
(`UnmarkedInv`). The second group rests on the order: nobody gets past a component that is not marked
(`PassedMarked`), so components are marked in order (`MarkedInOrder`), so nobody builds libc, and empties the
libraries it has dummies for, once one of them is marked or in the making (`LibcFirst`).

**`OwnershipProofs`**: `OwnershipTypes`, `OwnersAreExact`, `DropsAreOnce`, `LivenessIsDefinite`, for functions with any number of owning
parameters and values, of any length and nesting. The properties speak of the point where code is added; the invariant
(`Inv`) also of the points that `ifexpr` and `blockexpr` have saved, because the code goes on from there. `ScopesOK` and `FramesOK`: scopes
have different variables, deadsets grow from the beginning of a branch to its end, and a variable of a scope that
is still open was not dead when it began; so the xor of two deadsets (`BranchDrops`) is a difference, and one the right
owners are in. `AliveOK`: in every run the objects alive at a point, this one or a saved one, are those of the owners not dead there, and no
two of these have one object. `CAliveOK` says the same of the generated code, up to the objects in `lost`, which `owners_drop_lost`
moved to the drop list of a scope further out; and that a list has nothing else in it until the block returns. It is about `cruns`, the runs of the generated
C that are runs of the function: what `DropsAreOnce` shows of the generated C does not extend to those that go on behind a void `return` (`cfell`), of which nothing is claimed. `LiveOK`: since
`create_liveness_var` writes to the block that defines a value, a liveness variable is in a branch what it was at its
beginning, or "dead" for what the branch has given away (`Follows`); so where two branches meet a PHI would need an owner that one
has given away and the other not, and that is the one `owners_drop_lost` writes "dead".

**`TableProofs`**: `StrSetIsSet`, `ValuesIdentifyKeys`, `MapIsWhatWasPut`, `LookupsFindInnermost`; the first three for any keys, any hash functions, so any collisions, any size and, for the second, any threads.
The invariant of a table (`Table`): from the index a key hashes to up to the entry that holds it nothing is free (`Chained`), no two
entries in use have one key (`KeysDiffer`), and `len` counts at least the entries that are not free (`Counted`), so that the load factor
leaves a free one and every probe ends. An assignment that does not find its key stops at the first free index, which lengthens no chain and interrupts none;
a deleted entry is not free. `len` may be more than that, since growth drops deleted entries and keeps it. Probing is stated by
the least distance at which it stops, so that cyclic order is a matter of numbers below the capacity; growth and the predefined symbols are
loops over an interval, and what a loop preserves is shown with the least number for which it would not (`Least`, `Induction`), since
induction over a predicate is out of this prover's reach. Interning rests on the same table. `AddressOK` says that an address of the present generation is an entry with
the thread's key, `Pairs` that what was returned is what the table holds; that a thread looks again under the write lock is what makes two additions
of one key impossible. The proof needs that `sym_init` defines no symbol twice, which `def_static_symn` asserts.
A `map_t` is another implementation of the same table, and is proved as one: `AsTable` forgets the addresses of keys and keeps what they
are compared by (`Name`), an empty entry being free there and a DELMARK deleted, so that the lemmas about probing, storing and deleting
carry over (`Holding`, `MapRight`). What differs is `len`, which here is exact and goes down with a deletion while the mark stays. The invariant
therefore bounds the entries that are not empty, and an assignment keeps that bound only because, with marks present, it overwrites (`Reuses`). That
growth finds entries again is shown for byte strings; for pointers nothing is claimed from then on but the shape of the map (`Shaped`),
until `map_clear` makes it right again. The parent holds the builtins. `BuiltinsFit` says that they fit without growing, which 15 of them in 32
entries do; 50 in 64 would not, and the parent would lose entries as in `map_grown`.
Scopes are proved for any names and values, any depth and any length of the array. `ScopeInv` says that the array holds the frames one above the other
(`Laid`): there are places at which they begin, with the index of the scope around each and, for a stash, the mark above it, and from there to the next
the definitions in order. That is kept by every operation because each touches only the top: what lies below is laid as before (`FrameSame`, `Grows`, `Shrinks`).
A lookup walks over places, the specification over frames. `WalkAt` relates the two, walk step by walk step: after `d` steps the walk is in the innermost
frame in view that defines the name, if it is among the first `d`, else in the frame with `d` frames in view above it, or has come off the
outermost one. `Unlimited` is enough because each scope begins below the one in it.

Only model-checked: liveness everywhere, and with it what needs ENABLED; and three invariants of `compile`. `CyclesFound` and `DefsExact` (`TypeDeps`, with
the sort of `QSort`) and `NoEmptyDeref` (`Narrowing`) are about what a visit of a graph of types, or of the tree of a condition, computes by recursion over it,
and this prover has no induction over data.

## 5. What is not modelled

* `Future`: calls on a disposed future. `Chan`: `chan_free` of a channel in use; one thread that uses several
  channels, of which one has been closed (`Thr.closed` outlives the close).
* Locks: `rwmutex_trylock`, which nothing calls; weaker memory orders than sequential consistency.
* `Bump`: `memalloc_bump2_reset` and the statistics, which only tests call; zeroing; a resize to a smaller size.
* `PkgLoad`: a cycle closed by an edit through packages that are up to date, which the cycle check does not see (hazard
  at pkgbuild.c:652); what happens after a cell has been read whose owner is gone (hazard at pkgbuild.c:1001; `ParentsAlive`
  says when that is).
* `Incremental`: imports that change from build to build; APIs that depend on imported APIs; two compis processes that
  build one package at a time.
* `Ownership`: assignment to an owner; blocks and ifs that yield an owner; `if let`; fields that own; call results that are not
  used; statements after an if of which both branches return. The analysis also refuses programs that are
  right (`create_liveness_var`, ir.c:753, writes "dead" to the block that defines the owner, so a value moved in a branch is
  taken for moved before it), among them functions of examples/ownership.co that the file lists as working; the
  properties are about those it accepts. What the generated C does behind an early `return` of type void is followed (`cfell`), but nothing but its
  first misuse of a dropped owner is recorded (`ghost.fell`). Bitsets are sets: that `bitset_grow` (bits.c:32) resizes one that lies on the
  stack cannot be seen here.
* `Sysroot`: processes with `--force`, for which `OneBuilder` does not hold; compilers that survive the process that
  started them; what is compiled, and how.
* `Subprocs`: process groups and the pipe that announces them, the descriptors of `subproc_spawn` and their error paths; signals
  other than the SIGINT of `subprocs_cancel`; object files that are up to date.
* `HashTable`, `Map`: a `hashtable_del` of another key than the only one that was added, and assignments to a map with deletion
  marks. The code handles neither, and no caller does them (hazards at hashtable.c and map.c). Hash functions are arbitrary. `alloc_entries`
  takes a larger capacity if the allocator gives that much more than it was asked for.
* `Narrowing`: negated tests inside `&&` and assignments in a block to a variable that is narrowed outside (hazards; with them
  `NoEmptyDeref` fails). `NoEmptyDeref` is about what is taken to have a value. What is taken to be empty need not be: inside
  `if !(x && y)` both variables are, and the model shows it. `if let`, loops and fields of optional type are left out.
* `TypeDeps`: templates, imported types, drop functions, the visibility filter of headers.
* `Scope`: `scope_undefine`, which nothing calls, and `scope_iterate`.
* Scanner, parser, compile-time evaluation, conversions and inference of the type checker, the text of the C generator, the format of
  metafiles: sequential functions of their input without state that outlives a call. Their properties are equality with a grammar or
  a type system that the repository does not state apart from the code; tests of input and output fit them better.
* Diagnostics, paths, targets, command line, LLVM: see `components` for each, with the reason.

## 6. Plan

Every safety invariant and action property of the passing runs but the three named at the end of section 4 is a theorem.
Modelling that would add something: assignments and owning fields in `Ownership`, the metafile encoding as a round trip, integer
literals and compile-time arithmetic with their widths.
