------------------------------ MODULE Subprocs ------------------------------
(***************************************************************************)
(* Compilers run as subprocesses (src/src/subproc.c, promise.c).  A        *)
(* subprocs_t has comaxproc places for processes and is attached to a      *)
(* promise.  It is used in two ways: cbuild_build (cbuild.c) compiles all  *)
(* sources of a library with one of them, makes an archive and removes the *)
(* directory of object files; build_pkg (pkgbuild.c) has one for each      *)
(* source file, awaits all and links.                                      *)
(*                                                                         *)
(* Builders are compis processes.  Those that build the same library take  *)
(* turns (OneBuilder of Sysroot), in one directory of object files.        *)
(***************************************************************************)
EXTENDS Integers, Sequences, FiniteSets, FiniteSetsExt

CONSTANTS Builders,
          Libraries,    \* what cbuild_build may be asked for: <<a sequence of jobs>>
          Packages,     \* what build_pkg may compile: a sequence of jobs for each source
          Maxprocs      \* values of comaxproc

VARIABLES task,         \* what is built: kind, comaxproc, and the jobs of each subprocs_t
          spc,          \* spc[b]: where b is
          spool,        \* spool[b]: the subprocs_t that b is starting compilers in, or awaits
          sjob,         \* sjob[b]: the next job of it; later, how many were awaited
          serr,         \* serr[b]: is err set?
          procs,        \* procs[b][i]: the places of the i'th subprocs_t
          pending,      \* pending[b]: those whose promise has await set
          compiler,     \* compiler[b][j]: the process that does job j
          interrupted,  \* interrupted[b]: jobs whose compilers got SIGINT
          objs,         \* objs[j]: the object file of job j
          output,       \* output[b]: what was archived or linked
          trouble,      \* trouble[b]: something did fail
          strayed       \* strayed[b]: while b was building, a compiler of another builder ran

subVars == <<task, spc, spool, sjob, serr, procs, pending, compiler, interrupted, objs,
             output, trouble, strayed>>

Free == ""              \* pid == 0
JobsOf(pools) == UNION {{pools[i][k] : k \in DOMAIN pools[i]} : i \in DOMAIN pools}

\* A job is known by its object file, named after the source that it compiles.
ASSUME SubprocsAssumptions ==
  /\ Maxprocs \subseteq Nat \ {0}
  /\ \A l \in Libraries : Len(l) = 1
  /\ \A p \in Libraries \cup Packages :
       /\ p \in Seq(Seq(STRING)) /\ p # <<>> /\ Free \notin JobsOf(p)
       /\ \A i \in DOMAIN p : p[i] # <<>>
       /\ \A i, m \in DOMAIN p : \A k \in DOMAIN p[i], n \in DOMAIN p[m] :
            p[i][k] = p[m][n] => i = m /\ k = n

Tasks == [kind : {"library"}, pools : Libraries, maxproc : Maxprocs]
           \cup [kind : {"package"}, pools : Packages, maxproc : Maxprocs]
Jobs == JobsOf(task.pools)

Pools == 1..Len(task.pools)
Slots == 1..task.maxproc
Alive == {"running", "writing"}

SubInit ==
  /\ task \in Tasks
  /\ spc = [b \in Builders |-> "idle"]
  /\ spool = [b \in Builders |-> 1]
  /\ sjob = [b \in Builders |-> 1]
  /\ serr = [b \in Builders |-> FALSE]
  /\ procs = [b \in Builders |-> [i \in Pools |-> [s \in Slots |-> Free]]]
  /\ pending = [b \in Builders |-> {}]
  /\ compiler = [b \in Builders |-> [j \in Jobs |-> "none"]]
  /\ interrupted = [b \in Builders |-> {}]
  /\ objs = [j \in Jobs |-> "absent"]
  /\ output = [b \in Builders |-> "none"]
  /\ trouble = [b \in Builders |-> FALSE]
  /\ strayed = [b \in Builders |-> FALSE]

Enter(b, l) == spc' = [spc EXCEPT ![b] = l]
Fail(b) == serr' = [serr EXCEPT ![b] = TRUE]
Places(b) == procs[b][spool[b]]
Taken(b) == {s \in Slots : Places(b)[s] # Free}

\* Running compilers of other builders.
Strangers(b) == \E c \in Builders \ {b}, j \in Jobs : compiler[c][j] \in Alive
Busy == {b \in Builders : spc[b] \notin {"idle", "returned"}}

-----------------------------------------------------------------------------
\* Builders that build one library exclude each other; the package is built once.
Begin(b) ==
  /\ spc[b] = "idle" /\ Busy = {}
  /\ task.kind = "package" => \A c \in Builders : spc[c] = "idle"
  /\ Enter(b, "create")
  /\ strayed' = [strayed EXCEPT ![b] = Strangers(b)]
  /\ UNCHANGED <<task, spool, sjob, serr, procs, pending, compiler, interrupted, objs,
                 output, trouble>>

\* subprocs_create_promise.  Before a source of a package, something else may
\* fail: the parser, the type checker, the code generator.
Create(b) ==
  /\ spc[b] = "create"
  /\ \/ /\ Enter(b, "spawn")
        /\ pending' = [pending EXCEPT ![b] = @ \cup {spool[b]}]
        /\ UNCHANGED <<serr, spool, sjob, trouble>>
     \/ /\ Enter(b, "await")
        /\ Fail(b) /\ trouble' = [trouble EXCEPT ![b] = TRUE]
        /\ spool' = [spool EXCEPT ![b] = 1] /\ sjob' = [sjob EXCEPT ![b] = 0]
        /\ UNCHANGED pending
  /\ UNCHANGED <<task, procs, compiler, interrupted, objs, output, strayed>>

\* subprocs_alloc finds a place, and subproc_fork, which may fail, fills it.
Spawn(b) ==
  LET jobs == task.pools[spool[b]]
      j == jobs[sjob[b]]
      p == Min(Slots \ Taken(b))
  IN  /\ spc[b] = "spawn" /\ sjob[b] <= Len(jobs) /\ Taken(b) # Slots
      /\ \/ /\ procs' = [procs EXCEPT ![b][spool[b]][p] = j]
            /\ compiler' = [compiler EXCEPT ![b][j] = "running"]
            /\ sjob' = [sjob EXCEPT ![b] = @ + 1]
            /\ UNCHANGED <<spc, serr, trouble>>
         \/ /\ Fail(b) /\ trouble' = [trouble EXCEPT ![b] = TRUE]
            /\ Enter(b, "cancel")
            /\ UNCHANGED <<procs, compiler, sjob>>
      /\ UNCHANGED <<task, spool, pending, interrupted, objs, output, strayed>>

\* Bugs: do not wait for the process; leave its pid in place; let the last
\* process decide.
ExitedNotAsked(b, j) == compiler[b][j] # "none"
ReapedStays(b, p) ==
  /\ procs' = procs
  /\ compiler' = [compiler EXCEPT ![b][Places(b)[p]] = "reaped"]
AwaitErrLast(b, failed) == failed

\* waitpid returns.
Exited(b, j) == compiler[b][j] \in {"exited", "failed"}

\* subproc_await: the process is gone and its place free.
Reaped(b, p) ==
  /\ procs' = [procs EXCEPT ![b][spool[b]][p] = Free]
  /\ compiler' = [compiler EXCEPT ![b][Places(b)[p]] = "reaped"]

\* _subprocs_await, subprocs_await, promise_await: the first error counts.
AwaitErr(b, failed) == serr[b] \/ failed

\* subprocs_alloc: all places are taken, so await the process in the first one;
\* its failure is the caller's.
AwaitOne(b) ==
  LET p == Min(Taken(b))
      j == Places(b)[p]
  IN  /\ spc[b] = "spawn" /\ sjob[b] <= Len(task.pools[spool[b]]) /\ Taken(b) = Slots
      /\ Exited(b, j)
      /\ Reaped(b, p)
      /\ IF compiler[b][j] = "failed"
         THEN Fail(b) /\ Enter(b, "cancel") /\ trouble' = [trouble EXCEPT ![b] = TRUE]
         ELSE UNCHANGED <<spc, serr, trouble>>
      /\ UNCHANGED <<task, spool, sjob, pending, interrupted, objs, output, strayed>>

\* All compilers of this subprocs_t are started.
Started(b) ==
  /\ spc[b] = "spawn" /\ sjob[b] > Len(task.pools[spool[b]])
  /\ IF spool[b] < Len(task.pools)
     THEN Enter(b, "create") /\ spool' = [spool EXCEPT ![b] = @ + 1] /\ sjob' = [sjob EXCEPT ![b] = 1]
     ELSE Enter(b, "await") /\ spool' = [spool EXCEPT ![b] = 1] /\ sjob' = [sjob EXCEPT ![b] = 0]
  /\ UNCHANGED <<task, serr, procs, pending, compiler, interrupted, objs, output, trouble, strayed>>

\* Bug: the process in the first place is not interrupted.
InProcessButFirst(b) == {Places(b)[p] : p \in Taken(b) \ {1}}

InProcess(b) == {Places(b)[p] : p \in Taken(b)}

\* subprocs_cancel: the others are interrupted, and forgotten.
Cancel(b) ==
  /\ spc[b] = "cancel"
  /\ interrupted' = [interrupted EXCEPT ![b] = @ \cup InProcess(b)]
  /\ procs' = [procs EXCEPT ![b][spool[b]] = [p \in Slots |-> Free]]
  /\ pending' = [pending EXCEPT ![b] = @ \ {spool[b]}]
  /\ spool' = [spool EXCEPT ![b] = 1] /\ sjob' = [sjob EXCEPT ![b] = 0]
  /\ Enter(b, "await")
  /\ UNCHANGED <<task, serr, compiler, objs, output, trouble, strayed>>

\* promise_await: the processes in the order of their places ...
Await(b) ==
  LET p == Min(Taken(b))
      j == Places(b)[p]
  IN  /\ spc[b] = "await" /\ spool[b] \in pending[b] /\ Taken(b) # {}
      /\ Exited(b, j)
      /\ Reaped(b, p)
      /\ serr' = [serr EXCEPT ![b] = AwaitErr(b, compiler[b][j] = "failed")]
      /\ trouble' = [trouble EXCEPT ![b] = @ \/ compiler[b][j] = "failed"]
      /\ sjob' = [sjob EXCEPT ![b] = @ + 1]
      /\ UNCHANGED <<task, spc, spool, pending, interrupted, objs, output, strayed>>

\* ... and then the next promise.  That there was nothing to wait for is the
\* error ErrEnd.
Awaited(b) ==
  /\ spc[b] = "await" /\ (spool[b] \notin pending[b] \/ Taken(b) = {})
  /\ pending' = [pending EXCEPT ![b] = @ \ {spool[b]}]
  /\ serr' = [serr EXCEPT ![b] = @ \/ (spool[b] \in pending[b] /\ sjob[b] = 0)]
  /\ sjob' = [sjob EXCEPT ![b] = 0]
  /\ IF spool[b] < Len(task.pools)
     THEN spool' = [spool EXCEPT ![b] = @ + 1] /\ UNCHANGED spc
     ELSE Enter(b, IF serr'[b] THEN "end" ELSE "output") /\ UNCHANGED spool
  /\ UNCHANGED <<task, procs, compiler, interrupted, objs, output, trouble, strayed>>

\* cbuild_create_archive and pkgbuild_link read the object files.
Output(b) ==
  /\ spc[b] = "output"
  /\ Enter(b, "end")
  /\ \/ /\ output' = [output EXCEPT ![b] = IF \A j \in Jobs : objs[j] = "whole" THEN "good" ELSE "bad"]
        /\ UNCHANGED <<serr, trouble>>
     \/ /\ Fail(b) /\ trouble' = [trouble EXCEPT ![b] = TRUE]
        /\ UNCHANGED output
  /\ UNCHANGED <<task, spool, sjob, procs, pending, compiler, interrupted, objs, strayed>>

\* cbuild_clean_objdir, and return.
Return(b) ==
  /\ spc[b] = "end"
  /\ Enter(b, "returned")
  /\ objs' = IF task.kind = "library" THEN [j \in Jobs |-> "absent"] ELSE objs
  /\ UNCHANGED <<task, spool, sjob, serr, procs, pending, compiler, interrupted, output, trouble, strayed>>

-----------------------------------------------------------------------------
\* The compiler, cc_to_obj_main or clang_fork in a process of its own (external):
\* it writes its object file and exits, or fails at any moment, interrupted or not.
Compile(b, j) ==
  /\ compiler[b][j] \in Alive
  /\ \/ /\ compiler[b][j] = "running"
        /\ compiler' = [compiler EXCEPT ![b][j] = "writing"]
        /\ objs' = [objs EXCEPT ![j] = "partial"]
     \/ /\ compiler[b][j] = "writing"
        /\ compiler' = [compiler EXCEPT ![b][j] = "exited"]
        /\ objs' = [objs EXCEPT ![j] = "whole"]
     \/ /\ compiler' = [compiler EXCEPT ![b][j] = "failed"]
        /\ objs' = [objs EXCEPT ![j] = "absent"]
  /\ UNCHANGED <<task, spc, spool, sjob, serr, procs, pending, interrupted, output, trouble, strayed>>

BuilderStep(b) ==
  \/ Create(b) \/ Spawn(b) \/ AwaitOne(b) \/ Started(b) \/ Cancel(b) \/ Await(b) \/ Awaited(b)
  \/ Output(b) \/ Return(b)

SubNext ==
  \/ \E b \in Builders : Begin(b) \/ BuilderStep(b)
  \/ \E b \in Builders, j \in Jobs : Compile(b, j)

\* Every process runs; compilers come to an end.
SubFairness ==
  /\ \A b \in Builders : WF_subVars(BuilderStep(b))
  /\ \A b \in Builders, j \in UNION {JobsOf(q) : q \in Libraries \cup Packages} :
       WF_subVars(j \in Jobs /\ Compile(b, j))

SubSpec == SubInit /\ [][SubNext]_subVars /\ SubFairness

-----------------------------------------------------------------------------
SubPCs == {"idle", "create", "spawn", "cancel", "await", "output", "end", "returned"}

SubTypeOK ==
  /\ task \in Tasks
  /\ spc \in [Builders -> SubPCs]
  /\ spool \in [Builders -> Pools] /\ sjob \in [Builders -> Nat]
  /\ serr \in [Builders -> BOOLEAN] /\ trouble \in [Builders -> BOOLEAN]
  /\ strayed \in [Builders -> BOOLEAN]
  /\ procs \in [Builders -> [Pools -> [Slots -> Jobs \cup {Free}]]]
  /\ pending \in [Builders -> SUBSET Pools] /\ interrupted \in [Builders -> SUBSET Jobs]
  /\ compiler \in [Builders -> [Jobs -> Alive \cup {"none", "exited", "failed", "reaped"}]]
  /\ objs \in [Jobs -> {"absent", "partial", "whole"}]
  /\ output \in [Builders -> {"none", "good", "bad"}]

\* cbuild_build_compile, pkgbuild_await_compilation: success and error are told as
\* they are.  Success means that every compiler has exited with 0 and was waited
\* for, in whatever order they end and wherever their places are; an error, that
\* something has failed.
ResultExact ==
  \A b \in Builders : spc[b] = "returned" =>
    /\ serr[b] = trouble[b]
    /\ ~serr[b] => /\ \A j \in Jobs : compiler[b][j] = "reaped"
                   /\ output[b] # "none"

\* What is archived or linked is made of whole object files, unless a compiler of a
\* builder that has failed is still at work in the same directory.
OutputGood == \A b \in Builders : output[b] = "bad" => strayed[b]

\* A compiler outlives its builder only when it was told to stop.
LeftAreInterrupted ==
  \A b \in Builders : spc[b] \in {"output", "end", "returned"} =>
    \A j \in Jobs : compiler[b][j] \in Alive => j \in interrupted[b] /\ serr[b]

\* The builder comes to an end.
BuilderReturns == \A b \in Builders : (b \in Busy) ~> (spc[b] = "returned")
=============================================================================
