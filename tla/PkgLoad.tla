------------------------------- MODULE PkgLoad ------------------------------
(***************************************************************************)
(* One build of a package and its dependencies (src/src/pkgbuild.c).  The  *)
(* main thread runs build_pkg on the top-level package; dependencies are   *)
(* loaded, and built when stale, by load_dependency0 on the calling thread *)
(* or as jobs of the thread pool, which also runs the parsers.             *)
(*                                                                         *)
(* A thread's stack holds one frame per package that it loads or builds,   *)
(* because the last import is loaded on the importer's own thread.  The    *)
(* future of a package is the one of FutureSpec, the pool that of          *)
(* ThreadPool at its full size.                                            *)
(***************************************************************************)
EXTENDS Integers, Sequences, FiniteSets, SequencesExt

CONSTANTS Pkgs, Root,   \* the packages, and the one given to build_toplevel_pkg
          Main,         \* the main thread
          Workers,      \* threads of the pool
          Projects,     \* what may be built: [imports, units, stale, workers, queuecap]
          MayFail       \* can sources have errors?

\* A project with no workers is one with comaxproc = 1.
ASSUME LoadAssumptions ==
  /\ Root \in Pkgs /\ Main \notin Workers /\ MayFail \in BOOLEAN
  /\ \A j \in Projects : /\ j.imports \in [Pkgs -> Seq(Pkgs)]
                         /\ j.units \in [Pkgs -> Nat \ {0}]
                         /\ j.stale \subseteq Pkgs
                         /\ j.workers \subseteq Workers /\ j.queuecap \in Nat

Threads == Workers \cup {Main}

VARIABLES project,    \* the element of Projects that is built
          onDisk,     \* onDisk[p]: is p's product "fresh", "stale" or "badapi"?
          fut,        \* fut[p]: pkg->loadfut
          queue,      \* g_workch
          stack,      \* stack[t]: frames, the innermost last
          parent,     \* parent[p]: the pkgcell_t that p's load was given
          alive,      \* the pkgcell_t that exist
          unparsed,   \* unparsed[p]: units whose result is not signalled yet
          built,      \* how often each package was built
          errcount,   \* compiler_errcount(c) > 0
          dangling,   \* history: a pkgcell_t was read after its owner was gone
          exit        \* what build_toplevel_pkg returned

given == <<project, onDisk>>
loadVars == <<given, fut, queue, stack, parent, alive, unparsed, built, errcount,
              dangling, exit>>

NoCell == <<Root, "none">>
Imports(p) == project.imports[p]
Sync == project.workers = {}

\* A frame: the package, where it is, and the loop index i.
Frame(p, at) == [pkg |-> p, at |-> at, i |-> 1]
Top(t) == stack[t][Len(stack[t])]
At(t, l) == stack[t] # <<>> /\ Top(t).at = l
IsRoot(t) == t = Main /\ Len(stack[t]) = 1

\* The stack of t when its innermost frame has moved to l and i.
Moved(t, l, i) ==
  [stack[t] EXCEPT ![Len(stack[t])] = [pkg |-> Top(t).pkg, at |-> l, i |-> i]]
Set(t, l, i) == stack' = [stack EXCEPT ![t] = Moved(t, l, i)]

\* build_pkg's pb->pkgc and load_dependency1's pkgc.
BuildCell(t) == <<Top(t).pkg, IF IsRoot(t) THEN "root" ELSE "build">>
MetaCell(t) == <<Top(t).pkg, "meta">>
OwnCell(t) == IF Top(t).at = "mload" THEN MetaCell(t) ELSE BuildCell(t)

\* The jobs of the pool.
LoadJob(p) == <<"load", p, 0>>
ParseJob(p, u) == <<"parse", p, u>>

LoadInit ==
  /\ project \in Projects
  /\ onDisk \in [Pkgs -> {"fresh", "stale", "badapi"}]
  /\ \A p \in project.stale \cup {Root} : onDisk[p] = "stale"
  /\ fut = [p \in Pkgs |-> "none"]
  /\ queue = <<>>
  /\ stack = [t \in Threads |-> IF t = Main THEN <<Frame(Root, "build")>> ELSE <<>>]
  /\ parent = [p \in Pkgs |-> NoCell]
  /\ alive = {}
  /\ unparsed = [p \in Pkgs |-> {}]
  /\ built = [p \in Pkgs |-> 0]
  /\ errcount = FALSE /\ dangling = FALSE /\ exit = "running"

-----------------------------------------------------------------------------
\* Bugs: a package that is being loaded is loaded again; the importer does not wait for
\* the load.
CanAcquireAlways(p) == TRUE
LoadedUnchecked(p) == fut[p] # "none"

CanAcquire(p) == fut[p] = "none"
Signalled(p, u) == [unparsed EXCEPT ![p] = @ \ {u}]
Loaded(p) == fut[p] \in {"ok", "err"}

\* load_dependency for the i-th import, called from load_dependency1 ("mload")
\* or pkgbuild_import ("bload"): the last one on this thread, the others in
\* the pool unless there is none.
LoadDependency(t, here, submit) ==
  LET f == Top(t)
      dep == Imports(f.pkg)[f.i]
  IN
  /\ At(t, here) /\ f.i <= Len(Imports(f.pkg))
  /\ \/ ~CanAcquire(dep) /\ Set(t, here, f.i + 1) /\ UNCHANGED <<fut, parent>>
     \/ /\ CanAcquire(dep)
        /\ fut' = [fut EXCEPT ![dep] = "loading"]
        /\ parent' = [parent EXCEPT ![dep] = OwnCell(t)]
        /\ IF Sync \/ f.i = Len(Imports(f.pkg))
           THEN stack' = [stack EXCEPT ![t] = Append(Moved(t, here, f.i + 1), Frame(dep, "load"))]
           ELSE Set(t, submit, f.i)
  /\ UNCHANGED <<given, queue, alive, unparsed, built, errcount, dangling, exit>>

\* threadpool_submit blocks while the work channel is full.
Submit(t, here, next) ==
  LET f == Top(t) IN
  /\ At(t, here) /\ Len(queue) < project.queuecap
  /\ queue' = Append(queue, LoadJob(Imports(f.pkg)[f.i]))
  /\ Set(t, next, f.i + 1)
  /\ UNCHANGED <<given, fut, parent, alive, unparsed, built, errcount, dangling, exit>>

\* All imports are under way: wait for them in order.
StartWaiting(t, here, next) ==
  /\ At(t, here) /\ Top(t).i > Len(Imports(Top(t).pkg))
  /\ Set(t, next, 1)
  /\ UNCHANGED <<given, fut, queue, parent, alive, unparsed, built, errcount, dangling, exit>>

-----------------------------------------------------------------------------
\* load_dependency0: a package whose lib, metafile and sources are in order
\* goes to load_dependency1, others are built.  Reading may fail.
LoadBegins(t) ==
  /\ At(t, "load")
  /\ \/ onDisk[Top(t).pkg] = "stale" /\ Set(t, "build", 1) /\ UNCHANGED alive
     \/ MayFail /\ Set(t, "err", 1) /\ UNCHANGED alive
     \/ /\ onDisk[Top(t).pkg] # "stale"
        /\ alive' = alive \cup {MetaCell(t)}
        /\ Set(t, "mload", 1)
  /\ UNCHANGED <<given, fut, queue, parent, unparsed, built, errcount, dangling, exit>>

\* load_dependency1 waits for the imports.  It returns false at the first one
\* that failed, or that is newer than this package's metafile and has another API
\* hash than that says: rebuilt in this build, or in one of another program.
MetaWait(t) ==
  LET f == Top(t)
      dep == Imports(f.pkg)[f.i]
      leave(l) == Set(t, l, 1) /\ alive' = alive \ {MetaCell(t)}
  IN
  /\ At(t, "mwait")
  /\ \/ f.i > Len(Imports(f.pkg)) /\ leave("api")
     \/ /\ f.i <= Len(Imports(f.pkg)) /\ Loaded(dep)
        /\ leave("build") \/ (fut[dep] = "ok" /\ Set(t, "mwait", f.i + 1) /\ UNCHANGED alive)
  /\ UNCHANGED <<given, fut, queue, parent, unparsed, built, errcount, dangling, exit>>

\* load_pkg_api: a metafile that cannot be decoded is rebuilt, but only once.
LoadApi(t) ==
  LET p == Top(t).pkg IN
  /\ At(t, "api")
  /\ \/ onDisk[p] = "badapi" /\ built[p] = 0 /\ Set(t, "build", 1)
     \/ onDisk[p] # "badapi" /\ Set(t, "ok", 1)
     \/ built[p] > 0 /\ Set(t, "ok", 1)
     \/ MayFail /\ built[p] > 0 /\ Set(t, "err", 1)
  /\ UNCHANGED <<given, fut, queue, parent, alive, unparsed, built, errcount, dangling, exit>>

\* future_finalize, or the return of build_toplevel_pkg.
Finalize(t) ==
  LET f == Top(t) IN
  /\ stack[t] # <<>> /\ f.at \in {"ok", "err"}
  /\ stack' = [stack EXCEPT ![t] = Front(@)]
  /\ IF IsRoot(t) THEN exit' = f.at /\ UNCHANGED fut
                  ELSE fut' = [fut EXCEPT ![f.pkg] = f.at] /\ UNCHANGED exit
  /\ UNCHANGED <<given, queue, parent, alive, unparsed, built, errcount, dangling>>

-----------------------------------------------------------------------------
\* build_pkg fails at once after any error; otherwise it finds the sources,
\* starts the C compilers, either of which may fail, and begins to parse.
BuildBegins(t) ==
  /\ At(t, "build")
  /\ IF errcount
     THEN Set(t, "err", 1) /\ UNCHANGED <<alive, unparsed>>
     ELSE /\ alive' = alive \cup {BuildCell(t)}
          /\ \/ /\ unparsed' = [unparsed EXCEPT ![Top(t).pkg] = 1..project.units[Top(t).pkg]]
                /\ Set(t, "parse", 1)
             \/ MayFail /\ Set(t, "fail", 1) /\ UNCHANGED unparsed
  /\ UNCHANGED <<given, fut, queue, parent, built, errcount, dangling, exit>>

\* pkgbuild_parse: without threads, and for the last unit but one, parse here.
ParseHere(t) ==
  LET f == Top(t) IN
  /\ At(t, "parse") /\ f.i <= project.units[f.pkg]
  /\ Sync \/ f.i = project.units[f.pkg] - 1
  /\ unparsed' = Signalled(f.pkg, f.i)
  /\ errcount' \in {errcount, errcount \/ MayFail}
  /\ Set(t, "parse", f.i + 1)
  /\ UNCHANGED <<given, fut, queue, parent, alive, built, dangling, exit>>

ParseElsewhere(t) ==
  LET f == Top(t) IN
  /\ At(t, "parse") /\ f.i <= project.units[f.pkg]
  /\ ~Sync /\ f.i # project.units[f.pkg] - 1
  /\ Len(queue) < project.queuecap
  /\ queue' = Append(queue, ParseJob(f.pkg, f.i))
  /\ Set(t, "parse", f.i + 1)
  /\ UNCHANGED <<given, fut, parent, alive, unparsed, built, errcount, dangling, exit>>

\* Wait for all results; an error of this package's parsers, or of opening a
\* source file, ends the build.
ParseWait(t) ==
  LET f == Top(t) IN
  /\ At(t, "parse") /\ f.i > project.units[f.pkg] /\ unparsed[f.pkg] = {}
  /\ \/ Set(t, "imports", 1)
     \/ MayFail /\ Set(t, "fail", 1)
  /\ UNCHANGED <<given, fut, queue, parent, alive, unparsed, built, errcount, dangling, exit>>

\* The packages whose loads t's build is part of: the least set with its package that
\* has with each package the one whose cell its load was given.
Loads(t) ==
  {p \in Pkgs : \A S \in SUBSET Pkgs :
     /\ Top(t).pkg \in S
     /\ \A q \in S : parent[q][2] \in {"build", "meta"} => parent[q][1] \in S
     => p \in S}

\* The cells from t's build up to the top-level package.
Chain(t) == {BuildCell(t)} \cup (IF IsRoot(t) THEN {} ELSE {parent[p] : p \in Loads(t)})

\* Bug: the chain of importers is not looked at.
CycleUnchecked(t) == FALSE

\* check_import_cycle, for every import.
Cycle(t) ==
  \E c \in Chain(t) : c[1] \in Range(Imports(Top(t).pkg))

\* pkgbuild_import up to the loads: import_pkgs may report a missing package.
ImportsChecked(t) ==
  /\ At(t, "imports")
  /\ dangling' = (dangling \/ \E c \in Chain(t) : c \notin alive)
  /\ \/ Set(t, IF Cycle(t) THEN "fail" ELSE "bload", 1) /\ UNCHANGED errcount
     \/ MayFail /\ errcount' \in {errcount, TRUE} /\ Set(t, "fail", 1)
  /\ UNCHANGED <<given, fut, queue, parent, alive, unparsed, built, exit>>

\* pkgbuild_import waits, up to the first import that failed.
BuildWait(t) ==
  LET f == Top(t)
      dep == Imports(f.pkg)[f.i]
  IN
  /\ At(t, "bwait")
  /\ \/ f.i > Len(Imports(f.pkg)) /\ Set(t, "finish", 1)
     \/ /\ f.i <= Len(Imports(f.pkg)) /\ Loaded(dep)
        /\ IF fut[dep] = "err" THEN Set(t, "fail", 1) ELSE Set(t, "bwait", f.i + 1)
  /\ UNCHANGED <<given, fut, queue, parent, alive, unparsed, built, errcount, dangling, exit>>

\* Bug: an earlier error does not stop the build.
NoErrorsUnchecked == TRUE

\* compiler_errcount(c) is zero.
NoErrors == ~errcount

\* Analysis, code generation, compilation and link; an error is a diagnostic or
\* a compiler or linker that failed.
BuildFinishes(t) ==
  LET p == Top(t).pkg IN
  /\ At(t, "finish")
  /\ \/ /\ NoErrors
        /\ built' = [built EXCEPT ![p] = @ + 1]
        /\ alive' = alive \ {BuildCell(t)}
        /\ Set(t, IF IsRoot(t) THEN "ok" ELSE "api", 1)
        /\ UNCHANGED errcount
     \/ /\ errcount \/ MayFail
        /\ errcount' \in {errcount, TRUE}
        /\ Set(t, "fail", 1)
        /\ UNCHANGED <<built, alive>>
  /\ UNCHANGED <<given, fut, queue, parent, unparsed, dangling, exit>>

\* The error path: await the compilers, then pkgbuild_dispose.
PkgBuildFails(t) ==
  /\ At(t, "fail")
  /\ alive' = alive \ {BuildCell(t)}
  /\ Set(t, "err", 1)
  /\ UNCHANGED <<given, fut, queue, parent, unparsed, built, errcount, dangling, exit>>

-----------------------------------------------------------------------------
\* A worker takes a job: a load, or parse_co_file, which signals its result.
Work(t) ==
  /\ t \in project.workers /\ stack[t] = <<>> /\ queue # <<>>
  /\ queue' = Tail(queue)
  /\ LET job == Head(queue) IN
     \/ /\ job[1] = "load"
        /\ stack' = [stack EXCEPT ![t] = <<Frame(job[2], "load")>>]
        /\ UNCHANGED <<unparsed, errcount>>
     \/ /\ job[1] = "parse"
        /\ unparsed' = Signalled(job[2], job[3])
        /\ errcount' \in {errcount, errcount \/ MayFail}
        /\ UNCHANGED stack
  /\ UNCHANGED <<given, fut, parent, alive, built, dangling, exit>>

Load(t) ==
  \/ LoadBegins(t) \/ LoadDependency(t, "mload", "msubmit") \/ Submit(t, "msubmit", "mload")
  \/ StartWaiting(t, "mload", "mwait") \/ MetaWait(t) \/ LoadApi(t) \/ Finalize(t)

Build(t) ==
  \/ BuildBegins(t) \/ ParseHere(t) \/ ParseElsewhere(t) \/ ParseWait(t) \/ ImportsChecked(t)
  \/ LoadDependency(t, "bload", "bsubmit") \/ Submit(t, "bsubmit", "bload")
  \/ StartWaiting(t, "bload", "bwait") \/ BuildWait(t) \/ BuildFinishes(t) \/ PkgBuildFails(t)

LoadStep(t) == Load(t) \/ Build(t) \/ Work(t)

LoadNext == exit = "running" /\ \E t \in Threads : LoadStep(t)

\* The operating system schedules every thread that can run.
LoadFairness == \A t \in Threads : WF_loadVars(exit = "running" /\ LoadStep(t))

LoadSpec == LoadInit /\ [][LoadNext]_loadVars /\ LoadFairness

-----------------------------------------------------------------------------
LoadPCs == {"load", "mload", "msubmit", "mwait", "api", "ok", "err", "build", "parse",
            "imports", "bload", "bsubmit", "bwait", "finish", "fail"}
Frames == [pkg : Pkgs, at : LoadPCs, i : Nat]
Cells == Pkgs \X {"none", "root", "build", "meta"}
Results == {"ok", "err"}

LoadTypeOK ==
  /\ project \in Projects /\ onDisk \in [Pkgs -> {"fresh", "stale", "badapi"}]
  /\ fut \in [Pkgs -> {"none", "loading"} \cup Results]
  /\ queue \in Seq({"load", "parse"} \X Pkgs \X Nat)
  /\ stack \in [Threads -> Seq(Frames)]
  /\ parent \in [Pkgs -> Cells] /\ alive \subseteq Cells
  /\ unparsed \in [Pkgs -> SUBSET Nat] /\ built \in [Pkgs -> Nat]
  /\ errcount \in BOOLEAN /\ dangling \in BOOLEAN
  /\ exit \in {"running"} \cup Results

\* The packages that Root needs: the least set with Root that is closed under imports.
Closed(S) == \A p \in S : Range(Imports(p)) \subseteq S
Needed == {p \in Pkgs : \A S \in SUBSET Pkgs : Root \in S /\ Closed(S) => p \in S}

\* check_import_cycle: the cells up to the top-level package exist when they are
\* read, unless somebody has three imports and lets two of them be loaded by the pool.
ParentsAlive == dangling => ~Sync /\ \E p \in Pkgs : Len(Imports(p)) > 2

\* pkgbuild_import: a package is analysed only after everything it imports is loaded,
\* what is loaded stands on what is loaded, and no importer is gone while its cell is
\* still used.
ImportsReady ==
  /\ \A t \in Threads : At(t, "finish") =>
       \A d \in Range(Imports(Top(t).pkg)) : fut[d] = "ok"
  /\ \A p \in Pkgs : fut[p] = "ok" => \A d \in Range(Imports(p)) : fut[d] = "ok"
  /\ ParentsAlive

\* future_acquire: no package is loaded by two threads, or built twice.
LoadedOnce ==
  /\ \A p \in Pkgs : built[p] <= 1
  /\ \A t, u \in Threads : \A i \in DOMAIN stack[t], j \in DOMAIN stack[u] :
       /\ stack[t][i].pkg = stack[u][j].pkg
       /\ <<t, i>> # <<Main, 1>> /\ <<u, j>> # <<Main, 1>>
       => t = u /\ i = j

\* A build that succeeds has loaded every package that is needed, without an
\* error, and ("import cycle not allowed") they can be ordered.
SuccessMeansLoaded ==
  exit = "ok" =>
    /\ \A p \in Needed \ {Root} : fut[p] = "ok"
    /\ ~errcount
    /\ \A S \in SUBSET Needed : S # {} => \E p \in S : Range(Imports(p)) \cap S = {}

\* "wait for imported packages to load": the build comes to an end.
BuildEnds == <>(exit # "running")
=============================================================================
