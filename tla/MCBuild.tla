------------------------------- MODULE MCBuild ------------------------------
(* How a program comes to be built: packages are loaded, compilers run as    *)
(* subprocesses, and what they need of a sysroot is built once for all       *)
(* processes.  A behaviour uses one of the three; the others stay where they *)
(* begin.                                                                    *)
EXTENDS Sysroot, PkgLoad, Subprocs

VARIABLE use            \* the part that the behaviour uses

-----------------------------------------------------------------------------
(* Three processes meet in an empty sysroot of a Linux target; musl's libc   *)
(* comes with an empty librt.a.                                              *)
CONSTANTS p1, p2, p3
MCProcs == {p1, p2, p3}
MCParts == <<"sysinc", "libc", "librt">>
MCDummies == {"librt"}
MCNone == {}

-----------------------------------------------------------------------------
(* A program, pkgr, and the packages it imports.                             *)
CONSTANTS pkgr, pkga, pkgb, pkgc, main, w1, w2
MCPkgs == {pkgr, pkga, pkgb, pkgc}
MCWorkers == {w1, w2}
OneUnit == [p \in MCPkgs |-> 1]
TwoUnits == [p \in MCPkgs |-> IF p = pkga THEN 2 ELSE 1]
Graph(ri, ai, bi, ci) ==
  [p \in MCPkgs |-> IF p = pkgr THEN ri ELSE IF p = pkga THEN ai ELSE IF p = pkgb THEN bi ELSE ci]
Project(g, u, st, ws) ==
  [imports |-> g, units |-> u, stale |-> st, workers |-> ws, queuecap |-> 2]
Diamond == Graph(<<pkga, pkgb>>, <<pkgc>>, <<pkgc>>, <<>>)
Ladder == Graph(<<pkga, pkgb>>, <<pkgb, pkgc>>, <<pkgc>>, <<>>)
Loop == Graph(<<pkga, pkgb>>, <<pkgb>>, <<pkgc>>, <<pkga>>)
Fan == Graph(<<pkga, pkgb, pkgc>>, <<>>, <<>>, <<>>)

\* What builds well, with and without threads, and a cycle of new packages.
MCProjects ==
  {Project(Diamond, TwoUnits, {}, MCWorkers), Project(Ladder, OneUnit, {}, {}),
   Project(Loop, TwoUnits, MCPkgs, {}), Project(Fan, OneUnit, {}, {})}

-----------------------------------------------------------------------------
(* A library of three sources and two builders, or a package of two sources, *)
(* each compiled to an object file and to assembly.                          *)
CONSTANTS b1, b2
MCBuilders == {b1, b2}
MCLibraries == {<< <<"x", "y", "z">> >>}
MCPackages == {<< <<"xo", "xs">>, <<"yo", "ys">> >>}

-----------------------------------------------------------------------------
LoadParked ==
  /\ project = CHOOSE j \in Projects : TRUE
  /\ onDisk = [p \in Pkgs |-> "stale"]
CompilersParked == task = CHOOSE q \in Tasks : TRUE

MCInit ==
  /\ use \in {"sysroot", "load", "compilers"}
  /\ Init
  /\ LoadInit /\ (use = "load" \/ LoadParked)
  /\ SubInit /\ (use = "compilers" \/ CompilersParked)

Sysroot1 == use = "sysroot" /\ UNCHANGED <<loadVars, subVars, use>>
Load1 == use = "load" /\ UNCHANGED <<vars, subVars, use>>
Compilers1 == use = "compilers" /\ UNCHANGED <<vars, loadVars, use>>

MCNext ==
  \/ Sysroot1 /\ Next
  \/ Load1 /\ LoadNext
  \/ Compilers1 /\ SubNext

\* The i'th actor of the part in use.  For that part this is its own fairness:
\* every compiler takes few steps, so all come to an end if some one always goes on.
Proc == <<p1, p2, p3>>
Thread == <<main, w1, w2>>
Builder == <<b1, b2>>
Steps(i) ==
  \/ Sysroot1 /\ Go(Proc[i])
  \/ Load1 /\ exit = "running" /\ LoadStep(Thread[i])
  \/ Compilers1 /\ IF i = 3 THEN \E d \in {b1, b2}, j \in Jobs : Compile(d, j)
                   ELSE BuilderStep(Builder[i])
MCVars == <<vars, loadVars, subVars, use>>
MCFairness == \A i \in 1..3 : WF_MCVars(Steps(i))

MCSpec == MCInit /\ [][MCNext]_MCVars /\ MCFairness

-----------------------------------------------------------------------------
\* Whatever is begun comes to an end: a process that waits for a component's lock gets
\* it or an error, a build with imports or import cycles ends, and so does a builder
\* that waits for its compilers.  (What is true of p1 and b1 is true of the others.)
Begun ==
  CASE use = "sysroot" -> pc[p1] # "idle"
    [] use = "load" -> exit = "running"
    [] use = "compilers" -> b1 \in Busy
Ended ==
  CASE use = "sysroot" -> pc[p1] = "idle"
    [] use = "load" -> exit # "running"
    [] use = "compilers" -> spc[b1] = "returned"
EveryBuildEnds == Begun ~> Ended
=============================================================================
