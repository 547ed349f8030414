------------------------------ MODULE Sysroot -------------------------------
(***************************************************************************)
(* build_sysroot of src/src/main_build_sysroot.c: compis processes that    *)
(* find the system libraries of a target missing build them in a shared    *)
(* cache directory.  Per component, COMPONENT.lock is locked with fcntl    *)
(* while it is built and renamed to COMPONENT.ok when that succeeded.      *)
(*                                                                         *)
(* A lock belongs to the file that was opened, not to its name: after the  *)
(* rename, the name COMPONENT.lock stands for a new file.  Processes may   *)
(* fail at any call and may be killed at any moment.                       *)
(***************************************************************************)
EXTENDS Integers, Sequences, FiniteSets

CONSTANTS Procs,        \* processes
          Parts,        \* the components the target has, in the order they are built
          Dummies,      \* what building libc replaces by an empty archive
          Forced,       \* processes run with --force
          MaxStarts     \* bound: times a process is started

Components == {"sysinc", "libc", "librt", "libunwind", "libcxx"}

ASSUME SysrootAssumptions ==
  /\ Parts \in Seq(Components) /\ Parts # <<>>
  /\ Dummies \subseteq Components \ {"libc"}
  /\ Forced \subseteq Procs
  /\ MaxStarts \in Nat

\* Each component once, and libc before what it puts empty archives for.
ASSUME PartsInOrder ==
  \A i, j \in 1..Len(Parts) : i < j =>
    Parts[i] # Parts[j] /\ (Parts[j] = "libc" => Parts[i] \notin Dummies)

VARIABLES ok,           \* ok[c]: c.ok exists
          lockfile,     \* lockfile[c]: the file named c.lock, 0 if there is none
          made,         \* made[c]: lock files made so far; each is a new file
          product,      \* product[c]: what is installed of c
          pc, at,       \* at[p]: p is at component Parts[at[p]]
          fd,           \* fd[p]: the lock file that p has opened
          holds,        \* holds[p]: p holds the lock on it
          result,       \* result[p]: err of p's last call of build_sysroot
          starts,
          misled        \* history: a process waited for a component in vain

disk == <<ok, lockfile, made, product>>
vars == <<disk, pc, at, fd, holds, result, starts, misled>>

Init ==
  /\ ok = [c \in Components |-> FALSE]
  /\ lockfile = [c \in Components |-> 0]
  /\ made = [c \in Components |-> 0]
  /\ product = [c \in Components |-> "absent"]
  /\ pc = [p \in Procs |-> "idle"]
  /\ at = [p \in Procs |-> 1]
  /\ fd = [p \in Procs |-> 0]
  /\ holds = [p \in Procs |-> FALSE]
  /\ result = [p \in Procs |-> "none"]
  /\ starts = [p \in Procs |-> 0]
  /\ misled = FALSE

Part(p) == Parts[at[p]]
Goto(p, l) == pc' = [pc EXCEPT ![p] = l]
Release(p) == holds' = [holds EXCEPT ![p] = FALSE]

\* build_sysroot goes on with the next component, or returns 0 after the last.
Advance(p) ==
  /\ at' = [at EXCEPT ![p] = @ + 1]
  /\ IF at[p] = Len(Parts)
     THEN Goto(p, "idle") /\ result' = [result EXCEPT ![p] = "ok"]
     ELSE Goto(p, "check") /\ UNCHANGED result

\* It returns the error of the first component that fails.
ReturnError(p) ==
  /\ Goto(p, "idle")
  /\ result' = [result EXCEPT ![p] = "error"]
  /\ UNCHANGED at

\* Bugs: the lock does not exclude; c.ok is not looked at again under the
\* lock; it is made although the build failed; a failed build keeps the lock.
LockedNever(p) == FALSE
UpToDateNever(p) == FALSE
SucceededAlways(p) == TRUE
ReleaseOnSuccess(p) == holds' = [holds EXCEPT ![p] = pc[p] # "unlock"]

\* Another process has a lock on the file that p has opened.
Locked(p) ==
  \E q \in Procs \ {p} : holds[q] /\ Part(q) = Part(p) /\ fd[q] = fd[p]

UpToDate(p) == p \notin Forced /\ ok[Part(p)]
Succeeded(p) == pc[p] = "rename"
Unlock(p) == Release(p)

-----------------------------------------------------------------------------
\* build_sysroot makes the directory; fs_mkdirs does not mind if another
\* process does the same.
Start(p) ==
  /\ pc[p] = "idle" /\ starts[p] < MaxStarts
  /\ starts' = [starts EXCEPT ![p] = @ + 1]
  /\ at' = [at EXCEPT ![p] = 1]
  /\ Goto(p, "check")
  /\ UNCHANGED <<disk, fd, holds, result, misled>>

\* build_component: nothing to do if c.ok is there ...
Check(p) ==
  /\ pc[p] = "check"
  /\ IF UpToDate(p) THEN Advance(p) ELSE Goto(p, "open") /\ UNCHANGED <<at, result>>
  /\ UNCHANGED <<disk, fd, holds, starts, misled>>

\* ... else open c.lock, making it if need be ...
Open(p) ==
  LET c == Part(p) IN
  /\ pc[p] = "open"
  /\ IF lockfile[c] = 0
     THEN /\ made' = [made EXCEPT ![c] = @ + 1]
          /\ lockfile' = [lockfile EXCEPT ![c] = made[c] + 1]
     ELSE UNCHANGED <<made, lockfile>>
  /\ fd' = [fd EXCEPT ![p] = lockfile'[c]]
  /\ Goto(p, "trylock")
  /\ UNCHANGED <<ok, product, at, holds, result, starts, misled>>

\* ... fs_trylock ...
TryLock(p) ==
  /\ pc[p] = "trylock"
  /\ holds' = [holds EXCEPT ![p] = ~Locked(p)]
  /\ Goto(p, IF Locked(p) THEN "wait" ELSE "recheck")
  /\ UNCHANGED <<disk, at, fd, result, starts, misled>>

\* ... and look again: "race condition; component already built".
Recheck(p) ==
  /\ pc[p] = "recheck"
  /\ IF UpToDate(p)
     THEN Release(p) /\ Advance(p)
     ELSE Goto(p, "prepare") /\ UNCHANGED <<at, holds, result>>
  /\ UNCHANGED <<disk, fd, starts, misled>>

\* Another process has the lock: fs_lock waits for it ...
Wait(p) ==
  /\ pc[p] = "wait" /\ ~Locked(p)
  /\ holds' = [holds EXCEPT ![p] = TRUE]
  /\ Goto(p, "waited")
  /\ UNCHANGED <<disk, at, fd, result, starts, misled>>

\* ... and, whatever has become of the component, p goes on to the next one.
Waited(p) ==
  /\ pc[p] = "waited"
  /\ misled' = (misled \/ ~ok[Part(p)])
  /\ Release(p)
  /\ Advance(p)
  /\ UNCHANGED <<disk, fd, starts>>

\* open, fs_trylock or fs_lock fails.
IOError(p) ==
  /\ pc[p] \in {"open", "trylock", "wait"}
  /\ ReturnError(p)
  /\ UNCHANGED <<disk, fd, holds, starts, misled>>

\* The first half of a build copies headers over what is installed, and for
\* libc puts empty archives in place of other libraries ...
Prepare(p) ==
  LET c == Part(p) IN
  /\ pc[p] = "prepare"
  /\ product' = [d \in Components |->
       IF c = "libc" /\ d \in Dummies THEN "dummy"
       ELSE IF d = c /\ c \in {"sysinc", "libc", "libcxx"} THEN "partial"
       ELSE product[d]]
  /\ Goto(p, "install")
  /\ UNCHANGED <<ok, lockfile, made, at, fd, holds, result, starts, misled>>

\* ... the second compiles the sources and replaces the library.
Install(p) ==
  /\ pc[p] = "install"
  /\ product' = [product EXCEPT ![Part(p)] = "built"]
  /\ Goto(p, "rename")
  /\ UNCHANGED <<ok, lockfile, made, at, fd, holds, result, starts, misled>>

BuildFails(p) ==
  /\ pc[p] \in {"prepare", "install"}
  /\ Goto(p, "failed")
  /\ UNCHANGED <<disk, at, fd, holds, result, starts, misled>>

\* finalize_build_component: after a success c.lock becomes c.ok.  The rename
\* may fail; the name is gone if another process, forced, has renamed it.
Rename(p) ==
  LET c == Part(p) IN
  /\ pc[p] \in {"rename", "failed"}
  /\ \/ /\ Succeeded(p) /\ lockfile[c] # 0
        /\ ok' = [ok EXCEPT ![c] = TRUE]
        /\ lockfile' = [lockfile EXCEPT ![c] = 0]
        /\ Goto(p, "unlock")
     \/ Goto(p, "unlock_failed") /\ UNCHANGED <<ok, lockfile>>
  /\ UNCHANGED <<made, product, at, fd, holds, result, starts, misled>>

\* "unlock the lockfile, resuming any processes waiting for the component"
Finish(p) ==
  /\ pc[p] \in {"unlock", "unlock_failed"}
  /\ Unlock(p)
  /\ IF pc[p] = "unlock" THEN Advance(p) ELSE ReturnError(p)
  /\ UNCHANGED <<disk, fd, starts, misled>>

\* The process is killed; the kernel drops its lock.
Kill(p) ==
  /\ pc[p] # "idle"
  /\ ReturnError(p)
  /\ Release(p)
  /\ UNCHANGED <<disk, fd, starts, misled>>

Go(p) ==
  \/ Check(p) \/ Open(p) \/ TryLock(p) \/ Recheck(p) \/ Wait(p) \/ Waited(p)
  \/ Prepare(p) \/ Install(p) \/ BuildFails(p) \/ Rename(p) \/ Finish(p)

Step(p) == Go(p) \/ IOError(p)

Next == \E p \in Procs : Start(p) \/ Step(p) \/ Kill(p)

\* Processes run, and compilers that are waited for come to an end; nothing
\* makes a call fail.
Fairness == \A p \in Procs : WF_vars(Go(p))

Spec == Init /\ [][Next]_vars /\ Fairness

-----------------------------------------------------------------------------
PCs == {"idle", "check", "open", "trylock", "recheck", "wait", "waited",
        "prepare", "install", "rename", "failed", "unlock", "unlock_failed"}

TypeOK ==
  /\ ok \in [Components -> BOOLEAN]
  /\ lockfile \in [Components -> Nat] /\ made \in [Components -> Nat]
  /\ product \in [Components -> {"absent", "dummy", "partial", "built"}]
  /\ pc \in [Procs -> PCs]
  /\ at \in [Procs -> 1..(Len(Parts) + 1)]
  /\ \A p \in Procs : pc[p] # "idle" => at[p] <= Len(Parts)
  /\ fd \in [Procs -> Nat] /\ holds \in [Procs -> BOOLEAN]
  /\ result \in [Procs -> {"none", "ok", "error"}]
  /\ starts \in [Procs -> Nat] /\ misled \in BOOLEAN

Building == {"prepare", "install", "rename", "failed"}

\* One process at a time builds a component, and so uses its directory for
\* object files, although c.lock may have become another file meanwhile.
OneBuilder ==
  \A p, q \in Procs :
    (pc[p] \in Building /\ pc[q] \in Building /\ Part(p) = Part(q)) => p = q

\* c.ok, "marking the build successful", never stands beside a library that is
\* missing, half made or empty, whoever fails or is killed; unless a process
\* has gone on without a component it waited for.
MarkedMeansBuilt ==
  ~misled => \A c \in Components : ok[c] => product[c] = "built"

\* What is marked is final: nobody writes over a library that others may
\* already be linking with.
MarkedIsFinal == [][~misled' => \A c \in Components : ok[c] => product'[c] = product[c]]_vars

\* A process goes past a component only when it is there, and returns 0 only
\* when all of them are.
PassedMeansBuilt ==
  \A p \in Procs : (pc[p] # "idle" \/ result[p] = "ok") =>
    \A i \in 1..(at[p] - 1) : product[Parts[i]] = "built"

PassedMeansBuiltIfNotMisled == ~misled => PassedMeansBuilt

\* Everyone who waits for a lock gets it or an error, and returns.
EveryoneReturns == \A p \in Procs : (pc[p] # "idle") ~> (pc[p] = "idle")
=============================================================================
