--------------------------- MODULE SysrootProofs ----------------------------
(***************************************************************************)
(* The lock protocol of build_sysroot, for any processes and components,   *)
(* when none is forced.                                                    *)
(*                                                                         *)
(* A lock excludes only those who opened the same file.  What makes it     *)
(* exclude builders is FileInv: as long as a component is not marked, its  *)
(* lock file keeps its name, so all who have opened it have the same file; *)
(* whoever has another one sees the mark when it looks again.              *)
(***************************************************************************)
EXTENDS Sysroot, TLAPS

\* Where a process has the lock, and where it has opened the lock file.
Locking == Building \cup {"recheck", "waited", "unlock", "unlock_failed"}
Opened == Building \cup {"trylock", "wait", "recheck", "waited"}

LockInv ==
  /\ \A p \in Procs : holds[p] <=> pc[p] \in Locking
  /\ \A p, q \in Procs :
       (holds[p] /\ holds[q] /\ Part(p) = Part(q) /\ fd[p] = fd[q]) => p = q

FileInv ==
  \A p \in Procs : (pc[p] \in Opened /\ ~ok[Part(p)]) =>
    fd[p] # 0 /\ lockfile[Part(p)] = fd[p]

UnmarkedInv == \A p \in Procs : pc[p] \in Building => ~ok[Part(p)]

ExclInv == TypeOK /\ LockInv /\ FileInv /\ UnmarkedInv

-----------------------------------------------------------------------------
\* The state is well typed at the start.
LEMMA InitType == Init => TypeOK
<1> SUFFICES ASSUME Init PROVE TypeOK
  OBVIOUS
<1> USE SysrootAssumptions
<1>1. /\ ok \in [Components -> BOOLEAN] /\ holds \in [Procs -> BOOLEAN]
      /\ misled \in BOOLEAN
  BY Zenon DEF Init
<1>2. /\ lockfile \in [Components -> Nat] /\ made \in [Components -> Nat]
      /\ product \in [Components -> {"absent", "dummy", "partial", "built"}]
      /\ pc \in [Procs -> PCs] /\ fd \in [Procs -> Nat]
      /\ result \in [Procs -> {"none", "ok", "error"}] /\ starts \in [Procs -> Nat]
      /\ at \in [Procs -> 1..(Len(Parts) + 1)]
      /\ \A p \in Procs : pc[p] # "idle" => at[p] <= Len(Parts)
  BY SMT DEF Init, PCs
<1> QED BY <1>1, <1>2 DEF TypeOK

\* The component a running process is at is one of the components.
LEMMA PartType ==
  ASSUME TypeOK, NEW p \in Procs, pc[p] # "idle"
  PROVE  at[p] \in 1..Len(Parts) /\ Part(p) \in Components
BY SysrootAssumptions DEF TypeOK, Part

\* Going on and going back keep the types.
LEMMA AdvanceType ==
  ASSUME TypeOK, NEW p \in Procs, pc[p] # "idle", Advance(p) \/ ReturnError(p)
  PROVE  /\ pc' \in [Procs -> PCs] /\ at' \in [Procs -> 1..(Len(Parts) + 1)]
         /\ result' \in [Procs -> {"none", "ok", "error"}]
         /\ \A q \in Procs : pc'[q] # "idle" => at'[q] <= Len(Parts)
<1> DEFINE n == Len(Parts)
<1>1. n \in Nat /\ at[p] \in 1..n
  BY PartType, SysrootAssumptions
<1>2. /\ pc \in [Procs -> PCs] /\ at \in [Procs -> 1..(n + 1)]
      /\ result \in [Procs -> {"none", "ok", "error"}]
      /\ \A q \in Procs : pc[q] # "idle" => at[q] <= n
  BY DEF TypeOK
<1>3. {"idle", "check"} \subseteq PCs
  BY DEF PCs
<1>4. CASE Advance(p)
  <2>1. at' = [at EXCEPT ![p] = @ + 1] /\ (at[p] = n => Goto(p, "idle"))
        /\ (at[p] # n => Goto(p, "check"))
    BY <1>4 DEF Advance
  <2>2. result' \in [Procs -> {"none", "ok", "error"}]
    BY <1>2, <1>4 DEF Advance
  <2>3. pc' \in [Procs -> PCs]
    BY <1>2, <1>3, <2>1 DEF Goto
  <2> HIDE DEF n
  <2>4. at' \in [Procs -> 1..(n + 1)]
    BY <1>1, <1>2, <2>1, SMT
  <2>5. ASSUME NEW q \in Procs, pc'[q] # "idle" PROVE at'[q] <= n
    BY <1>1, <1>2, <2>1, <2>5, SMT DEF Goto
  <2> QED BY <2>2, <2>3, <2>4, <2>5 DEF n
<1>5. CASE ReturnError(p)
  BY <1>2, <1>3, <1>5, SMT DEF ReturnError, Goto
<1> QED BY <1>4, <1>5

\* Going to another label of the same call keeps the types.
LEMMA GotoType ==
  ASSUME TypeOK, NEW p \in Procs, NEW l \in PCs, pc[p] # "idle", Goto(p, l),
         UNCHANGED <<at, result>>
  PROVE  /\ pc' \in [Procs -> PCs] /\ at' \in [Procs -> 1..(Len(Parts) + 1)]
         /\ result' \in [Procs -> {"none", "ok", "error"}]
         /\ \A q \in Procs : pc'[q] # "idle" => at'[q] <= Len(Parts)
BY DEF TypeOK, Goto, PCs

\* Every step keeps the types.
LEMMA NextType == TypeOK /\ [Next]_vars => TypeOK'
<1> SUFFICES ASSUME TypeOK, [Next]_vars PROVE TypeOK'
  OBVIOUS
<1>1. CASE UNCHANGED vars
  BY <1>1 DEF TypeOK, vars, disk
<1>2. ASSUME NEW p \in Procs, Start(p) PROVE TypeOK'
  <2>1. pc' \in [Procs -> PCs] /\ starts' \in [Procs -> Nat]
    BY <1>2, SMT DEF TypeOK, Start, Goto, PCs
  <2>2. /\ at' \in [Procs -> 1..(Len(Parts) + 1)]
        /\ \A q \in Procs : pc'[q] # "idle" => at'[q] <= Len(Parts)
    BY <1>2, SysrootAssumptions, SMT DEF TypeOK, Start, Goto
  <2> QED BY <1>2, <2>1, <2>2, Zenon DEF TypeOK, Start, disk
<1>3. ASSUME NEW p \in Procs, Step(p) \/ Kill(p) PROVE TypeOK'
  <2>a. pc[p] # "idle"
    BY <1>3 DEF Step, Go, Kill, Check, Open, TryLock, Recheck, Wait, Waited, IOError, Prepare,
                Install, BuildFails, Rename, Finish
  <2>b. Part(p) \in Components
    BY <2>a, PartType
  <2>1. /\ pc' \in [Procs -> PCs] /\ at' \in [Procs -> 1..(Len(Parts) + 1)]
        /\ result' \in [Procs -> {"none", "ok", "error"}]
        /\ \A q \in Procs : pc'[q] # "idle" => at'[q] <= Len(Parts)
    <3>1. CASE Advance(p) \/ ReturnError(p)
      BY <2>a, <3>1, AdvanceType
    <3>2. CASE UNCHANGED <<at, result>> /\ \E l \in PCs : Goto(p, l)
      BY <2>a, <3>2, GotoType
    <3> QED BY <1>3, <3>1, <3>2 DEF Step, Go, Kill, Check, Open, TryLock, Recheck, Wait, Waited,
              IOError, Prepare, Install, BuildFails, Rename, Finish, PCs
  <2>2. holds' \in [Procs -> BOOLEAN] /\ misled' \in BOOLEAN /\ ok' \in [Components -> BOOLEAN]
    BY <1>3, <2>b, Zenon DEF TypeOK, Step, Go, Kill, Check, Open, TryLock, Recheck, Wait, Waited,
          IOError, Prepare, Install, BuildFails, Rename, Finish, Release, Unlock, disk
  <2>3. /\ made' \in [Components -> Nat] /\ lockfile' \in [Components -> Nat]
        /\ fd' \in [Procs -> Nat]
    <3> DEFINE c == Part(p)
    <3>0. /\ made \in [Components -> Nat] /\ lockfile \in [Components -> Nat]
          /\ fd \in [Procs -> Nat] /\ c \in Components
      BY <2>b DEF TypeOK
    <3>1. CASE Open(p)
      <4>1. /\ made' = [made EXCEPT ![c] = @ + 1] /\ lockfile' = [lockfile EXCEPT ![c] = made[c] + 1]
            \/ UNCHANGED <<made, lockfile>>
        BY <3>1 DEF Open
      <4>2. fd' = [fd EXCEPT ![p] = lockfile'[c]]
        BY <3>1 DEF Open
      <4> HIDE DEF c
      <4> QED BY <3>0, <4>1, <4>2, SMT
    <3>2. CASE Rename(p)
      <4>1. UNCHANGED <<made, fd>> /\ (lockfile' = [lockfile EXCEPT ![c] = 0] \/ UNCHANGED lockfile)
        BY <3>2 DEF Rename
      <4> HIDE DEF c
      <4> QED BY <3>0, <4>1, SMT
    <3> QED BY <1>3, <3>1, <3>2, Zenon DEF TypeOK, Step, Go, Kill, Check, TryLock, Recheck, Wait,
              Waited, IOError, Prepare, Install, BuildFails, Finish, disk
  <2>4. product' \in [Components -> {"absent", "dummy", "partial", "built"}] /\ starts' \in [Procs -> Nat]
    <3>1. CASE Prepare(p)
      BY <2>b, <3>1, SMT DEF TypeOK, Prepare
    <3>2. CASE Install(p)
      BY <2>b, <3>2, SMT DEF TypeOK, Install
    <3> QED BY <1>3, <3>1, <3>2, Zenon DEF TypeOK, Step, Go, Kill, Check, Open, TryLock, Recheck,
              Wait, Waited, IOError, BuildFails, Rename, Finish, disk
  <2> QED BY <2>1, <2>2, <2>3, <2>4 DEF TypeOK
<1> QED BY <1>1, <1>2, <1>3 DEF Next

\* Every component, lock file and process of build_sysroot is well typed in
\* every reachable state.
THEOREM TypeCorrect == Spec => []TypeOK
<1>1. Init => TypeOK
  BY InitType
<1>2. TypeOK /\ [Next]_vars => TypeOK'
  BY NextType
<1> QED BY <1>1, <1>2, PTL DEF Spec

-----------------------------------------------------------------------------
(* What a step of p is to the lock.                                         *)
Same(p) == UNCHANGED <<ok, lockfile>> /\ at'[p] = at[p] /\ fd'[p] = fd[p]

\* p is not at a lock, or no longer.
Leaves(p) ==
  /\ UNCHANGED <<ok, lockfile>>
  /\ pc'[p] \notin Locking \cup Opened /\ ~holds'[p]

\* p opens the lock file, which exists or is made.
Opens(p) ==
  /\ pc'[p] = "trylock" /\ ~holds'[p] /\ at'[p] = at[p] /\ UNCHANGED ok
  /\ fd'[p] = lockfile'[Part(p)] /\ fd'[p] # 0
  /\ \A c \in Components : lockfile[c] # 0 => lockfile'[c] = lockfile[c]

Waits(p) == Same(p) /\ pc[p] \in Opened /\ pc'[p] = "wait" /\ ~holds'[p]

Gets(p) ==
  /\ Same(p) /\ pc[p] \in Opened /\ pc'[p] \in {"recheck", "waited"}
  /\ holds'[p] /\ ~Locked(p)

Builds(p) ==
  /\ Same(p) /\ pc[p] \in Opened /\ pc'[p] \in Building
  /\ holds[p] /\ holds'[p] /\ ~ok[Part(p)]

\* p marks the component, or fails to.
Marks(p) ==
  /\ pc[p] \in Building /\ pc'[p] \in {"unlock", "unlock_failed"}
  /\ holds[p] /\ holds'[p] /\ at'[p] = at[p] /\ fd'[p] = fd[p]
  /\ \A c \in Components \ {Part(p)} : ok'[c] = ok[c] /\ lockfile'[c] = lockfile[c]
  /\ ok'[Part(p)] \/ UNCHANGED <<ok, lockfile>>

\* A step of p leaves the rest of the processes alone.
LEMMA Frame ==
  ASSUME TypeOK, NEW p \in Procs, Start(p) \/ Step(p) \/ Kill(p), NEW q \in Procs, q # p
  PROVE  /\ pc'[q] = pc[q] /\ at'[q] = at[q] /\ fd'[q] = fd[q] /\ holds'[q] = holds[q]
         /\ Part(q)' = Part(q)
<1>1. pc'[q] = pc[q] /\ at'[q] = at[q]
  BY Zenon DEF TypeOK, Start, Step, Go, Kill, Check, Open, TryLock, Recheck, Wait, Waited, IOError,
     Prepare, Install, BuildFails, Rename, Finish, Advance, ReturnError, Goto
<1>2. fd'[q] = fd[q] /\ holds'[q] = holds[q]
  BY Zenon DEF TypeOK, Start, Step, Go, Kill, Check, Open, TryLock, Recheck, Wait, Waited, IOError,
     Prepare, Install, BuildFails, Rename, Finish, Release, Unlock
<1> QED BY <1>1, <1>2 DEF Part

\* Where going on and going back lead.
LEMMA AdvanceLeaves ==
  ASSUME TypeOK, NEW p \in Procs, Advance(p) \/ ReturnError(p), ~holds'[p],
         UNCHANGED <<ok, lockfile>>
  PROVE  Leaves(p)
<1>1. pc'[p] \in {"idle", "check"}
  BY DEF TypeOK, Advance, ReturnError, Goto
<1> QED BY <1>1 DEF Leaves, Locking, Opened, Building

\* Every step is one of these.
LEMMA Shapes ==
  ASSUME Forced = {}, ExclInv, NEW p \in Procs, Start(p) \/ Step(p) \/ Kill(p)
  PROVE  Leaves(p) \/ Opens(p) \/ Waits(p) \/ Gets(p) \/ Builds(p) \/ Marks(p)
<1>a. TypeOK /\ (holds[p] <=> pc[p] \in Locking) /\ (pc[p] \in Building => ~ok[Part(p)])
  BY DEF ExclInv, LockInv, UnmarkedInv
<1>b. pc[p] # "idle" => Part(p) \in Components
  BY <1>a, PartType
<1>t. pc \in [Procs -> PCs] /\ holds \in [Procs -> BOOLEAN] /\ fd \in [Procs -> Nat]
      /\ at \in [Procs -> 1..(Len(Parts) + 1)]
  BY <1>a DEF TypeOK
<1>1. CASE Start(p)
  BY <1>1, <1>a, <1>t DEF Start, Goto, Leaves, Locking, Opened, Building, disk
<1>2. CASE Check(p)
  <2>1. ~holds'[p] /\ UNCHANGED <<ok, lockfile>>
    BY <1>2, <1>a DEF Check, Locking, Building, disk
  <2>2. CASE Advance(p)
    BY <1>a, <2>1, <2>2, AdvanceLeaves
  <2>3. CASE Goto(p, "open")
    BY <1>t, <2>1, <2>3 DEF Goto, Leaves, Locking, Opened, Building
  <2> QED BY <1>2, <2>2, <2>3 DEF Check
<1>3. CASE Open(p)
  <2> DEFINE c == Part(p)
  <2>1. /\ UNCHANGED <<ok, at, holds>> /\ pc' = [pc EXCEPT ![p] = "trylock"] /\ pc[p] = "open"
        /\ fd' = [fd EXCEPT ![p] = lockfile'[c]]
    BY <1>3 DEF Open, Goto
  <2>2. /\ lockfile[c] = 0 => lockfile' = [lockfile EXCEPT ![c] = made[c] + 1]
        /\ lockfile[c] # 0 => lockfile' = lockfile
    BY <1>3 DEF Open
  <2>3. lockfile \in [Components -> Nat] /\ made \in [Components -> Nat] /\ c \in Components
    BY <1>a, <1>b, <2>1 DEF TypeOK
  <2>4. lockfile'[c] # 0 /\ \A d \in Components : lockfile[d] # 0 => lockfile'[d] = lockfile[d]
    <3> HIDE DEF c
    <3> QED BY <2>2, <2>3, SMT
  <2>5. ~holds'[p] /\ pc'[p] = "trylock" /\ fd'[p] = lockfile'[c] /\ at'[p] = at[p]
    BY <1>a, <1>t, <2>1 DEF Locking, Building
  <2> QED BY <2>1, <2>4, <2>5 DEF Opens
<1>4. CASE TryLock(p)
  <2>1. /\ pc[p] = "trylock" /\ Same(p) /\ holds'[p] = ~Locked(p)
        /\ pc'[p] = IF Locked(p) THEN "wait" ELSE "recheck"
    BY <1>4, <1>t, Zenon DEF TryLock, Same, Goto, disk
  <2> QED BY <2>1 DEF Waits, Gets, Opened
<1>5. CASE Recheck(p)
  <2>1. CASE UpToDate(p)
    <3>1. ~holds'[p] /\ Advance(p) /\ UNCHANGED <<ok, lockfile>>
      BY <1>5, <1>t, <2>1 DEF Recheck, Release, disk
    <3> QED BY <1>a, <3>1, AdvanceLeaves
  <2>2. CASE ~UpToDate(p)
    BY <1>5, <1>a, <1>t, <2>2 DEF Recheck, UpToDate, Goto, Builds, Same, Opened, Building, Locking, disk
  <2> QED BY <2>1, <2>2
<1>6. CASE Wait(p)
  BY <1>6, <1>t DEF Wait, Goto, Gets, Same, Opened, disk
<1>7. CASE Waited(p)
  <2>1. ~holds'[p] /\ Advance(p) /\ UNCHANGED <<ok, lockfile>>
    BY <1>7, <1>t DEF Waited, Release, disk
  <2> QED BY <1>a, <2>1, AdvanceLeaves
<1>8. CASE IOError(p)
  <2>1. ~holds'[p] /\ ReturnError(p) /\ UNCHANGED <<ok, lockfile>>
    BY <1>8, <1>a DEF IOError, Locking, Building, disk
  <2> QED BY <1>a, <2>1, AdvanceLeaves
<1>9. CASE Prepare(p) \/ Install(p) \/ BuildFails(p)
  <2>1. pc[p] \in Building /\ Same(p) /\ holds'[p] = holds[p] /\ pc'[p] \in Building
    BY <1>9, <1>t DEF Prepare, Install, BuildFails, Building, Same, Goto, disk
  <2> QED BY <1>a, <2>1 DEF Builds, Opened, Locking
<1>10. CASE Rename(p)
  <2> DEFINE c == Part(p)
  <2>1. /\ pc[p] \in Building /\ UNCHANGED <<at, fd, holds>>
        /\ \/ pc' = [pc EXCEPT ![p] = "unlock"] /\ ok' = [ok EXCEPT ![c] = TRUE]
              /\ lockfile' = [lockfile EXCEPT ![c] = 0]
           \/ pc' = [pc EXCEPT ![p] = "unlock_failed"] /\ UNCHANGED <<ok, lockfile>>
    BY <1>10 DEF Rename, Building, Goto
  <2>2. pc'[p] \in {"unlock", "unlock_failed"} /\ holds[p] /\ holds'[p] /\ at'[p] = at[p] /\ fd'[p] = fd[p]
    BY <1>a, <1>t, <2>1 DEF Locking
  <2>3. ok \in [Components -> BOOLEAN] /\ lockfile \in [Components -> Nat] /\ c \in Components
    BY <1>a, <1>b, <2>1 DEF TypeOK, Building
  <2>4. /\ \A d \in Components \ {c} : ok'[d] = ok[d] /\ lockfile'[d] = lockfile[d]
        /\ ok'[c] \/ UNCHANGED <<ok, lockfile>>
    <3> HIDE DEF c
    <3> QED BY <2>1, <2>3
  <2> QED BY <2>1, <2>2, <2>4 DEF Marks
<1>11. CASE Finish(p)
  <2>1. ~holds'[p] /\ (Advance(p) \/ ReturnError(p)) /\ UNCHANGED <<ok, lockfile>>
    BY <1>11, <1>t DEF Finish, Unlock, Release, disk
  <2> QED BY <1>a, <2>1, AdvanceLeaves
<1>12. CASE Kill(p)
  <2>1. ~holds'[p] /\ ReturnError(p) /\ UNCHANGED <<ok, lockfile>>
    BY <1>12, <1>t DEF Kill, Release, disk
  <2> QED BY <1>a, <2>1, AdvanceLeaves
<1> QED BY <1>1, <1>2, <1>3, <1>4, <1>5, <1>6, <1>7, <1>8, <1>9, <1>10, <1>11, <1>12 DEF Step, Go

\* Two builders of a component would have the same lock.
LEMMA ExclMeansOne == ExclInv => OneBuilder
<1> SUFFICES ASSUME ExclInv, NEW p \in Procs, NEW q \in Procs, pc[p] \in Building,
                    pc[q] \in Building, Part(p) = Part(q)
             PROVE  p = q
  BY DEF OneBuilder
<1>1. ~ok[Part(p)] /\ ~ok[Part(q)]
  BY DEF ExclInv, UnmarkedInv
<1>2. fd[p] = fd[q]
  BY <1>1 DEF ExclInv, FileInv, Opened
<1>3. holds[p] /\ holds[q]
  BY DEF ExclInv, LockInv, Locking
<1> QED BY <1>2, <1>3 DEF ExclInv, LockInv

\* Nobody has a lock at the start.
LEMMA InitExcl == Init => ExclInv
<1> SUFFICES ASSUME Init PROVE ExclInv
  OBVIOUS
<1>1. \A p \in Procs : pc[p] = "idle" /\ ~holds[p]
  BY DEF Init
<1>2. LockInv /\ FileInv /\ UnmarkedInv
  BY <1>1 DEF LockInv, FileInv, UnmarkedInv, Locking, Opened, Building
<1> QED BY <1>2, InitType DEF ExclInv

\* Every step keeps the locks exclusive and the lock file of an unmarked
\* component in place.
LEMMA NextExcl == ASSUME Forced = {} PROVE ExclInv /\ [Next]_vars => ExclInv'
<1> SUFFICES ASSUME ExclInv, [Next]_vars PROVE ExclInv'
  OBVIOUS
<1>t. TypeOK /\ TypeOK'
  BY NextType DEF ExclInv
<1>1. CASE UNCHANGED vars
  <2>1. LockInv' /\ FileInv' /\ UnmarkedInv'
    BY <1>1 DEF ExclInv, LockInv, FileInv, UnmarkedInv, Part, vars, disk
  <2> QED BY <1>t, <2>1 DEF ExclInv
<1>2. ASSUME NEW p \in Procs, Start(p) \/ Step(p) \/ Kill(p) PROVE ExclInv'
  <2>a. \A q \in Procs \ {p} :
          /\ pc'[q] = pc[q] /\ at'[q] = at[q] /\ fd'[q] = fd[q] /\ holds'[q] = holds[q]
          /\ Part(q)' = Part(q)
    BY <1>2, <1>t, Frame
  <2>b. at'[p] = at[p] => Part(p)' = Part(p)
    BY DEF Part
  <2>c. \A q \in Procs : pc[q] \in Opened => Part(q) \in Components
    BY <1>t, PartType DEF Opened, Building
  <2>s. Leaves(p) \/ Opens(p) \/ Waits(p) \/ Gets(p) \/ Builds(p) \/ Marks(p)
    BY <1>2, Shapes
  <2>i. LockInv /\ FileInv /\ UnmarkedInv
    BY DEF ExclInv
  <2>1. LockInv'
    <3>1. holds'[p] <=> pc'[p] \in Locking
      BY <2>s DEF Leaves, Opens, Waits, Gets, Builds, Marks, Locking, Building
    <3>2. ASSUME NEW q \in Procs, q # p, holds'[p], holds'[q], Part(p)' = Part(q)',
                 fd'[p] = fd'[q]
          PROVE  FALSE
      <4>1. at'[p] = at[p] /\ fd'[p] = fd[p] /\ (holds[p] \/ ~Locked(p))
        BY <2>s, <3>2 DEF Leaves, Opens, Waits, Gets, Builds, Marks, Same
      <4>2. holds[q] /\ Part(q) = Part(p) /\ fd[q] = fd[p]
        BY <2>a, <2>b, <3>2, <4>1
      <4>3. holds[p]
        BY <4>1, <4>2, <3>2 DEF Locked
      <4> QED BY <2>i, <3>2, <4>2, <4>3 DEF LockInv
    <3> QED BY <2>a, <2>i, <3>1, <3>2 DEF LockInv
  <2>2. FileInv'
    <3>1. ASSUME NEW q \in Procs, q # p, pc'[q] \in Opened, ~ok'[Part(q)']
          PROVE  fd'[q] # 0 /\ lockfile'[Part(q)'] = fd'[q]
      <4>1. pc[q] \in Opened /\ Part(q) \in Components /\ Part(q)' = Part(q) /\ fd'[q] = fd[q]
        BY <2>a, <2>c, <3>1
      <4>2. ~ok[Part(q)] /\ (lockfile[Part(q)] # 0 => lockfile'[Part(q)] = lockfile[Part(q)])
        BY <2>s, <3>1, <4>1 DEF Leaves, Opens, Waits, Gets, Builds, Marks, Same
      <4> QED BY <2>i, <4>1, <4>2 DEF FileInv
    <3>2. ASSUME pc'[p] \in Opened, ~ok'[Part(p)'] PROVE fd'[p] # 0 /\ lockfile'[Part(p)'] = fd'[p]
      <4>1. CASE Opens(p)
        BY <2>b, <4>1 DEF Opens
      <4>2. CASE Waits(p) \/ Gets(p) \/ Builds(p)
        <5>1. Same(p) /\ pc[p] \in Opened
          BY <4>2 DEF Waits, Gets, Builds
        <5> QED BY <2>b, <2>i, <3>2, <5>1 DEF Same, FileInv
      <4>3. ~Leaves(p) /\ ~Marks(p)
        BY <3>2 DEF Leaves, Marks, Opened, Building
      <4> QED BY <2>s, <4>1, <4>2, <4>3
    <3> QED BY <3>1, <3>2 DEF FileInv
  <2>3. UnmarkedInv'
    <3>1. ASSUME NEW q \in Procs, q # p, pc'[q] \in Building PROVE ~ok'[Part(q)']
      <4>1. pc[q] \in Building /\ Part(q) \in Components /\ Part(q)' = Part(q) /\ ~ok[Part(q)]
        BY <2>a, <2>c, <2>i, <3>1 DEF UnmarkedInv, Opened
      <4>2. Marks(p) => Part(q) # Part(p)
        BY <3>1, <4>1, ExclMeansOne DEF Marks, OneBuilder
      <4> QED BY <2>s, <4>1, <4>2 DEF Leaves, Opens, Waits, Gets, Builds, Marks, Same
    <3>2. ASSUME pc'[p] \in Building PROVE ~ok'[Part(p)']
      <4>1. Builds(p)
        BY <2>s, <3>2 DEF Leaves, Opens, Waits, Gets, Marks, Opened, Building
      <4> QED BY <2>b, <4>1 DEF Builds, Same
    <3> QED BY <3>1, <3>2 DEF UnmarkedInv
  <2> QED BY <1>t, <2>1, <2>2, <2>3 DEF ExclInv
<1> QED BY <1>1, <1>2 DEF Next

\* Without --force one process at a time builds a component, although the
\* lock file is renamed while others have it open.
THEOREM BuildersExclude == ASSUME Forced = {} PROVE Spec => []OneBuilder
<1>1. Init => ExclInv
  BY InitExcl
<1>2. ExclInv /\ [Next]_vars => ExclInv'
  BY NextExcl
<1>3. ExclInv => OneBuilder
  BY ExclMeansOne
<1> QED BY <1>1, <1>2, <1>3, PTL DEF Spec

-----------------------------------------------------------------------------
(* What the marks say.  Components are marked in order, because a process   *)
(* gets past one only when it is marked; so nobody builds libc, and empties *)
(* the libraries of Dummies, once one of them is marked or being built.     *)
UnlockMarked == \A p \in Procs : pc[p] = "unlock" => ok[Part(p)]
MarkedIsPart == \A c \in Components : ok[c] => \E j \in 1..Len(Parts) : Parts[j] = c

PassedMarked ==
  \A p \in Procs : (pc[p] # "idle" \/ result[p] = "ok") =>
    \A i \in 1..(at[p] - 1) : ok[Parts[i]]
MarkedInOrder == \A i, j \in 1..Len(Parts) : i < j /\ ok[Parts[j]] => ok[Parts[i]]
MarkedBuilt == \A c \in Components : ok[c] => product[c] = "built"
RenameBuilt == \A p \in Procs : pc[p] = "rename" => product[Part(p)] = "built"

MarkInv ==
  /\ UnlockMarked /\ MarkedIsPart
  /\ ~misled => PassedMarked /\ MarkedInOrder /\ MarkedBuilt /\ RenameBuilt

\* Nobody builds libc when one of its dummies is marked, or a process is there.
LEMMA LibcFirst ==
  ASSUME ExclInv, MarkInv, ~misled, NEW p \in Procs, pc[p] \in Building, Part(p) = "libc",
         NEW d \in Dummies
  PROVE  ~ok[d] /\ \A q \in Procs : pc[q] # "idle" => Part(q) # d
<1> DEFINE n == Len(Parts)
<1>1. at[p] \in 1..n /\ Parts[at[p]] = "libc" /\ ~ok[Parts[at[p]]]
  BY PartType DEF ExclInv, UnmarkedInv, Building, Part
<1>2. d # "libc" /\ d \in Components
  BY SysrootAssumptions
<1>3. n \in Nat
  BY SysrootAssumptions
<1>4. ASSUME NEW j \in 1..n, Parts[j] = d PROVE j > at[p]
  <2>1. ~(j < at[p])
    BY <1>1, <1>4, PartsInOrder
  <2>2. j # at[p]
    BY <1>1, <1>2, <1>4
  <2> HIDE DEF n
  <2> QED BY <1>1, <1>3, <2>1, <2>2
<1>5. ~ok[d]
  <2> SUFFICES ASSUME ok[d] PROVE FALSE
    OBVIOUS
  <2>1. PICK j \in 1..n : Parts[j] = d
    BY <1>2 DEF MarkInv, MarkedIsPart
  <2>2. at[p] < j
    BY <1>1, <1>3, <1>4, <2>1
  <2> QED BY <1>1, <2>1, <2>2 DEF MarkInv, MarkedInOrder
<1>6. ASSUME NEW q \in Procs, pc[q] # "idle", Part(q) = d PROVE FALSE
  <2>1. at[q] \in 1..n /\ Parts[at[q]] = d
    BY <1>6, PartType DEF ExclInv, Part
  <2>2. at[q] > at[p]
    BY <1>4, <2>1
  <2>3. at[p] \in 1..(at[q] - 1)
    <3> HIDE DEF n
    <3> QED BY <1>1, <1>3, <2>1, <2>2
  <2> QED BY <1>1, <1>6, <2>3 DEF MarkInv, PassedMarked
<1> QED BY <1>5, <1>6

\* A step changes the library only of a component that is not marked and that
\* nobody else is building.
LEMMA ProductKept ==
  ASSUME ExclInv, MarkInv, ~misled, NEW p \in Procs, Start(p) \/ Step(p) \/ Kill(p)
  PROVE  /\ \A c \in Components : ok[c] => product'[c] = product[c]
         /\ \A q \in Procs \ {p} : pc[q] \in Building => product'[Part(q)] = product[Part(q)]
<1>t. TypeOK
  BY DEF ExclInv
<1>1. CASE UNCHANGED product
  BY <1>1
<1>2. CASE pc[p] \in Building /\ (Prepare(p) \/ Install(p))
  <2>1. Part(p) \in Components /\ ~ok[Part(p)]
    BY <1>t, <1>2, PartType DEF Building, ExclInv, UnmarkedInv
  <2>2. \A q \in Procs \ {p} : pc[q] \in Building => Part(q) # Part(p) /\ Part(q) \in Components
    BY <1>t, <1>2, ExclMeansOne, PartType DEF OneBuilder, Building
  <2>3. \A d \in Components : d # Part(p) /\ (Part(p) = "libc" => d \notin Dummies) => product'[d] = product[d]
    BY <1>2, <1>t, <2>1 DEF Prepare, Install, TypeOK
  <2>4. ASSUME Part(p) = "libc", NEW d \in Dummies
        PROVE  ~ok[d] /\ \A q \in Procs : pc[q] # "idle" => Part(q) # d
    BY <1>2, <2>4, LibcFirst
  <2>5. ASSUME NEW c \in Components, ok[c] PROVE product'[c] = product[c]
    BY <2>1, <2>3, <2>4, <2>5
  <2>6. ASSUME NEW q \in Procs \ {p}, pc[q] \in Building PROVE product'[Part(q)] = product[Part(q)]
    <3>1. pc[q] # "idle"
      BY <2>6 DEF Building
    <3> QED BY <2>2, <2>3, <2>4, <2>6, <3>1
  <2> QED BY <2>5, <2>6
<1>3. CASE ~(pc[p] \in Building /\ (Prepare(p) \/ Install(p)))
  <2>1. UNCHANGED product
    BY <1>3 DEF Start, Step, Go, Kill, Check, Open, TryLock, Recheck, Wait, Waited, IOError, Prepare,
       Install, BuildFails, Rename, Finish, Building, disk
  <2> QED BY <1>1, <2>1
<1> QED BY <1>2, <1>3

\* Only a build that has installed the library makes a mark.
LEMMA OkStep ==
  ASSUME TypeOK, NEW p \in Procs, Start(p) \/ Step(p) \/ Kill(p)
  PROVE  \/ UNCHANGED ok /\ pc'[p] # "unlock"
         \/ /\ pc[p] = "rename" /\ pc'[p] = "unlock" /\ ok' = [ok EXCEPT ![Part(p)] = TRUE]
            /\ UNCHANGED <<product, at, result, misled>>
<1>t. pc \in [Procs -> PCs]
  BY DEF TypeOK
<1>1. CASE Rename(p)
  BY <1>1, <1>t DEF Rename, Succeeded, Goto
<1>2. CASE Check(p) \/ Recheck(p) \/ Waited(p) \/ IOError(p) \/ Finish(p) \/ Kill(p)
  BY <1>2, <1>t DEF Check, Recheck, Waited, IOError, Finish, Kill, Advance, ReturnError, Goto, disk
<1>3. CASE Start(p) \/ Open(p) \/ TryLock(p) \/ Wait(p) \/ Prepare(p) \/ Install(p) \/ BuildFails(p)
  BY <1>3, <1>t DEF Start, Open, TryLock, Wait, Prepare, Install, BuildFails, Goto, disk
<1> QED BY <1>1, <1>2, <1>3 DEF Step, Go

\* Where a step leads p: to the start, back, nowhere, or past a marked component.
LEMMA PassStep ==
  ASSUME TypeOK, UnlockMarked, Forced = {}, ~misled', NEW p \in Procs,
         Start(p) \/ Step(p) \/ Kill(p)
  PROVE  \/ at'[p] = 1
         \/ pc'[p] = "idle" /\ result'[p] = "error"
         \/ pc[p] # "idle" /\ at'[p] = at[p]
         \/ pc[p] # "idle" /\ at'[p] = at[p] + 1 /\ ok[Part(p)]
<1>t. pc \in [Procs -> PCs] /\ at \in [Procs -> 1..(Len(Parts) + 1)]
      /\ result \in [Procs -> {"none", "ok", "error"}]
  BY DEF TypeOK
<1>1. CASE ReturnError(p)
  BY <1>1, <1>t DEF ReturnError, Goto
<1>2. CASE Start(p)
  BY <1>2, <1>t DEF Start
<1>3. CASE pc[p] # "idle" /\ UNCHANGED at
  BY <1>3
<1>4. CASE pc[p] # "idle" /\ Advance(p) /\ ok[Part(p)]
  BY <1>4, <1>t DEF Advance
<1>5. CASE Check(p) \/ Recheck(p)
  BY <1>3, <1>4, <1>5 DEF Check, Recheck, UpToDate
<1>6. CASE Waited(p)
  BY <1>4, <1>6 DEF Waited
<1>7. CASE Finish(p)
  BY <1>1, <1>4, <1>7 DEF Finish, UnlockMarked
<1>8. CASE IOError(p) \/ Kill(p)
  BY <1>1, <1>8 DEF IOError, Kill
<1>9. CASE Open(p) \/ TryLock(p) \/ Wait(p) \/ Prepare(p) \/ Install(p) \/ BuildFails(p) \/ Rename(p)
  BY <1>3, <1>9 DEF Open, TryLock, Wait, Prepare, Install, BuildFails, Rename
<1> QED BY <1>2, <1>5, <1>6, <1>7, <1>8, <1>9 DEF Step, Go

\* p is about to make the mark only after it has installed the library; nobody
\* else's result changes, and what was misled stays so.
LEMMA RestOfStep ==
  ASSUME TypeOK, NEW p \in Procs, Start(p) \/ Step(p) \/ Kill(p)
  PROVE  /\ misled => misled'
         /\ \A q \in Procs \ {p} : result'[q] = result[q]
         /\ pc'[p] = "rename" => at'[p] = at[p] /\ product'[Part(p)] = "built"
<1>1. misled => misled'
  BY DEF Start, Step, Go, Kill, Check, Open, TryLock, Recheck, Wait, Waited, IOError, Prepare,
     Install, BuildFails, Rename, Finish
<1>2. \A q \in Procs \ {p} : result'[q] = result[q]
  BY Zenon DEF TypeOK, Start, Step, Go, Kill, Check, Open, TryLock, Recheck, Wait, Waited, IOError,
     Prepare, Install, BuildFails, Rename, Finish, Advance, ReturnError
<1>3. ASSUME pc'[p] = "rename" PROVE at'[p] = at[p] /\ product'[Part(p)] = "built"
  <2>t. pc \in [Procs -> PCs]
    BY DEF TypeOK
  <2>1. Install(p)
    <3>1. ~(Check(p) \/ Recheck(p) \/ Waited(p) \/ IOError(p) \/ Finish(p) \/ Kill(p))
      BY <1>3, <2>t DEF Check, Recheck, Waited, IOError, Finish, Kill, Advance, ReturnError, Goto
    <3>2. ~(Start(p) \/ Open(p) \/ TryLock(p) \/ Wait(p) \/ Prepare(p) \/ BuildFails(p) \/ Rename(p))
      BY <1>3, <2>t DEF Start, Open, TryLock, Wait, Prepare, BuildFails, Rename, Goto
    <3> QED BY <3>1, <3>2 DEF Step, Go
  <2>2. Part(p) \in Components
    BY <2>1, PartType DEF Install
  <2> QED BY <2>1, <2>2 DEF Install, TypeOK
<1> QED BY <1>1, <1>2, <1>3

\* At the start nothing is marked.
LEMMA InitMark == Init => MarkInv
<1> SUFFICES ASSUME Init PROVE MarkInv
  OBVIOUS
<1>1. /\ \A c \in Components : ~ok[c]
      /\ \A p \in Procs : pc[p] = "idle" /\ result[p] = "none"
  BY DEF Init
<1>2. \A i \in 1..Len(Parts) : Parts[i] \in Components
  BY SysrootAssumptions
<1> QED BY <1>1, <1>2 DEF MarkInv, UnlockMarked, MarkedIsPart, PassedMarked, MarkedInOrder,
           MarkedBuilt, RenameBuilt

\* Every step keeps the marks true and in order.
LEMMA NextMark == ASSUME Forced = {} PROVE ExclInv /\ MarkInv /\ [Next]_vars => MarkInv'
<1> SUFFICES ASSUME ExclInv, MarkInv, [Next]_vars PROVE MarkInv'
  OBVIOUS
<1>t. TypeOK /\ TypeOK'
  BY NextType DEF ExclInv
<1>1. CASE UNCHANGED vars
  BY <1>1 DEF MarkInv, UnlockMarked, MarkedIsPart, PassedMarked, MarkedInOrder, MarkedBuilt,
     RenameBuilt, Part, vars, disk
<1>2. ASSUME NEW p \in Procs, Start(p) \/ Step(p) \/ Kill(p) PROVE MarkInv'
  <2> DEFINE n == Len(Parts)
  <2>n. n \in Nat /\ \A i \in 1..n : Parts[i] \in Components
    BY SysrootAssumptions
  <2>p. pc[p] # "idle" => at[p] \in 1..n /\ Part(p) \in Components
    BY <1>t, PartType
  <2>o. \/ UNCHANGED ok /\ pc'[p] # "unlock"
        \/ /\ pc[p] = "rename" /\ pc'[p] = "unlock" /\ ok' = [ok EXCEPT ![Part(p)] = TRUE]
           /\ UNCHANGED <<product, at, result, misled>>
    BY <1>t, <1>2, OkStep
  <2>k. ok \in [Components -> BOOLEAN] /\ \A c \in Components : ok[c] => ok'[c]
    BY <1>t, <2>o DEF TypeOK
  <2>f. \A q \in Procs \ {p} : pc'[q] = pc[q] /\ at'[q] = at[q] /\ Part(q)' = Part(q)
    BY <1>2, <1>t, Frame
  <2>r. /\ misled => misled'
        /\ \A q \in Procs \ {p} : result'[q] = result[q]
        /\ pc'[p] = "rename" => at'[p] = at[p] /\ product'[Part(p)] = "built"
    BY <1>t, <1>2, RestOfStep
  <2>1. UnlockMarked'
    <3>1. ASSUME NEW q \in Procs, q # p, pc'[q] = "unlock" PROVE ok'[Part(q)']
      <4>1. pc[q] = "unlock" /\ Part(q)' = Part(q) /\ Part(q) \in Components
        BY <1>t, <2>f, <3>1, PartType
      <4> QED BY <2>k, <4>1 DEF MarkInv, UnlockMarked
    <3>2. ASSUME pc'[p] = "unlock" PROVE ok'[Part(p)']
      BY <2>k, <2>o, <2>p, <3>2 DEF Part
    <3> QED BY <3>1, <3>2 DEF UnlockMarked
  <2>2. MarkedIsPart'
    <3> SUFFICES ASSUME NEW c \in Components, ok'[c], ~ok[c] PROVE \E j \in 1..n : Parts[j] = c
      BY DEF MarkInv, MarkedIsPart
    <3>1. c = Part(p) /\ pc[p] # "idle"
      BY <2>k, <2>o
    <3> QED BY <2>p, <3>1 DEF Part
  <2>3. ASSUME ~misled' PROVE PassedMarked' /\ MarkedInOrder' /\ MarkedBuilt' /\ RenameBuilt'
    <3>i. ~misled /\ UnlockMarked /\ PassedMarked /\ MarkedInOrder /\ MarkedBuilt /\ RenameBuilt
      BY <2>3, <2>r DEF MarkInv
    <3>q. /\ \A c \in Components : ok[c] => product'[c] = product[c]
          /\ \A q \in Procs \ {p} : pc[q] \in Building => product'[Part(q)] = product[Part(q)]
      BY <1>2, <3>i, ProductKept
    <3>1. PassedMarked'
      <4>1. ASSUME NEW q \in Procs, q # p, pc'[q] # "idle" \/ result'[q] = "ok",
                   NEW i \in 1..(at'[q] - 1)
            PROVE  ok'[Parts[i]]
        <5>1. at[q] \in 1..(n + 1) /\ at'[q] = at[q]
          BY <1>t, <2>f, <4>1 DEF TypeOK
        <5>2. ok[Parts[i]]
          BY <2>f, <2>r, <3>i, <4>1, <5>1 DEF PassedMarked
        <5>3. i \in 1..n
          <6> HIDE DEF n
          <6> QED BY <2>n, <5>1
        <5> QED BY <2>k, <2>n, <5>2, <5>3
      <4>2. ASSUME pc'[p] # "idle" \/ result'[p] = "ok", NEW i \in 1..(at'[p] - 1)
            PROVE  ok'[Parts[i]]
        <5>1. \/ at'[p] = 1
              \/ pc'[p] = "idle" /\ result'[p] = "error"
              \/ pc[p] # "idle" /\ at'[p] = at[p]
              \/ pc[p] # "idle" /\ at'[p] = at[p] + 1 /\ ok[Part(p)]
          BY <1>t, <1>2, <2>3, <3>i, PassStep
        <5>x. at'[p] # 1
          BY <4>2, SMT
        <5>y. ~(pc'[p] = "idle" /\ result'[p] = "error")
          BY <4>2
        <5>2. pc[p] # "idle" /\ (at'[p] = at[p] \/ (at'[p] = at[p] + 1 /\ ok[Part(p)]))
          BY <5>1, <5>x, <5>y
        <5>3. i \in 1..n /\ (i \in 1..(at[p] - 1) \/ (i = at[p] /\ ok[Part(p)]))
          <6> HIDE DEF n
          <6> QED BY <2>n, <2>p, <4>2, <5>2
        <5>4. ok[Parts[i]]
          BY <3>i, <5>2, <5>3 DEF PassedMarked, Part
        <5> QED BY <2>k, <2>n, <5>3, <5>4
      <4> QED BY <4>1, <4>2 DEF PassedMarked
    <3>2. MarkedInOrder'
      <4> SUFFICES ASSUME NEW i \in 1..n, NEW j \in 1..n, i < j, ok'[Parts[j]] PROVE ok'[Parts[i]]
        BY DEF MarkedInOrder
      <4>1. CASE ok[Parts[j]]
        BY <2>k, <2>n, <3>i, <4>1 DEF MarkedInOrder
      <4>2. CASE ~ok[Parts[j]]
        <5>1. pc[p] = "rename" /\ Parts[j] = Parts[at[p]]
          BY <2>k, <2>n, <2>o, <2>p, <4>2 DEF Part
        <5>2. j = at[p]
          <6>1. at[p] \in 1..n /\ ~(j < at[p]) /\ ~(at[p] < j)
            BY <2>p, <5>1, PartsInOrder
          <6> HIDE DEF n
          <6> QED BY <2>n, <6>1
        <5>3. i \in 1..(at[p] - 1)
          <6> HIDE DEF n
          <6> QED BY <2>n, <5>2
        <5>4. ok[Parts[i]]
          BY <3>i, <5>1, <5>3 DEF PassedMarked
        <5> QED BY <2>k, <2>n, <5>4
      <4> QED BY <4>1, <4>2
    <3>3. MarkedBuilt'
      <4> SUFFICES ASSUME NEW c \in Components, ok'[c] PROVE product'[c] = "built"
        BY DEF MarkedBuilt
      <4>1. CASE ok[c]
        BY <3>i, <3>q, <4>1 DEF MarkedBuilt
      <4>2. CASE ~ok[c]
        BY <2>k, <2>o, <3>i, <4>2 DEF RenameBuilt
      <4> QED BY <4>1, <4>2
    <3>4. RenameBuilt'
      <4>1. ASSUME NEW q \in Procs, q # p, pc'[q] = "rename" PROVE product'[Part(q)'] = "built"
        BY <2>f, <3>i, <3>q, <4>1 DEF RenameBuilt, Building
      <4>2. ASSUME pc'[p] = "rename" PROVE product'[Part(p)'] = "built"
        BY <2>r, <4>2 DEF Part
      <4> QED BY <4>1, <4>2 DEF RenameBuilt
    <3> QED BY <3>1, <3>2, <3>3, <3>4
  <2> QED BY <2>1, <2>2, <2>3 DEF MarkInv
<1> QED BY <1>1, <1>2 DEF Next

\* Without --force, and as long as no process went on without a component it
\* had waited for, a component that is marked .ok is completely installed,
\* whoever failed or was killed.
THEOREM MarksAreTrue == ASSUME Forced = {} PROVE Spec => []MarkedMeansBuilt
<1>1. Init => ExclInv /\ MarkInv
  BY InitExcl, InitMark
<1>2. ExclInv /\ MarkInv /\ [Next]_vars => ExclInv' /\ MarkInv'
  BY NextExcl, NextMark
<1>3. ExclInv /\ MarkInv => MarkedMeansBuilt
  BY DEF MarkInv, MarkedBuilt, MarkedMeansBuilt
<1> QED BY <1>1, <1>2, <1>3, PTL DEF Spec

\* Under the same conditions a process gets past a component, and returns 0,
\* only when it is there.
THEOREM PassingIsSafe == ASSUME Forced = {} PROVE Spec => []PassedMeansBuiltIfNotMisled
<1>1. Init => ExclInv /\ MarkInv
  BY InitExcl, InitMark
<1>2. ExclInv /\ MarkInv /\ [Next]_vars => ExclInv' /\ MarkInv'
  BY NextExcl, NextMark
<1>3. ExclInv /\ MarkInv => PassedMeansBuiltIfNotMisled
  <2> SUFFICES ASSUME ExclInv, MarkInv, ~misled, NEW p \in Procs,
                      pc[p] # "idle" \/ result[p] = "ok", NEW i \in 1..(at[p] - 1)
               PROVE  product[Parts[i]] = "built"
    BY DEF PassedMeansBuiltIfNotMisled, PassedMeansBuilt
  <2>1. ok[Parts[i]]
    BY DEF MarkInv, PassedMarked
  <2>2. Parts[i] \in Components
    <3> DEFINE n == Len(Parts)
    <3>1. n \in Nat /\ at[p] \in 1..(n + 1)
      BY SysrootAssumptions DEF ExclInv, TypeOK
    <3>2. i \in 1..n
      <4> HIDE DEF n
      <4> QED BY <3>1
    <3> QED BY <3>2, SysrootAssumptions
  <2> QED BY <2>1, <2>2 DEF MarkInv, MarkedBuilt
<1> QED BY <1>1, <1>2, <1>3, PTL DEF Spec

\* Under the same conditions no step writes over a library that is marked.
THEOREM MarksAreFinal == ASSUME Forced = {} PROVE Spec => MarkedIsFinal
<1>1. Init => ExclInv /\ MarkInv
  BY InitExcl, InitMark
<1>2. ExclInv /\ MarkInv /\ [Next]_vars => ExclInv' /\ MarkInv'
  BY NextExcl, NextMark
<1>3. ExclInv /\ MarkInv /\ [Next]_vars =>
        [~misled' => \A c \in Components : ok[c] => product'[c] = product[c]]_vars
  <2> SUFFICES ASSUME ExclInv, MarkInv, NEW p \in Procs, Start(p) \/ Step(p) \/ Kill(p), ~misled'
               PROVE  \A c \in Components : ok[c] => product'[c] = product[c]
    BY DEF Next
  <2>1. ~misled
    BY RestOfStep DEF ExclInv
  <2> QED BY <2>1, ProductKept
<1> QED BY <1>1, <1>2, <1>3, PTL DEF Spec, MarkedIsFinal
=============================================================================
