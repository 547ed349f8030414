---------------------------- MODULE BuildProofs -----------------------------
(***************************************************************************)
(* Proofs about PkgLoad for any packages and imports, any number of        *)
(* workers and any length of the work channel.                             *)
(*                                                                         *)
(* Whoever has acquired a package is one of: a frame, a frame about to     *)
(* submit it to the pool, or a job of the pool; and only one (HoldersOK).  *)
(* The rest of the invariant says what a frame that has come so far may    *)
(* rely on (FramesOK) and how the packages that are loaded can be ordered  *)
(* (OkClosed).                                                             *)
(***************************************************************************)
EXTENDS PkgLoad, TLAPS

Depth(t) == Len(stack[t])
FrameAt(t, n) == stack[t][n]

\* The frame at the bottom of the main thread's stack is build_toplevel_pkg's.
TopLevel(t, n) == t = Main /\ n = 1

Metas == {"mload", "msubmit", "mwait"}
Imports1 == {"bload", "bsubmit", "bwait"}
Submitting == {"msubmit", "bsubmit"}
ImportsDone == {"finish", "api", "ok"}
Early == {"build", "parse", "imports"}
OpenBuild == Imports1 \cup {"parse", "imports", "finish", "fail"}

\* What a frame knows of its imports.
Knows(f) ==
  LET imps == Imports(f.pkg) IN
  /\ f.at \in Metas \cup Imports1 => f.i \in 1..(Len(imps) + 1)
  /\ f.at \in Submitting => ~Sync /\ f.i < Len(imps)
  /\ f.at \in {"mwait", "bwait"} => \A j \in 1..(f.i - 1) : fut[imps[j]] = "ok"
  /\ f.at \in ImportsDone => \A j \in 1..Len(imps) : fut[imps[j]] = "ok"

\* What it does: a load of Root by an import cycle never comes to its end.
Role(t, n) ==
  LET f == FrameAt(t, n) IN
  IF TopLevel(t, n)
  THEN f.pkg = Root /\ f.at \notin Metas \cup {"load", "api"}
  ELSE /\ fut[f.pkg] = "loading"
       /\ f.pkg = Root => f.at \notin Metas \cup ImportsDone

\* A frame that is not on top waits for the load of an import above it.
Below(t, n) ==
  LET f == FrameAt(t, n) IN
  n < Depth(t) => /\ f.at \in {"mload", "bload"} /\ f.i > 1
                  /\ Imports(f.pkg)[f.i - 1] = FrameAt(t, n + 1).pkg

FramesOK ==
  /\ \A t \in Threads : \A n \in 1..Depth(t) : Knows(FrameAt(t, n)) /\ Role(t, n) /\ Below(t, n)
  /\ exit = "running" <=> Depth(Main) > 0
  /\ onDisk[Root] = "stale"

\* Who has acquired a package: a frame that loads it, a frame that is about to
\* submit it, a job.  h is <<"frame", t, n>>, <<"submit", t, 0>> or <<"job", Main, k>>.
Submits(t) == stack[t] # <<>> /\ Top(t).at \in Submitting
Submitted(t) == Imports(Top(t).pkg)[Top(t).i]
Holders == {"frame", "submit", "job"} \X Threads \X Nat

FrameHolds(t, n, p) == n \in 1..Depth(t) /\ ~TopLevel(t, n) /\ FrameAt(t, n).pkg = p
SubmitHolds(t, p) == Submits(t) /\ Submitted(t) = p
JobHolds(k, p) == k \in 1..Len(queue) /\ queue[k][1] = "load" /\ queue[k][2] = p

Holds(h, p) ==
  \/ h[1] = "frame" /\ FrameHolds(h[2], h[3], p)
  \/ h[1] = "submit" /\ h[3] = 0 /\ SubmitHolds(h[2], p)
  \/ h[1] = "job" /\ h[2] = Main /\ JobHolds(h[3], p)

HoldersOK ==
  /\ \A h \in Holders, p \in Pkgs : Holds(h, p) => fut[p] = "loading"
  /\ \A h, g \in Holders, p \in Pkgs : Holds(h, p) /\ Holds(g, p) => h = g

\* Packages that were loaded.
Loaded1 == {p \in Pkgs : fut[p] = "ok"}

\* Packages that Root needs, itself only if it is part of a cycle.
Demanded ==
  {p \in Pkgs : \A S \in SUBSET Pkgs : Range(Imports(Root)) \subseteq S /\ Closed(S) => p \in S}

\* Nothing is acquired but what Root needs, and nothing before its own imports are known.
DemandOK ==
  /\ \A p \in Pkgs : fut[p] # "none" => p \in Demanded
  /\ Depth(Main) > 0 /\ FrameAt(Main, 1).at \in Early =>
       \A p \in Pkgs : fut[p] = "none"

\* What is loaded stands on what is loaded, and can be ordered.
OkClosed ==
  /\ fut[Root] # "ok" /\ Closed(Loaded1)
  /\ \A S \in SUBSET Loaded1 : S # {} => \E p \in S : Range(Imports(p)) \cap S = {}

-----------------------------------------------------------------------------
\* What is built does not change, and is well formed.
LEMMA ProjectFacts ==
  ASSUME LoadTypeOK
  PROVE  /\ project.imports \in [Pkgs -> Seq(Pkgs)] /\ project.units \in [Pkgs -> Nat \ {0}]
         /\ project.workers \subseteq Workers
         /\ \A p \in Pkgs : /\ Imports(p) \in Seq(Pkgs) /\ Len(Imports(p)) \in Nat
                            /\ \A j \in 1..Len(Imports(p)) : Imports(p)[j] \in Pkgs
         /\ Main \in Threads /\ Root \in Pkgs /\ Main \notin project.workers
<1>1. project \in Projects
  BY DEF LoadTypeOK
<1>2. /\ project.imports \in [Pkgs -> Seq(Pkgs)] /\ project.units \in [Pkgs -> Nat \ {0}]
      /\ project.workers \subseteq Workers
  BY <1>1, LoadAssumptions
<1>3. ASSUME NEW p \in Pkgs
      PROVE  /\ Imports(p) \in Seq(Pkgs) /\ Len(Imports(p)) \in Nat
             /\ \A j \in 1..Len(Imports(p)) : Imports(p)[j] \in Pkgs
  BY <1>2 DEF Imports
<1> QED BY <1>2, <1>3, LoadAssumptions DEF Threads

LEMMA DepthFacts ==
  ASSUME LoadTypeOK, NEW t \in Threads
  PROVE  Depth(t) \in Nat /\ (Depth(t) = 0 <=> stack[t] = <<>>)
BY DEF LoadTypeOK, Depth

\* The innermost frame.
LEMMA TopFacts ==
  ASSUME LoadTypeOK, NEW t \in Threads, stack[t] # <<>>
  PROVE  /\ Depth(t) \in Nat \ {0} /\ Depth(t) \in 1..Depth(t) /\ stack[t] \in Seq(Frames)
         /\ Top(t) = FrameAt(t, Depth(t)) /\ Top(t) \in Frames
         /\ Top(t).pkg \in Pkgs /\ Top(t).at \in LoadPCs /\ Top(t).i \in Nat
<1>1. stack[t] \in Seq(Frames)
  BY DEF LoadTypeOK
<1>2. Depth(t) \in Nat \ {0}
  BY <1>1 DEF Depth
<1>3. Top(t) = FrameAt(t, Depth(t))
  BY DEF Top, FrameAt, Depth
<1>4. FrameAt(t, Depth(t)) \in Frames
  BY <1>1, <1>2 DEF FrameAt, Depth
<1> QED BY <1>1, <1>2, <1>3, <1>4 DEF Frames

\* A step that changes t's innermost frame only.
MovesTop(t, l, i) ==
  /\ \A u \in Threads : Depth(u)' = Depth(u)
  /\ \A u \in Threads : \A n \in 1..Depth(u) :
       FrameAt(u, n)' = IF u = t /\ n = Depth(t) THEN [pkg |-> Top(t).pkg, at |-> l, i |-> i]
                                                 ELSE FrameAt(u, n)

LEMMA MovedFacts ==
  ASSUME LoadTypeOK, NEW t \in Threads, stack[t] # <<>>, NEW l \in LoadPCs, NEW i \in Nat
  PROVE  /\ Moved(t, l, i) \in Seq(Frames) /\ Len(Moved(t, l, i)) = Depth(t)
         /\ \A n \in 1..Depth(t) : Moved(t, l, i)[n] =
              IF n = Depth(t) THEN [pkg |-> Top(t).pkg, at |-> l, i |-> i] ELSE FrameAt(t, n)
<1> DEFINE f == [pkg |-> Top(t).pkg, at |-> l, i |-> i]
<1>1. f \in Frames
  BY TopFacts DEF Frames
<1>2. stack[t] \in Seq(Frames) /\ Depth(t) \in Nat
  BY TopFacts
<1>3. Moved(t, l, i) = [stack[t] EXCEPT ![Len(stack[t])] = f]
  BY DEF Moved
<1> HIDE DEF f
<1>4. Moved(t, l, i) \in Seq(Frames) /\ Len(Moved(t, l, i)) = Depth(t)
  BY <1>1, <1>2, <1>3 DEF Depth
<1>5. \A n \in 1..Depth(t) : Moved(t, l, i)[n] = IF n = Depth(t) THEN f ELSE FrameAt(t, n)
  BY <1>2, <1>3 DEF Depth, FrameAt
<1> QED BY <1>4, <1>5 DEF f

LEMMA SetFacts ==
  ASSUME LoadTypeOK, NEW t \in Threads, stack[t] # <<>>, NEW l \in LoadPCs, NEW i \in Nat,
         Set(t, l, i)
  PROVE  stack' \in [Threads -> Seq(Frames)] /\ MovesTop(t, l, i)
<1>1. stack \in [Threads -> Seq(Frames)]
  BY DEF LoadTypeOK
<1>2. stack' = [stack EXCEPT ![t] = Moved(t, l, i)]
  BY DEF Set
<1>3. stack' \in [Threads -> Seq(Frames)]
  BY <1>1, <1>2, MovedFacts
<1>4. \A u \in Threads : stack'[u] = IF u = t THEN Moved(t, l, i) ELSE stack[u]
  BY <1>1, <1>2
<1>5. ASSUME NEW u \in Threads
      PROVE  Depth(u)' = Depth(u)
  <2>1. Len(Moved(t, l, i)) = Len(stack[t])
    BY MovedFacts DEF Depth
  <2> QED BY <1>4, <2>1 DEF Depth
<1>6. ASSUME NEW u \in Threads, NEW n \in 1..Depth(u)
      PROVE  FrameAt(u, n)' = IF u = t /\ n = Depth(t) THEN [pkg |-> Top(t).pkg, at |-> l, i |-> i]
                                                      ELSE FrameAt(u, n)
  <2>1. CASE u = t
    <3>1. FrameAt(u, n)' = Moved(t, l, i)[n]
      BY <1>4, <2>1 DEF FrameAt
    <3> QED BY <3>1, <2>1, MovedFacts
  <2>2. CASE u # t
    BY <1>4, <2>2 DEF FrameAt
  <2> QED BY <2>1, <2>2
<1> QED BY <1>3, <1>5, <1>6 DEF MovesTop

\* A step that changes t's innermost frame and puts a load of p on top.
Pushes(t, l, i, p) ==
  /\ Depth(t)' = Depth(t) + 1 /\ FrameAt(t, Depth(t))' = Frame(p, "load")
  /\ \A u \in Threads \ {t} : Depth(u)' = Depth(u)
  /\ \A u \in Threads : \A n \in 1..Depth(u) :
       FrameAt(u, n)' = IF u = t /\ n = Depth(t) THEN [pkg |-> Top(t).pkg, at |-> l, i |-> i]
                                                 ELSE FrameAt(u, n)

\* A step that takes t's innermost frame away.
Pops(t) ==
  /\ Depth(t)' = Depth(t) - 1
  /\ \A u \in Threads \ {t} : Depth(u)' = Depth(u)
  /\ \A u \in Threads : \A n \in 1..Depth(u)' : FrameAt(u, n)' = FrameAt(u, n)

LEMMA PushFacts ==
  ASSUME LoadTypeOK, NEW t \in Threads, stack[t] # <<>>, NEW l \in LoadPCs, NEW i \in Nat,
         NEW p \in Pkgs,
         stack' = [stack EXCEPT ![t] = Append(Moved(t, l, i), Frame(p, "load"))]
  PROVE  stack' \in [Threads -> Seq(Frames)] /\ Pushes(t, l, i, p)
<1> DEFINE m == Moved(t, l, i)
           f == Frame(p, "load")
           s == Append(m, f)
<1>1. stack \in [Threads -> Seq(Frames)]
  BY DEF LoadTypeOK
<1>2. f \in Frames
  BY DEF Frame, Frames, LoadPCs
<1>3. /\ m \in Seq(Frames) /\ Len(m) = Depth(t)
      /\ \A n \in 1..Depth(t) : m[n] =
           IF n = Depth(t) THEN [pkg |-> Top(t).pkg, at |-> l, i |-> i] ELSE FrameAt(t, n)
  BY MovedFacts
<1>4. stack' = [stack EXCEPT ![t] = s]
  OBVIOUS
<1> HIDE DEF m, f
<1>5. /\ s \in Seq(Frames) /\ Len(s) = Depth(t) + 1 /\ s[Depth(t) + 1] = f
      /\ \A n \in 1..Depth(t) : s[n] = m[n]
  BY <1>2, <1>3 DEF Depth
<1> HIDE DEF s
<1>6. stack' \in [Threads -> Seq(Frames)]
  BY <1>1, <1>4, <1>5
<1>7. \A u \in Threads : stack'[u] = IF u = t THEN s ELSE stack[u]
  BY <1>1, <1>4
<1>8. Depth(t)' = Depth(t) + 1 /\ FrameAt(t, Depth(t))' = f
  <2>1. stack'[t] = s
    BY <1>7
  <2>2. Depth(t)' = Depth(t) + 1
    BY <2>1, <1>5 DEF Depth
  <2>3. FrameAt(t, Depth(t))' = s[Depth(t)']
    BY <2>1 DEF FrameAt
  <2> QED BY <2>2, <2>3, <1>5
<1>9. \A u \in Threads \ {t} : Depth(u)' = Depth(u)
  BY <1>7 DEF Depth
<1>10. ASSUME NEW u \in Threads, NEW n \in 1..Depth(u)
       PROVE  FrameAt(u, n)' = IF u = t /\ n = Depth(t) THEN [pkg |-> Top(t).pkg, at |-> l, i |-> i]
                                                       ELSE FrameAt(u, n)
  <2>1. CASE u = t
    <3>1. FrameAt(u, n)' = s[n]
      BY <1>7, <2>1 DEF FrameAt
    <3> QED BY <3>1, <2>1, <1>3, <1>5
  <2>2. CASE u # t
    BY <1>7, <2>2 DEF FrameAt
  <2> QED BY <2>1, <2>2
<1> QED BY <1>6, <1>8, <1>9, <1>10 DEF Pushes, f

LEMMA StartFacts ==
  ASSUME LoadTypeOK, NEW t \in Threads, stack[t] = <<>>, NEW p \in Pkgs, NEW l, NEW i,
         stack' = [stack EXCEPT ![t] = <<Frame(p, "load")>>]
  PROVE  stack' \in [Threads -> Seq(Frames)] /\ Depth(t) = 0 /\ Pushes(t, l, i, p)
<1> DEFINE s == <<Frame(p, "load")>>
<1>1. stack \in [Threads -> Seq(Frames)]
  BY DEF LoadTypeOK
<1>2. Frame(p, "load") \in Frames
  BY DEF Frame, Frames, LoadPCs
<1>3. s \in Seq(Frames) /\ Len(s) = 1 /\ s[1] = Frame(p, "load")
  BY <1>2
<1>4. stack' = [stack EXCEPT ![t] = s]
  OBVIOUS
<1> HIDE DEF s
<1>5. stack' \in [Threads -> Seq(Frames)]
  BY <1>1, <1>3, <1>4
<1>6. \A u \in Threads : stack'[u] = IF u = t THEN s ELSE stack[u]
  BY <1>1, <1>4
<1>7. Depth(t) = 0 /\ Depth(t)' = 1
  BY <1>3, <1>6 DEF Depth
<1>8. FrameAt(t, Depth(t))' = Frame(p, "load")
  <2>1. FrameAt(t, Depth(t))' = s[Depth(t)']
    BY <1>6 DEF FrameAt
  <2> QED BY <2>1, <1>3, <1>7
<1>9. \A u \in Threads \ {t} : Depth(u)' = Depth(u)
  BY <1>6 DEF Depth
<1>10. ASSUME NEW u \in Threads, NEW n \in 1..Depth(u)
       PROVE  FrameAt(u, n)' = FrameAt(u, n) /\ u # t
  <2>1. u # t
    BY <1>7
  <2> QED BY <2>1, <1>6 DEF FrameAt
<1> QED BY <1>5, <1>7, <1>8, <1>9, <1>10 DEF Pushes

LEMMA PopFacts ==
  ASSUME LoadTypeOK, NEW t \in Threads, stack[t] # <<>>,
         stack' = [stack EXCEPT ![t] = Front(@)]
  PROVE  stack' \in [Threads -> Seq(Frames)] /\ Pops(t)
<1> DEFINE s == Front(stack[t])
<1>1. stack \in [Threads -> Seq(Frames)]
  BY DEF LoadTypeOK
<1>2. stack[t] \in Seq(Frames) /\ Depth(t) \in Nat \ {0}
  BY TopFacts
<1>3. /\ s \in Seq(Frames) /\ Len(s) = Depth(t) - 1
      /\ \A n \in 1..(Depth(t) - 1) : s[n] = FrameAt(t, n)
  BY <1>2 DEF Front, Depth, FrameAt
<1>4. stack' = [stack EXCEPT ![t] = s]
  OBVIOUS
<1> HIDE DEF s
<1>5. stack' \in [Threads -> Seq(Frames)]
  BY <1>1, <1>3, <1>4
<1>6. \A u \in Threads : stack'[u] = IF u = t THEN s ELSE stack[u]
  BY <1>1, <1>4
<1>7. Depth(t)' = Depth(t) - 1
  BY <1>3, <1>6 DEF Depth
<1>8. \A u \in Threads \ {t} : Depth(u)' = Depth(u)
  BY <1>6 DEF Depth
<1>9. ASSUME NEW u \in Threads, NEW n \in 1..Depth(u)'
      PROVE  FrameAt(u, n)' = FrameAt(u, n)
  <2>1. CASE u = t
    <3>1. FrameAt(u, n)' = s[n]
      BY <1>6, <2>1 DEF FrameAt
    <3> QED BY <3>1, <2>1, <1>3, <1>7
  <2>2. CASE u # t
    BY <1>6, <2>2 DEF FrameAt
  <2> QED BY <2>1, <2>2
<1> QED BY <1>5, <1>7, <1>8, <1>9 DEF Pops

-----------------------------------------------------------------------------
(* The kinds of steps.                                                       *)

\* t's innermost frame goes on to l and i, and acquires nothing.
May(t, l, i) ==
  LET f == Top(t)
      imps == Imports(f.pkg)
  IN
  /\ l \notin Submitting \cup {"load"}
  /\ l \in Metas \cup Imports1 => i \in 1..(Len(imps) + 1)
  /\ l \in Metas => f.at \in Metas \/ (f.at = "load" /\ onDisk[f.pkg] # "stale")
  /\ l \in {"mwait", "bwait"} => i = 1 \/ (f.at = l /\ i = f.i + 1 /\ fut[imps[f.i]] = "ok")
  /\ l \in ImportsDone => f.at \in ImportsDone \/ (f.at \in {"mwait", "bwait"} /\ f.i > Len(imps))
  /\ l = "api" => f.at = "mwait" \/ ~TopLevel(t, Depth(t))
  /\ l \in Early => f.at \in Early \cup {"load", "mwait", "api"}
  /\ f.at = "api" => l \in Results \/ built[f.pkg] = 0
  /\ l = "ok" => f.at \in {"api", "finish"}
  /\ l = "parse" => f.at \in {"build", "parse"}
  /\ l \in OpenBuild => f.at \in OpenBuild \cup {"build"}
  /\ f.at \in Metas \cup Imports1 /\ l \notin Metas \cup Imports1 =>
       f.at \in {"mwait", "bwait"} /\ (f.i > Len(imps) \/ Loaded(imps[f.i]))

Walks(t) ==
  /\ stack[t] # <<>> /\ Top(t).at \notin Submitting \cup Results
  /\ UNCHANGED <<given, fut, parent, exit>>
  /\ \/ queue' = queue
     \/ \E u \in Nat : queue' = Append(queue, ParseJob(Top(t).pkg, u))
  /\ \E l \in LoadPCs, i \in Nat : MovesTop(t, l, i) /\ May(t, l, i)

\* load_dependency acquires the package that it is called for.
Acquires(t) ==
  /\ stack[t] # <<>> /\ Top(t).at \in {"mload", "bload"} /\ Top(t).i <= Len(Imports(Top(t).pkg))
  /\ fut[Submitted(t)] = "none"
  /\ fut' = [fut EXCEPT ![Submitted(t)] = "loading"]
  /\ parent' = [parent EXCEPT ![Submitted(t)] = OwnCell(t)]
  /\ UNCHANGED <<given, queue, alive, unparsed, built, errcount, dangling, exit>>

AcquiresHere(t) ==
  /\ Acquires(t)
  /\ Pushes(t, Top(t).at, Top(t).i + 1, Submitted(t))

AcquiresToSubmit(t) ==
  /\ Acquires(t) /\ ~Sync /\ Top(t).i < Len(Imports(Top(t).pkg))
  /\ \E l \in Submitting : /\ MovesTop(t, l, Top(t).i)
                           /\ Top(t).at = "mload" <=> l = "msubmit"

Hands(t) ==
  /\ Submits(t)
  /\ queue' = Append(queue, LoadJob(Submitted(t)))
  /\ \E l \in {"mload", "bload"} : /\ MovesTop(t, l, Top(t).i + 1)
                                   /\ Top(t).at = "msubmit" <=> l = "mload"
  /\ UNCHANGED <<given, fut, parent, alive, unparsed, built, errcount, dangling, exit>>

LEMMA QueueFacts ==
  ASSUME LoadTypeOK, NEW p \in Pkgs, NEW u \in Nat
  PROVE  /\ Append(queue, LoadJob(p)) \in Seq({"load", "parse"} \X Pkgs \X Nat)
         /\ Append(queue, ParseJob(p, u)) \in Seq({"load", "parse"} \X Pkgs \X Nat)
<1> DEFINE Q == {"load", "parse"} \X Pkgs \X Nat
<1>1. LoadJob(p) \in Q /\ ParseJob(p, u) \in Q
  BY DEF LoadJob, ParseJob
<1>2. queue \in Seq(Q)
  BY DEF LoadTypeOK
<1> HIDE DEF Q
<1>3. Append(queue, LoadJob(p)) \in Seq(Q) /\ Append(queue, ParseJob(p, u)) \in Seq(Q)
  BY <1>1, <1>2
<1> QED BY <1>3 DEF Q

LEMMA CellFacts ==
  ASSUME LoadTypeOK, NEW t \in Threads, stack[t] # <<>>
  PROVE  BuildCell(t) \in Cells /\ MetaCell(t) \in Cells /\ OwnCell(t) \in Cells
BY TopFacts DEF BuildCell, MetaCell, OwnCell, Cells

\* What the innermost frame knows.
LEMMA TopKnows ==
  ASSUME LoadTypeOK, FramesOK, NEW t \in Threads, stack[t] # <<>>
  PROVE  Knows(Top(t)) /\ Role(t, Depth(t))
BY TopFacts DEF FramesOK

\* The calls of load_dependency.
LEMMA LoadDependencyEffect ==
  ASSUME LoadTypeOK, FramesOK, NEW t \in Threads,
         \/ LoadDependency(t, "mload", "msubmit")
         \/ LoadDependency(t, "bload", "bsubmit")
  PROVE  /\ LoadTypeOK'
         /\ AcquiresHere(t) \/ AcquiresToSubmit(t)
            \/ (Walks(t) /\ UNCHANGED <<queue, alive, unparsed, built, errcount, dangling>>)
<1> DEFINE f == Top(t)
           imps == Imports(f.pkg)
<1>1. PICK here \in {"mload", "bload"}, sub \in Submitting :
        LoadDependency(t, here, sub) /\ (here = "mload" <=> sub = "msubmit")
  BY DEF Submitting
<1>2. stack[t] # <<>> /\ f.at = here /\ f.i <= Len(imps)
  BY <1>1 DEF LoadDependency, At
<1>3. /\ f.pkg \in Pkgs /\ f.i \in Nat /\ Len(imps) \in Nat
      /\ \A j \in 1..Len(imps) : imps[j] \in Pkgs
      /\ here \in LoadPCs /\ sub \in LoadPCs
  BY <1>2, TopFacts, ProjectFacts DEF LoadPCs, Submitting
<1>4. UNCHANGED <<given, queue, alive, unparsed, built, errcount, dangling, exit>>
  BY <1>1 DEF LoadDependency
<1>5. CASE Set(t, here, f.i + 1) /\ UNCHANGED <<fut, parent>>
  <2>1. stack' \in [Threads -> Seq(Frames)] /\ MovesTop(t, here, f.i + 1)
    BY <1>2, <1>3, <1>5, SetFacts
  <2>2. LoadTypeOK'
    BY <2>1, <1>4, <1>5 DEF LoadTypeOK, given
  <2>3. May(t, here, f.i + 1)
    BY <1>2, <1>3 DEF May, Submitting, Metas, Imports1, ImportsDone, Early, OpenBuild, Results
  <2> QED
    BY <2>1, <2>2, <2>3, <1>2, <1>3, <1>4, <1>5 DEF Walks, Submitting, Results
<1>6. ASSUME fut[imps[f.i]] = "none",
             fut' = [fut EXCEPT ![imps[f.i]] = "loading"],
             parent' = [parent EXCEPT ![imps[f.i]] = OwnCell(t)]
      PROVE  /\ Acquires(t)
             /\ stack' \in [Threads -> Seq(Frames)] => LoadTypeOK'
  <2>1. Submitted(t) = imps[f.i] /\ imps[f.i] \in Pkgs
    <3>1. f.i \in 1..Len(imps)
      BY <1>2, <1>3, TopKnows DEF Knows, Metas, Imports1
    <3> QED BY <3>1, <1>3 DEF Submitted
  <2>2. OwnCell(t) \in Cells
    BY <1>2, CellFacts
  <2> QED
    BY <2>1, <2>2, <1>2, <1>3, <1>4, <1>6 DEF Acquires, LoadTypeOK, given
<1>7. CASE ~(Set(t, here, f.i + 1) /\ UNCHANGED <<fut, parent>>)
  <2>1. /\ fut[imps[f.i]] = "none"
        /\ fut' = [fut EXCEPT ![imps[f.i]] = "loading"]
        /\ parent' = [parent EXCEPT ![imps[f.i]] = OwnCell(t)]
        /\ IF Sync \/ f.i = Len(imps)
           THEN stack' = [stack EXCEPT ![t] = Append(Moved(t, here, f.i + 1), Frame(imps[f.i], "load"))]
           ELSE Set(t, sub, f.i)
    BY <1>1, <1>7 DEF LoadDependency, CanAcquire
  <2>2. f.i \in 1..Len(imps)
    BY <1>2, <1>3, TopKnows DEF Knows, Metas, Imports1
  <2>3. CASE Sync \/ f.i = Len(imps)
    <3> DEFINE i == f.i + 1
               p == imps[f.i]
    <3>1. stack' = [stack EXCEPT ![t] = Append(Moved(t, here, i), Frame(p, "load"))]
      BY <2>1, <2>3
    <3>2. i \in Nat /\ p \in Pkgs
      BY <2>2, <1>3
    <3> HIDE DEF i, p
    <3>3. stack' \in [Threads -> Seq(Frames)] /\ Pushes(t, here, i, p)
      BY <3>1, <3>2, <1>2, <1>3, PushFacts
    <3> QED BY <3>3, <2>1, <1>2, <1>6 DEF AcquiresHere, Submitted, i, p
  <2>4. CASE ~(Sync \/ f.i = Len(imps))
    <3>1. stack' \in [Threads -> Seq(Frames)] /\ MovesTop(t, sub, f.i)
      BY <2>1, <2>4, <1>2, <1>3, SetFacts
    <3>2. ~Sync /\ f.i < Len(imps)
      BY <2>2, <2>4, <1>3
    <3> QED BY <3>1, <3>2, <2>1, <1>1, <1>2, <1>6 DEF AcquiresToSubmit
  <2> QED BY <2>3, <2>4
<1> QED BY <1>5, <1>7

\* threadpool_submit.
LEMMA SubmitEffect ==
  ASSUME LoadTypeOK, FramesOK, NEW t \in Threads,
         Submit(t, "msubmit", "mload") \/ Submit(t, "bsubmit", "bload")
  PROVE  LoadTypeOK' /\ Hands(t)
<1> DEFINE f == Top(t)
<1>1. PICK sub \in Submitting, there \in {"mload", "bload"} :
        Submit(t, sub, there) /\ (sub = "msubmit" <=> there = "mload")
  BY DEF Submitting
<1>2. stack[t] # <<>> /\ f.at = sub
  BY <1>1 DEF Submit, At
<1>3. /\ f.pkg \in Pkgs /\ f.i \in Nat /\ there \in LoadPCs
      /\ f.i \in 1..(Len(Imports(f.pkg)) + 1) /\ f.i < Len(Imports(f.pkg)) /\ Len(Imports(f.pkg)) \in Nat
      /\ \A j \in 1..Len(Imports(f.pkg)) : Imports(f.pkg)[j] \in Pkgs
  BY <1>2, TopFacts, TopKnows, ProjectFacts DEF LoadPCs, Knows, Submitting, Metas, Imports1
<1>4. Submitted(t) = Imports(f.pkg)[f.i] /\ Submitted(t) \in Pkgs
  BY <1>3 DEF Submitted
<1>5. /\ queue' = Append(queue, LoadJob(Submitted(t))) /\ Set(t, there, f.i + 1)
      /\ UNCHANGED <<given, fut, parent, alive, unparsed, built, errcount, dangling, exit>>
  BY <1>1, <1>4 DEF Submit
<1>6. stack' \in [Threads -> Seq(Frames)] /\ MovesTop(t, there, f.i + 1)
  BY <1>2, <1>3, <1>5, SetFacts
<1>7. queue' \in Seq({"load", "parse"} \X Pkgs \X Nat)
  BY <1>4, <1>5, QueueFacts
<1>8. LoadTypeOK'
  BY <1>5, <1>6, <1>7 DEF LoadTypeOK, given
<1>9. Submits(t)
  BY <1>2 DEF Submits
<1> QED BY <1>1, <1>2, <1>5, <1>6, <1>8, <1>9 DEF Hands

\* What a step that walks has to show.
LEMMA WalkEffect ==
  ASSUME LoadTypeOK, NEW t \in Threads, stack[t] # <<>>, Top(t).at \notin Submitting \cup Results,
         NEW l \in LoadPCs, NEW i \in Nat, Set(t, l, i), May(t, l, i),
         UNCHANGED <<given, fut, queue, parent, exit>>,
         alive' \subseteq Cells, unparsed' \in [Pkgs -> SUBSET Nat], built' \in [Pkgs -> Nat],
         errcount' \in BOOLEAN, dangling' \in BOOLEAN
  PROVE  LoadTypeOK' /\ Walks(t) /\ MovesTop(t, l, i)
<1>1. stack' \in [Threads -> Seq(Frames)] /\ MovesTop(t, l, i)
  BY SetFacts
<1>2. LoadTypeOK'
  BY <1>1 DEF LoadTypeOK, given
<1>3. Walks(t)
  BY <1>1 DEF Walks
<1> QED BY <1>1, <1>2, <1>3

\* The steps that walk, one by one: where they come from and where they go.
LEMMA LoadBeginsEffect ==
  ASSUME LoadTypeOK, FramesOK, NEW t \in Threads, LoadBegins(t)
  PROVE  /\ LoadTypeOK' /\ Walks(t) /\ Top(t).at = "load"
         /\ \/ MovesTop(t, "build", 1) /\ UNCHANGED alive
            \/ MovesTop(t, "err", 1) /\ UNCHANGED alive
            \/ MovesTop(t, "mload", 1) /\ alive' = alive \cup {MetaCell(t)}
<1> USE DEF May, Submitting, Metas, Imports1, ImportsDone, Early, OpenBuild, Results, LoadPCs
<1>1. /\ stack[t] # <<>> /\ Top(t).at = "load" /\ Top(t).pkg \in Pkgs
      /\ Len(Imports(Top(t).pkg)) \in Nat
      /\ UNCHANGED <<given, fut, queue, parent, unparsed, built, errcount, dangling, exit>>
  BY TopFacts, ProjectFacts DEF LoadBegins, At
<1>2. /\ alive \subseteq Cells /\ unparsed' \in [Pkgs -> SUBSET Nat] /\ built' \in [Pkgs -> Nat]
      /\ errcount' \in BOOLEAN /\ dangling' \in BOOLEAN
  BY <1>1 DEF LoadTypeOK
<1>3. CASE Set(t, "build", 1) /\ UNCHANGED alive
  BY <1>1, <1>2, <1>3, WalkEffect
<1>4. CASE Set(t, "err", 1) /\ UNCHANGED alive
  BY <1>1, <1>2, <1>4, WalkEffect
<1>5. CASE /\ onDisk[Top(t).pkg] # "stale"
           /\ alive' = alive \cup {MetaCell(t)} /\ Set(t, "mload", 1)
  <2>1. alive' \subseteq Cells
    BY <1>1, <1>2, <1>5, CellFacts
  <2> QED BY <1>1, <1>2, <1>5, <2>1, WalkEffect
<1> QED BY <1>3, <1>4, <1>5 DEF LoadBegins

LEMMA StartWaitingEffect ==
  ASSUME LoadTypeOK, FramesOK, NEW t \in Threads,
         StartWaiting(t, "mload", "mwait") \/ StartWaiting(t, "bload", "bwait")
  PROVE  /\ LoadTypeOK' /\ Walks(t) /\ UNCHANGED <<queue, alive, unparsed, built, errcount, dangling>>
         /\ \/ Top(t).at = "mload" /\ MovesTop(t, "mwait", 1)
            \/ Top(t).at = "bload" /\ MovesTop(t, "bwait", 1)
<1> USE DEF May, Submitting, Metas, Imports1, ImportsDone, Early, OpenBuild, Results, LoadPCs
<1>1. PICK here \in {"mload", "bload"}, next \in {"mwait", "bwait"} :
        StartWaiting(t, here, next) /\ (here = "mload" <=> next = "mwait")
  OBVIOUS
<1>2. /\ stack[t] # <<>> /\ Top(t).at = here /\ Top(t).pkg \in Pkgs
      /\ Len(Imports(Top(t).pkg)) \in Nat /\ Set(t, next, 1)
      /\ UNCHANGED <<given, fut, queue, parent, alive, unparsed, built, errcount, dangling, exit>>
  BY <1>1, TopFacts, ProjectFacts DEF StartWaiting, At
<1>3. /\ alive' \subseteq Cells /\ unparsed' \in [Pkgs -> SUBSET Nat] /\ built' \in [Pkgs -> Nat]
      /\ errcount' \in BOOLEAN /\ dangling' \in BOOLEAN
  BY <1>2 DEF LoadTypeOK
<1>4. May(t, next, 1)
  BY <1>1, <1>2
<1>5. LoadTypeOK' /\ Walks(t) /\ MovesTop(t, next, 1)
  BY <1>1, <1>2, <1>3, <1>4, WalkEffect
<1> QED BY <1>1, <1>2, <1>5

LEMMA MetaWaitEffect ==
  ASSUME LoadTypeOK, FramesOK, NEW t \in Threads, MetaWait(t)
  PROVE  /\ LoadTypeOK' /\ Walks(t) /\ Top(t).at = "mwait"
         /\ UNCHANGED <<queue, unparsed, built, errcount, dangling>>
         /\ \/ /\ MovesTop(t, "api", 1) \/ MovesTop(t, "build", 1)
               /\ alive' = alive \ {MetaCell(t)}
               /\ Top(t).i > Len(Imports(Top(t).pkg)) \/ Loaded(Submitted(t))
            \/ MovesTop(t, "mwait", Top(t).i + 1) /\ UNCHANGED alive
<1> USE DEF May, Submitting, Metas, Imports1, ImportsDone, Early, OpenBuild, Results, LoadPCs
<1> DEFINE f == Top(t)
<1>1. /\ stack[t] # <<>> /\ Top(t).at = "mwait" /\ Top(t).pkg \in Pkgs
      /\ Len(Imports(Top(t).pkg)) \in Nat /\ Top(t).i \in Nat
      /\ UNCHANGED <<given, fut, queue, parent, unparsed, built, errcount, dangling, exit>>
  BY TopFacts, ProjectFacts DEF MetaWait, At
<1>2. /\ alive \subseteq Cells /\ unparsed' \in [Pkgs -> SUBSET Nat] /\ built' \in [Pkgs -> Nat]
      /\ errcount' \in BOOLEAN /\ dangling' \in BOOLEAN
  BY <1>1 DEF LoadTypeOK
<1>3. f.i \in 1..(Len(Imports(f.pkg)) + 1)
  BY <1>1, TopKnows DEF Knows
<1>4. \/ f.i > Len(Imports(f.pkg)) /\ Set(t, "api", 1) /\ alive' = alive \ {MetaCell(t)}
      \/ Loaded(Submitted(t)) /\ Set(t, "build", 1) /\ alive' = alive \ {MetaCell(t)}
      \/ /\ f.i <= Len(Imports(f.pkg)) /\ fut[Submitted(t)] = "ok"
         /\ Set(t, "mwait", f.i + 1) /\ UNCHANGED alive
  BY DEF MetaWait, Submitted
<1>5. CASE f.i > Len(Imports(f.pkg)) /\ Set(t, "api", 1) /\ alive' = alive \ {MetaCell(t)}
  <2>1. alive' \subseteq Cells /\ May(t, "api", 1)
    BY <1>1, <1>2, <1>3, <1>5
  <2> QED BY <1>1, <1>2, <1>5, <2>1, WalkEffect
<1>6. CASE Loaded(Submitted(t)) /\ Set(t, "build", 1) /\ alive' = alive \ {MetaCell(t)}
  <2>1. alive' \subseteq Cells /\ May(t, "build", 1)
    BY <1>1, <1>2, <1>6 DEF Submitted
  <2> QED BY <1>1, <1>2, <1>6, <2>1, WalkEffect
<1>7. CASE /\ f.i <= Len(Imports(f.pkg)) /\ fut[Submitted(t)] = "ok"
           /\ Set(t, "mwait", f.i + 1) /\ UNCHANGED alive
  <2>1. alive' \subseteq Cells /\ May(t, "mwait", f.i + 1) /\ f.i + 1 \in Nat
    BY <1>1, <1>2, <1>3, <1>7 DEF Submitted
  <2> QED BY <1>1, <1>2, <1>7, <2>1, WalkEffect
<1> QED BY <1>4, <1>5, <1>6, <1>7

LEMMA LoadApiEffect ==
  ASSUME LoadTypeOK, FramesOK, NEW t \in Threads, LoadApi(t)
  PROVE  /\ LoadTypeOK' /\ Walks(t) /\ Top(t).at = "api"
         /\ UNCHANGED <<queue, alive, unparsed, built, errcount, dangling>>
         /\ \/ MovesTop(t, "build", 1) /\ built[Top(t).pkg] = 0
            \/ MovesTop(t, "ok", 1)
            \/ MovesTop(t, "err", 1)
<1> USE DEF May, Submitting, Metas, Imports1, ImportsDone, Early, OpenBuild, Results, LoadPCs
<1>1. /\ stack[t] # <<>> /\ Top(t).at = "api" /\ Top(t).pkg \in Pkgs
      /\ Len(Imports(Top(t).pkg)) \in Nat
      /\ UNCHANGED <<given, fut, queue, parent, alive, unparsed, built, errcount, dangling, exit>>
  BY TopFacts, ProjectFacts DEF LoadApi, At
<1>2. /\ alive' \subseteq Cells /\ unparsed' \in [Pkgs -> SUBSET Nat] /\ built' \in [Pkgs -> Nat]
      /\ errcount' \in BOOLEAN /\ dangling' \in BOOLEAN
  BY <1>1 DEF LoadTypeOK
<1>3. CASE built[Top(t).pkg] = 0 /\ Set(t, "build", 1)
  BY <1>1, <1>2, <1>3, WalkEffect
<1>4. CASE Set(t, "ok", 1)
  BY <1>1, <1>2, <1>4, WalkEffect
<1>5. CASE Set(t, "err", 1)
  BY <1>1, <1>2, <1>5, WalkEffect
<1> QED BY <1>3, <1>4, <1>5 DEF LoadApi

LEMMA BuildBeginsEffect ==
  ASSUME LoadTypeOK, FramesOK, NEW t \in Threads, BuildBegins(t)
  PROVE  /\ LoadTypeOK' /\ Walks(t) /\ Top(t).at = "build"
         /\ UNCHANGED <<queue, built, errcount, dangling>>
         /\ \/ MovesTop(t, "err", 1) /\ UNCHANGED <<alive, unparsed>>
            \/ /\ MovesTop(t, "parse", 1) /\ alive' = alive \cup {BuildCell(t)}
               /\ unparsed' = [unparsed EXCEPT ![Top(t).pkg] = 1..project.units[Top(t).pkg]]
            \/ MovesTop(t, "fail", 1) /\ alive' = alive \cup {BuildCell(t)} /\ UNCHANGED unparsed
<1> USE DEF May, Submitting, Metas, Imports1, ImportsDone, Early, OpenBuild, Results, LoadPCs
<1>1. /\ stack[t] # <<>> /\ Top(t).at = "build" /\ Top(t).pkg \in Pkgs
      /\ Len(Imports(Top(t).pkg)) \in Nat /\ project.units[Top(t).pkg] \in Nat
      /\ UNCHANGED <<given, fut, queue, parent, built, errcount, dangling, exit>>
  BY TopFacts, ProjectFacts DEF BuildBegins, At
<1>2. /\ alive \subseteq Cells /\ unparsed \in [Pkgs -> SUBSET Nat] /\ built' \in [Pkgs -> Nat]
      /\ errcount' \in BOOLEAN /\ dangling' \in BOOLEAN
  BY <1>1 DEF LoadTypeOK
<1>3. CASE Set(t, "err", 1) /\ UNCHANGED <<alive, unparsed>>
  <2>1. alive' \subseteq Cells /\ unparsed' \in [Pkgs -> SUBSET Nat]
    BY <1>2, <1>3
  <2> QED BY <1>1, <1>2, <1>3, <2>1, WalkEffect
<1>4. CASE /\ Set(t, "parse", 1) /\ alive' = alive \cup {BuildCell(t)}
           /\ unparsed' = [unparsed EXCEPT ![Top(t).pkg] = 1..project.units[Top(t).pkg]]
  <2>1. alive' \subseteq Cells
    BY <1>1, <1>2, <1>4, CellFacts
  <2>2. unparsed' \in [Pkgs -> SUBSET Nat]
    BY <1>1, <1>2, <1>4
  <2> QED BY <1>1, <1>2, <1>4, <2>1, <2>2, WalkEffect
<1>5. CASE Set(t, "fail", 1) /\ alive' = alive \cup {BuildCell(t)} /\ UNCHANGED unparsed
  <2>1. alive' \subseteq Cells /\ unparsed' \in [Pkgs -> SUBSET Nat]
    BY <1>1, <1>2, <1>5, CellFacts
  <2> QED BY <1>1, <1>2, <1>5, <2>1, WalkEffect
<1> QED BY <1>3, <1>4, <1>5 DEF BuildBegins

LEMMA ParseHereEffect ==
  ASSUME LoadTypeOK, FramesOK, NEW t \in Threads, ParseHere(t)
  PROVE  /\ LoadTypeOK' /\ Walks(t) /\ Top(t).at = "parse"
         /\ MovesTop(t, "parse", Top(t).i + 1)
         /\ unparsed' = Signalled(Top(t).pkg, Top(t).i)
         /\ UNCHANGED <<queue, alive, built, dangling>>
<1> USE DEF May, Submitting, Metas, Imports1, ImportsDone, Early, OpenBuild, Results, LoadPCs
<1>1. /\ stack[t] # <<>> /\ Top(t).at = "parse" /\ Top(t).pkg \in Pkgs
      /\ Len(Imports(Top(t).pkg)) \in Nat /\ Top(t).i \in Nat
      /\ unparsed' = Signalled(Top(t).pkg, Top(t).i)
      /\ Set(t, "parse", Top(t).i + 1)
      /\ UNCHANGED <<given, fut, queue, parent, alive, built, dangling, exit>>
  BY TopFacts, ProjectFacts DEF ParseHere, At
<1>2. errcount' \in BOOLEAN
  <2>1. errcount' = errcount \/ errcount' = (errcount \/ MayFail)
    BY DEF ParseHere
  <2>2. errcount \in BOOLEAN
    BY DEF LoadTypeOK
  <2> QED BY <2>1, <2>2, Zenon
<1>3. /\ alive' \subseteq Cells /\ unparsed' \in [Pkgs -> SUBSET Nat] /\ built' \in [Pkgs -> Nat]
      /\ dangling' \in BOOLEAN
  BY <1>1 DEF LoadTypeOK, Signalled
<1>4. May(t, "parse", Top(t).i + 1) /\ Top(t).i + 1 \in Nat
  BY <1>1
<1> QED BY <1>1, <1>2, <1>3, <1>4, WalkEffect

LEMMA ParseElsewhereEffect ==
  ASSUME LoadTypeOK, FramesOK, NEW t \in Threads, ParseElsewhere(t)
  PROVE  /\ LoadTypeOK' /\ Walks(t) /\ Top(t).at = "parse" /\ ~Sync
         /\ Top(t).i <= project.units[Top(t).pkg]
         /\ MovesTop(t, "parse", Top(t).i + 1)
         /\ queue' = Append(queue, ParseJob(Top(t).pkg, Top(t).i))
         /\ UNCHANGED <<alive, unparsed, built, errcount, dangling>>
<1> USE DEF May, Submitting, Metas, Imports1, ImportsDone, Early, OpenBuild, Results, LoadPCs
<1>1. /\ stack[t] # <<>> /\ Top(t).at = "parse" /\ Top(t).pkg \in Pkgs
      /\ Top(t).i \in Nat /\ ~Sync /\ Top(t).i <= project.units[Top(t).pkg]
      /\ queue' = Append(queue, ParseJob(Top(t).pkg, Top(t).i))
      /\ Set(t, "parse", Top(t).i + 1)
      /\ UNCHANGED <<given, fut, parent, alive, unparsed, built, errcount, dangling, exit>>
  BY TopFacts DEF ParseElsewhere, At
<1>2. queue' \in Seq({"load", "parse"} \X Pkgs \X Nat)
  BY <1>1, QueueFacts
<1>3. stack' \in [Threads -> Seq(Frames)] /\ MovesTop(t, "parse", Top(t).i + 1)
  BY <1>1, SetFacts
<1>4. LoadTypeOK'
  BY <1>1, <1>2, <1>3 DEF LoadTypeOK, given
<1>5. May(t, "parse", Top(t).i + 1) /\ Top(t).i + 1 \in Nat
  BY <1>1
<1>6. Walks(t)
  BY <1>1, <1>3, <1>5 DEF Walks
<1> QED BY <1>1, <1>3, <1>4, <1>6

LEMMA ParseWaitEffect ==
  ASSUME LoadTypeOK, FramesOK, NEW t \in Threads, ParseWait(t)
  PROVE  /\ LoadTypeOK' /\ Walks(t) /\ Top(t).at = "parse"
         /\ unparsed[Top(t).pkg] = {}
         /\ MovesTop(t, "imports", 1) \/ MovesTop(t, "fail", 1)
         /\ UNCHANGED <<queue, alive, unparsed, built, errcount, dangling>>
<1> USE DEF May, Submitting, Metas, Imports1, ImportsDone, Early, OpenBuild, Results, LoadPCs
<1>1. /\ stack[t] # <<>> /\ Top(t).at = "parse" /\ Top(t).pkg \in Pkgs
      /\ unparsed[Top(t).pkg] = {}
      /\ Set(t, "imports", 1) \/ Set(t, "fail", 1)
      /\ UNCHANGED <<given, fut, queue, parent, alive, unparsed, built, errcount, dangling, exit>>
  BY TopFacts DEF ParseWait, At
<1>2. /\ alive' \subseteq Cells /\ unparsed' \in [Pkgs -> SUBSET Nat] /\ built' \in [Pkgs -> Nat]
      /\ errcount' \in BOOLEAN /\ dangling' \in BOOLEAN
  BY <1>1 DEF LoadTypeOK
<1>3. May(t, "imports", 1) /\ May(t, "fail", 1)
  BY <1>1
<1>4. CASE Set(t, "imports", 1)
  BY <1>1, <1>2, <1>3, <1>4, WalkEffect
<1>5. CASE Set(t, "fail", 1)
  BY <1>1, <1>2, <1>3, <1>5, WalkEffect
<1> QED BY <1>1, <1>4, <1>5

LEMMA ImportsCheckedEffect ==
  ASSUME LoadTypeOK, FramesOK, NEW t \in Threads, ImportsChecked(t)
  PROVE  /\ LoadTypeOK' /\ Walks(t) /\ Top(t).at = "imports"
         /\ dangling' = (dangling \/ \E c \in Chain(t) : c \notin alive)
         /\ MovesTop(t, "bload", 1) \/ MovesTop(t, "fail", 1)
         /\ UNCHANGED <<queue, alive, unparsed, built>>
<1> USE DEF May, Submitting, Metas, Imports1, ImportsDone, Early, OpenBuild, Results, LoadPCs
<1>1. /\ stack[t] # <<>> /\ Top(t).at = "imports" /\ Top(t).pkg \in Pkgs
      /\ Len(Imports(Top(t).pkg)) \in Nat
      /\ dangling' = (dangling \/ \E c \in Chain(t) : c \notin alive)
      /\ Set(t, "bload", 1) \/ Set(t, "fail", 1)
      /\ UNCHANGED <<given, fut, queue, parent, alive, unparsed, built, exit>>
  BY TopFacts, ProjectFacts DEF ImportsChecked, At
<1>2. errcount' \in BOOLEAN
  <2>1. errcount' = errcount \/ errcount' = TRUE
    BY DEF ImportsChecked
  <2>2. errcount \in BOOLEAN
    BY DEF LoadTypeOK
  <2> QED BY <2>1, <2>2, Zenon
<1>3. dangling' \in BOOLEAN
  BY <1>1, Zenon
<1>4. alive' \subseteq Cells /\ unparsed' \in [Pkgs -> SUBSET Nat] /\ built' \in [Pkgs -> Nat]
  BY <1>1 DEF LoadTypeOK
<1>5. May(t, "bload", 1) /\ May(t, "fail", 1)
  BY <1>1
<1>6. CASE Set(t, "bload", 1)
  <2>1. LoadTypeOK' /\ Walks(t) /\ MovesTop(t, "bload", 1)
    BY <1>1, <1>2, <1>3, <1>4, <1>5, <1>6, WalkEffect
  <2> QED BY <2>1, <1>1, Zenon
<1>7. CASE Set(t, "fail", 1)
  <2>1. LoadTypeOK' /\ Walks(t) /\ MovesTop(t, "fail", 1)
    BY <1>1, <1>2, <1>3, <1>4, <1>5, <1>7, WalkEffect
  <2> QED BY <2>1, <1>1, Zenon
<1> QED BY <1>1, <1>6, <1>7

LEMMA BuildWaitEffect ==
  ASSUME LoadTypeOK, FramesOK, NEW t \in Threads, BuildWait(t)
  PROVE  /\ LoadTypeOK' /\ Walks(t) /\ Top(t).at = "bwait"
         /\ UNCHANGED <<queue, alive, unparsed, built, errcount, dangling>>
         /\ \/ MovesTop(t, "finish", 1) /\ Top(t).i > Len(Imports(Top(t).pkg))
            \/ /\ MovesTop(t, "fail", 1) /\ Loaded(Submitted(t))
               /\ Top(t).i <= Len(Imports(Top(t).pkg))
            \/ MovesTop(t, "bwait", Top(t).i + 1)
<1> USE DEF May, Submitting, Metas, Imports1, ImportsDone, Early, OpenBuild, Results, LoadPCs
<1> DEFINE f == Top(t)
<1>1. /\ stack[t] # <<>> /\ Top(t).at = "bwait" /\ Top(t).pkg \in Pkgs
      /\ Len(Imports(Top(t).pkg)) \in Nat /\ Top(t).i \in Nat
      /\ UNCHANGED <<given, fut, queue, parent, alive, unparsed, built, errcount, dangling, exit>>
  BY TopFacts, ProjectFacts DEF BuildWait, At
<1>2. /\ alive' \subseteq Cells /\ unparsed' \in [Pkgs -> SUBSET Nat] /\ built' \in [Pkgs -> Nat]
      /\ errcount' \in BOOLEAN /\ dangling' \in BOOLEAN
  BY <1>1 DEF LoadTypeOK
<1>3. f.i \in 1..(Len(Imports(f.pkg)) + 1)
  BY <1>1, TopKnows DEF Knows
<1>4. \/ f.i > Len(Imports(f.pkg)) /\ Set(t, "finish", 1)
      \/ Loaded(Submitted(t)) /\ f.i <= Len(Imports(f.pkg)) /\ Set(t, "fail", 1)
      \/ /\ f.i <= Len(Imports(f.pkg)) /\ fut[Submitted(t)] = "ok"
         /\ Set(t, "bwait", f.i + 1)
  BY DEF BuildWait, Submitted, Loaded
<1>5. CASE f.i > Len(Imports(f.pkg)) /\ Set(t, "finish", 1)
  <2>1. May(t, "finish", 1)
    BY <1>1, <1>3, <1>5
  <2> QED BY <1>1, <1>2, <1>5, <2>1, WalkEffect
<1>6. CASE Loaded(Submitted(t)) /\ f.i <= Len(Imports(f.pkg)) /\ Set(t, "fail", 1)
  <2>1. May(t, "fail", 1)
    BY <1>1, <1>6 DEF Submitted
  <2> QED BY <1>1, <1>2, <1>6, <2>1, WalkEffect
<1>7. CASE /\ f.i <= Len(Imports(f.pkg)) /\ fut[Submitted(t)] = "ok"
           /\ Set(t, "bwait", f.i + 1)
  <2>1. May(t, "bwait", f.i + 1) /\ f.i + 1 \in Nat
    BY <1>1, <1>3, <1>7 DEF Submitted
  <2> QED BY <1>1, <1>2, <1>7, <2>1, WalkEffect
<1> QED BY <1>4, <1>5, <1>6, <1>7

LEMMA BuildFinishesEffect ==
  ASSUME LoadTypeOK, FramesOK, NEW t \in Threads, BuildFinishes(t)
  PROVE  /\ LoadTypeOK' /\ Walks(t) /\ Top(t).at = "finish"
         /\ UNCHANGED <<queue, unparsed, dangling>>
         /\ \/ /\ ~errcount /\ UNCHANGED errcount
               /\ built' = [built EXCEPT ![Top(t).pkg] = @ + 1]
               /\ alive' = alive \ {BuildCell(t)}
               /\ MovesTop(t, IF TopLevel(t, Depth(t)) THEN "ok" ELSE "api", 1)
            \/ MovesTop(t, "fail", 1) /\ UNCHANGED <<built, alive>>
<1> USE DEF May, Submitting, Metas, Imports1, ImportsDone, Early, OpenBuild, Results, LoadPCs
<1>1. /\ stack[t] # <<>> /\ Top(t).at = "finish" /\ Top(t).pkg \in Pkgs
      /\ Len(Imports(Top(t).pkg)) \in Nat
      /\ UNCHANGED <<given, fut, queue, parent, unparsed, dangling, exit>>
  BY TopFacts, ProjectFacts DEF BuildFinishes, At
<1>2. /\ alive \subseteq Cells /\ unparsed' \in [Pkgs -> SUBSET Nat] /\ built \in [Pkgs -> Nat]
      /\ dangling' \in BOOLEAN
  BY <1>1 DEF LoadTypeOK
<1>3. errcount \in BOOLEAN
  BY DEF LoadTypeOK
<1>4. IsRoot(t) <=> TopLevel(t, Depth(t))
  BY DEF IsRoot, TopLevel, Depth
<1>5. CASE /\ NoErrors
           /\ built' = [built EXCEPT ![Top(t).pkg] = @ + 1]
           /\ alive' = alive \ {BuildCell(t)}
           /\ Set(t, IF IsRoot(t) THEN "ok" ELSE "api", 1)
           /\ UNCHANGED errcount
  <2> DEFINE l == IF TopLevel(t, Depth(t)) THEN "ok" ELSE "api"
  <2>1. alive' \subseteq Cells /\ built' \in [Pkgs -> Nat]
    BY <1>1, <1>2, <1>5
  <2>2. Set(t, l, 1) /\ l \in LoadPCs
    BY <1>4, <1>5
  <2>3. May(t, l, 1)
    BY <1>1
  <2>4. errcount' \in BOOLEAN
    BY <1>3, <1>5, Zenon
  <2> HIDE DEF l
  <2>5. LoadTypeOK' /\ Walks(t) /\ MovesTop(t, l, 1)
    BY <1>1, <1>2, <2>1, <2>2, <2>3, <2>4, WalkEffect
  <2> QED BY <2>5, <1>1, <1>5 DEF l, NoErrors
<1>6. CASE /\ errcount' \in {errcount, TRUE}
           /\ Set(t, "fail", 1)
           /\ UNCHANGED <<built, alive>>
  <2>1. alive' \subseteq Cells /\ built' \in [Pkgs -> Nat]
    BY <1>2, <1>6
  <2>2. errcount' \in BOOLEAN
    <3>1. errcount' = errcount \/ errcount' = TRUE
      BY <1>6
    <3> QED BY <1>3, <3>1, Zenon
  <2>3. May(t, "fail", 1)
    BY <1>1
  <2> QED BY <1>1, <1>2, <1>6, <2>1, <2>2, <2>3, WalkEffect
<1> QED BY <1>5, <1>6 DEF BuildFinishes

LEMMA PkgBuildFailsEffect ==
  ASSUME LoadTypeOK, FramesOK, NEW t \in Threads, PkgBuildFails(t)
  PROVE  /\ LoadTypeOK' /\ Walks(t) /\ Top(t).at = "fail"
         /\ UNCHANGED <<queue, unparsed, built, errcount, dangling>>
         /\ MovesTop(t, "err", 1) /\ alive' = alive \ {BuildCell(t)}
<1> USE DEF May, Submitting, Metas, Imports1, ImportsDone, Early, OpenBuild, Results, LoadPCs
<1>1. /\ stack[t] # <<>> /\ Top(t).at = "fail" /\ Top(t).pkg \in Pkgs
      /\ Set(t, "err", 1) /\ alive' = alive \ {BuildCell(t)}
      /\ UNCHANGED <<given, fut, queue, parent, unparsed, built, errcount, dangling, exit>>
  BY TopFacts DEF PkgBuildFails, At
<1>2. /\ alive' \subseteq Cells /\ unparsed' \in [Pkgs -> SUBSET Nat] /\ built' \in [Pkgs -> Nat]
      /\ errcount' \in BOOLEAN /\ dangling' \in BOOLEAN
  BY <1>1 DEF LoadTypeOK
<1>3. May(t, "err", 1)
  BY <1>1
<1> QED BY <1>1, <1>2, <1>3, WalkEffect

\* The steps that do not walk.
LEMMA FinalizeEffect ==
  ASSUME LoadTypeOK, NEW t \in Threads, Finalize(t)
  PROVE  /\ LoadTypeOK' /\ stack[t] # <<>> /\ Top(t).at \in Results /\ Pops(t)
         /\ UNCHANGED <<given, queue, parent, alive, unparsed, built, errcount, dangling>>
         /\ IF TopLevel(t, Depth(t)) THEN exit' = Top(t).at /\ UNCHANGED fut
            ELSE fut' = [fut EXCEPT ![Top(t).pkg] = Top(t).at] /\ UNCHANGED exit
<1>1. /\ stack[t] # <<>> /\ Top(t).at \in Results /\ stack' = [stack EXCEPT ![t] = Front(@)]
      /\ UNCHANGED <<given, queue, parent, alive, unparsed, built, errcount, dangling>>
      /\ IF TopLevel(t, Depth(t)) THEN exit' = Top(t).at /\ UNCHANGED fut
         ELSE fut' = [fut EXCEPT ![Top(t).pkg] = Top(t).at] /\ UNCHANGED exit
  BY DEF Finalize, Results, IsRoot, TopLevel, Depth
<1>2. stack' \in [Threads -> Seq(Frames)] /\ Pops(t)
  BY <1>1, PopFacts
<1>3. LoadTypeOK'
  BY <1>1, <1>2, TopFacts DEF LoadTypeOK, given, Results
<1> QED BY <1>1, <1>2, <1>3

TakesJob(t) ==
  /\ t \in project.workers /\ stack[t] = <<>> /\ queue # <<>> /\ queue' = Tail(queue)
  /\ UNCHANGED <<given, fut, parent, alive, built, dangling, exit>>

LEMMA WorkEffect ==
  ASSUME LoadTypeOK, NEW t \in Threads, Work(t)
  PROVE  /\ LoadTypeOK' /\ TakesJob(t) /\ queue[1][2] \in Pkgs /\ Len(queue) \in Nat \ {0}
         /\ \/ /\ queue[1][1] = "load" /\ Depth(t) = 0 /\ Pushes(t, "load", 1, queue[1][2])
               /\ UNCHANGED <<unparsed, errcount>>
            \/ /\ queue[1][1] = "parse" /\ UNCHANGED stack
               /\ unparsed' = Signalled(queue[1][2], queue[1][3])
<1> DEFINE Q == {"load", "parse"} \X Pkgs \X Nat
<1>1. TakesJob(t)
  BY DEF Work, TakesJob
<1>2. queue \in Seq(Q)
  BY DEF LoadTypeOK
<1>3. queue # <<>> /\ queue' = Tail(queue)
  BY <1>1 DEF TakesJob
<1> HIDE DEF Q
<1>4. queue' \in Seq(Q) /\ queue[1] \in Q /\ Len(queue) \in Nat \ {0}
  BY <1>2, <1>3
<1>5. queue[1][2] \in Pkgs /\ queue[1][3] \in Nat
  BY <1>4 DEF Q
<1>6. CASE /\ queue[1][1] = "load"
           /\ stack' = [stack EXCEPT ![t] = <<Frame(queue[1][2], "load")>>]
           /\ UNCHANGED <<unparsed, errcount>>
  <2> DEFINE p == queue[1][2]
  <2>1. p \in Pkgs /\ stack' = [stack EXCEPT ![t] = <<Frame(p, "load")>>] /\ stack[t] = <<>>
    BY <1>1, <1>5, <1>6 DEF TakesJob
  <2> HIDE DEF p
  <2>2. stack' \in [Threads -> Seq(Frames)] /\ Depth(t) = 0 /\ Pushes(t, "load", 1, p)
    BY <2>1, StartFacts
  <2>3. LoadTypeOK'
    BY <2>2, <1>1, <1>4, <1>6 DEF LoadTypeOK, TakesJob, given, Q
  <2> QED BY <2>2, <2>3, <1>1, <1>4, <1>5, <1>6 DEF p
<1>7. CASE /\ queue[1][1] = "parse" /\ UNCHANGED stack
           /\ unparsed' = Signalled(queue[1][2], queue[1][3])
           /\ errcount' \in {errcount, errcount \/ MayFail}
  <2>1. errcount' \in BOOLEAN
    <3>1. errcount' = errcount \/ errcount' = (errcount \/ MayFail)
      BY <1>7
    <3>2. errcount \in BOOLEAN
      BY DEF LoadTypeOK
    <3> QED BY <3>1, <3>2, Zenon
  <2>2. unparsed' \in [Pkgs -> SUBSET Nat]
    BY <1>7 DEF LoadTypeOK, Signalled
  <2>3. LoadTypeOK'
    BY <2>1, <2>2, <1>1, <1>4, <1>7 DEF LoadTypeOK, TakesJob, given, Q
  <2> QED BY <2>3, <1>1, <1>4, <1>5, <1>7
<1> QED BY <1>6, <1>7 DEF Work

-----------------------------------------------------------------------------
(* Frames.                                                                   *)

LEMMA RangeFacts ==
  ASSUME LoadTypeOK, NEW p \in Pkgs
  PROVE  /\ Range(Imports(p)) = {Imports(p)[j] : j \in 1..Len(Imports(p))}
         /\ Range(Imports(p)) \subseteq Pkgs
<1>1. Imports(p) \in Seq(Pkgs)
  BY ProjectFacts
<1> QED BY <1>1 DEF Range

\* A load of Root waits for itself.
LEMMA RootNotReady ==
  ASSUME LoadTypeOK, DemandOK, OkClosed, fut[Root] # "none"
  PROVE  ~ \A j \in 1..Len(Imports(Root)) : fut[Imports(Root)[j]] = "ok"
<1> SUFFICES ASSUME \A j \in 1..Len(Imports(Root)) : fut[Imports(Root)[j]] = "ok"
             PROVE  FALSE
  OBVIOUS
<1>1. Root \in Pkgs
  BY ProjectFacts
<1>2. Range(Imports(Root)) \subseteq Loaded1
  BY <1>1, RangeFacts DEF Loaded1
<1>3. Root \in Demanded /\ Closed(Loaded1) /\ fut[Root] # "ok" /\ Loaded1 \in SUBSET Pkgs
  BY <1>1 DEF DemandOK, OkClosed, Loaded1
<1>4. Root \in Loaded1
  BY <1>2, <1>3 DEF Demanded
<1> QED BY <1>3, <1>4 DEF Loaded1

LEMMA FramesWalk ==
  ASSUME LoadTypeOK, FramesOK, DemandOK, OkClosed, NEW t \in Threads, Walks(t)
  PROVE  FramesOK'
<1> DEFINE f == Top(t)
           imps == Imports(f.pkg)
<1>1. PICK l \in LoadPCs, i \in Nat : MovesTop(t, l, i) /\ May(t, l, i)
  BY DEF Walks
<1>2. /\ project' = project /\ onDisk' = onDisk /\ fut' = fut /\ exit' = exit
      /\ stack[t] # <<>> /\ f.at \notin Submitting
  BY DEF Walks, given
<1>3. /\ Depth(t) \in Nat \ {0} /\ Top(t) = FrameAt(t, Depth(t)) /\ f.pkg \in Pkgs
      /\ Len(imps) \in Nat /\ f.i \in Nat
  BY <1>2, TopFacts, ProjectFacts
<1>4. Knows(f) /\ Role(t, Depth(t))
  BY <1>2, TopKnows
<1> DEFINE g == [pkg |-> f.pkg, at |-> l, i |-> i]
<1>5. FrameAt(t, Depth(t))' = g
  BY <1>1, <1>3 DEF MovesTop
<1>6. ASSUME NEW u \in Threads, NEW n \in 1..Depth(u)', ~(u = t /\ n = Depth(t))
      PROVE  Knows(FrameAt(u, n))' /\ Role(u, n)' /\ Below(u, n)'
  <2>1. n \in 1..Depth(u) /\ Depth(u)' = Depth(u) /\ FrameAt(u, n)' = FrameAt(u, n)
    BY <1>1, <1>6 DEF MovesTop
  <2>2. Knows(FrameAt(u, n)) /\ Role(u, n) /\ Below(u, n)
    BY <2>1 DEF FramesOK
  <2>3. Knows(FrameAt(u, n))' /\ Role(u, n)'
    BY <2>1, <2>2, <1>2 DEF Knows, Role, Imports, Sync, TopLevel
  <2>4. n < Depth(u) => FrameAt(u, n + 1)'.pkg = FrameAt(u, n + 1).pkg
    <3> SUFFICES ASSUME n < Depth(u) PROVE FrameAt(u, n + 1)'.pkg = FrameAt(u, n + 1).pkg
      OBVIOUS
    <3>1. n + 1 \in 1..Depth(u)
      BY <2>1, TopFacts DEF Depth, LoadTypeOK
    <3>2. \A m \in 1..Depth(u) : FrameAt(u, m)'.pkg = FrameAt(u, m).pkg
      BY <1>1, <1>3 DEF MovesTop
    <3> QED BY <3>1, <3>2
  <2> QED BY <2>1, <2>2, <2>3, <2>4, <1>2 DEF Below, Imports
<1>7. Knows(FrameAt(t, Depth(t)))'
  <2>1. l \notin Submitting
    BY <1>1 DEF May
  <2>2. l \in Metas \cup Imports1 => i \in 1..(Len(imps) + 1)
    BY <1>1 DEF May
  <2>3. l \in {"mwait", "bwait"} => \A j \in 1..(i - 1) : fut[imps[j]] = "ok"
    <3> SUFFICES ASSUME l \in {"mwait", "bwait"}, NEW j \in 1..(i - 1) PROVE fut[imps[j]] = "ok"
      OBVIOUS
    <3>1. i = 1 \/ (f.at = l /\ i = f.i + 1 /\ fut[imps[f.i]] = "ok")
      BY <1>1 DEF May
    <3> QED BY <3>1, <1>3, <1>4 DEF Knows
  <2>4. l \in ImportsDone => \A j \in 1..Len(imps) : fut[imps[j]] = "ok"
    BY <1>1, <1>3, <1>4 DEF May, Knows
  <2>5. g.pkg = f.pkg /\ g.at = l /\ g.i = i
    OBVIOUS
  <2> HIDE DEF g
  <2> QED BY <2>1, <2>2, <2>3, <2>4, <2>5, <1>2, <1>5 DEF Knows, Imports, Sync
<1>8. Role(t, Depth(t))'
  <2>1. TopLevel(t, Depth(t))' <=> TopLevel(t, Depth(t))
    BY <1>1 DEF MovesTop, TopLevel
  <2>2. g.pkg = f.pkg /\ g.at = l
    OBVIOUS
  <2> HIDE DEF g
  <2>3. CASE TopLevel(t, Depth(t))
    <3>1. f.pkg = Root /\ f.at \notin Metas \cup {"load", "api"}
      BY <1>3, <1>4, <2>3 DEF Role
    <3>2. l \notin Metas \cup {"load", "api"}
      BY <3>1, <2>3, <1>1 DEF May, Metas
    <3> QED BY <3>1, <3>2, <2>1, <2>2, <2>3, <1>5 DEF Role
  <2>4. CASE ~TopLevel(t, Depth(t))
    <3>1. fut[f.pkg] = "loading" /\ (f.pkg = Root => f.at \notin Metas \cup ImportsDone)
      BY <1>3, <1>4, <2>4 DEF Role
    <3>2. ASSUME f.pkg = Root PROVE l \notin Metas \cup ImportsDone
      <4>1. l \notin Metas
        BY <3>1, <3>2, <1>1 DEF May, FramesOK
      <4>2. ASSUME l \in ImportsDone PROVE FALSE
        <5>1. f.at \in {"mwait", "bwait"} /\ f.i > Len(imps)
          BY <3>1, <3>2, <4>2, <1>1 DEF May
        <5>2. \A j \in 1..Len(imps) : fut[imps[j]] = "ok"
          BY <5>1, <1>3, <1>4 DEF Knows
        <5> QED BY <5>2, <3>1, <3>2, RootNotReady
      <4> QED BY <4>1, <4>2
    <3> QED BY <3>1, <3>2, <2>1, <2>2, <2>4, <1>2, <1>5 DEF Role
  <2> QED BY <2>3, <2>4
<1>9. Below(t, Depth(t))'
  BY <1>1, <1>3 DEF Below, MovesTop
<1>10. exit' = "running" <=> Depth(Main)' > 0
  <2>1. Depth(Main)' = Depth(Main)
    BY <1>1, ProjectFacts DEF MovesTop
  <2> QED BY <2>1, <1>2 DEF FramesOK
<1>11. ASSUME NEW u \in Threads, NEW n \in 1..Depth(u)'
       PROVE  Knows(FrameAt(u, n))' /\ Role(u, n)' /\ Below(u, n)'
  <2>1. CASE u = t /\ n = Depth(t)
    <3>1. n = Depth(t)'
      BY <2>1, <1>1 DEF MovesTop
    <3> QED BY <3>1, <2>1, <1>7, <1>8, <1>9
  <2>2. CASE ~(u = t /\ n = Depth(t))
    BY <2>2, <1>6
  <2> QED BY <2>1, <2>2
<1> QED BY <1>2, <1>10, <1>11 DEF FramesOK

LEMMA FrameFacts ==
  ASSUME LoadTypeOK, NEW u \in Threads, NEW n \in 1..Depth(u)
  PROVE  /\ FrameAt(u, n) \in Frames /\ FrameAt(u, n).pkg \in Pkgs
         /\ FrameAt(u, n).at \in LoadPCs /\ FrameAt(u, n).i \in Nat
<1>1. stack[u] \in Seq(Frames)
  BY DEF LoadTypeOK
<1>2. FrameAt(u, n) \in Frames
  BY <1>1 DEF FrameAt, Depth
<1> QED BY <1>2 DEF Frames

\* A frame that is not touched keeps what it knows.
LEMMA FrameStays ==
  ASSUME LoadTypeOK, FramesOK, project' = project, NEW u \in Threads, NEW n \in 1..Depth(u),
         FrameAt(u, n)' = FrameAt(u, n),
         \A p \in Pkgs : fut[p] = "ok" => fut'[p] = "ok",
         ~TopLevel(u, n) => fut'[FrameAt(u, n).pkg] = "loading"
  PROVE  Knows(FrameAt(u, n))' /\ Role(u, n)'
<1> DEFINE f == FrameAt(u, n)
           imps == Imports(f.pkg)
<1>1. Knows(f) /\ Role(u, n)
  BY DEF FramesOK
<1>2. f.pkg \in Pkgs /\ f.i \in Nat /\ Len(imps) \in Nat
      /\ \A j \in 1..Len(imps) : imps[j] \in Pkgs
  BY FrameFacts, ProjectFacts
<1>3. /\ f.at \in {"mwait", "bwait"} => \A j \in 1..(f.i - 1) : fut'[imps[j]] = "ok"
      /\ f.at \in ImportsDone => \A j \in 1..Len(imps) : fut'[imps[j]] = "ok"
  BY <1>1, <1>2 DEF Knows, Imports1, Metas
<1>4. Knows(f)'
  BY <1>1, <1>3 DEF Knows, Imports, Sync
<1>5. Role(u, n)'
  BY <1>1 DEF Role, TopLevel
<1> QED BY <1>4, <1>5

\* What load_dependency acquires.
LEMMA AcquireFacts ==
  ASSUME LoadTypeOK, FramesOK, NEW t \in Threads, Acquires(t)
  PROVE  /\ Submitted(t) \in Pkgs /\ fut[Submitted(t)] = "none"
         /\ Top(t).i \in 1..Len(Imports(Top(t).pkg))
         /\ \A p \in Pkgs : fut'[p] = IF p = Submitted(t) THEN "loading" ELSE fut[p]
         /\ project' = project /\ onDisk' = onDisk /\ exit' = exit /\ queue' = queue
<1>1. stack[t] # <<>> /\ Top(t).at \in {"mload", "bload"} /\ Top(t).i <= Len(Imports(Top(t).pkg))
  BY DEF Acquires
<1>2. Top(t).pkg \in Pkgs /\ Top(t).i \in Nat /\ Knows(Top(t))
  BY <1>1, TopFacts, TopKnows
<1>3. Len(Imports(Top(t).pkg)) \in Nat
      /\ \A j \in 1..Len(Imports(Top(t).pkg)) : Imports(Top(t).pkg)[j] \in Pkgs
  BY <1>2, ProjectFacts
<1>4. Top(t).i \in 1..Len(Imports(Top(t).pkg))
  BY <1>1, <1>2, <1>3 DEF Knows, Metas, Imports1
<1>5. Submitted(t) \in Pkgs
  BY <1>3, <1>4 DEF Submitted
<1> QED BY <1>4, <1>5 DEF Acquires, LoadTypeOK, given

LEMMA FramesAcquireHere ==
  ASSUME LoadTypeOK, FramesOK, NEW t \in Threads, AcquiresHere(t)
  PROVE  FramesOK'
<1> DEFINE f == Top(t)
           imps == Imports(f.pkg)
           dep == Submitted(t)
           g == [pkg |-> f.pkg, at |-> f.at, i |-> f.i + 1]
<1>1. Acquires(t) /\ Pushes(t, f.at, f.i + 1, dep)
  BY DEF AcquiresHere
<1>2. /\ dep \in Pkgs /\ fut[dep] = "none" /\ f.i \in 1..Len(imps)
      /\ \A p \in Pkgs : fut'[p] = IF p = dep THEN "loading" ELSE fut[p]
      /\ project' = project /\ onDisk' = onDisk /\ exit' = exit
  BY <1>1, AcquireFacts
<1>3. stack[t] # <<>> /\ f.at \in {"mload", "bload"}
  BY <1>1 DEF Acquires
<1>4. /\ Depth(t) \in Nat \ {0} /\ f = FrameAt(t, Depth(t)) /\ f.pkg \in Pkgs
      /\ Len(imps) \in Nat /\ f.i \in Nat
  BY <1>3, TopFacts, ProjectFacts
<1>5. Knows(f) /\ Role(t, Depth(t))
  BY <1>3, TopKnows
<1>6. \A p \in Pkgs : (fut[p] = "ok" => fut'[p] = "ok") /\ (fut[p] = "loading" => fut'[p] = "loading")
  BY <1>2
<1>7. Depth(t)' = Depth(t) + 1 /\ \A u \in Threads \ {t} : Depth(u)' = Depth(u)
  BY <1>1 DEF Pushes
<1>8. ASSUME NEW u \in Threads, NEW n \in 1..Depth(u), ~(u = t /\ n = Depth(t))
      PROVE  Knows(FrameAt(u, n))' /\ Role(u, n)' /\ Below(u, n)'
  <2>1. FrameAt(u, n)' = FrameAt(u, n) /\ FrameAt(u, n).pkg \in Pkgs
    BY <1>1, <1>8, FrameFacts DEF Pushes
  <2>2. ~TopLevel(u, n) => fut'[FrameAt(u, n).pkg] = "loading"
    BY <2>1, <1>6 DEF FramesOK, Role
  <2>3. Knows(FrameAt(u, n))' /\ Role(u, n)'
    BY <2>1, <2>2, <1>2, <1>6, FrameStays
  <2>4. Below(u, n)
    BY DEF FramesOK
  <2>5. n < Depth(u)' => n < Depth(u)
    BY <1>4, <1>7, <1>8
  <2>6. n < Depth(u) => FrameAt(u, n + 1)'.pkg = FrameAt(u, n + 1).pkg
    <3> SUFFICES ASSUME n < Depth(u) PROVE FrameAt(u, n + 1)'.pkg = FrameAt(u, n + 1).pkg
      OBVIOUS
    <3>1. n + 1 \in 1..Depth(u)
      BY DepthFacts
    <3>2. \A m \in 1..Depth(u) : FrameAt(u, m)'.pkg = FrameAt(u, m).pkg
      BY <1>1, <1>4 DEF Pushes
    <3> QED BY <3>1, <3>2
  <2> QED BY <2>1, <2>3, <2>4, <2>5, <2>6, <1>2 DEF Below, Imports
<1>9. ASSUME NEW n, n = Depth(t)
      PROVE  Knows(FrameAt(t, n))' /\ Role(t, n)' /\ Below(t, n)'
  <2>1. n \in 1..Depth(t)
    BY <1>4, <1>9
  <2>2. FrameAt(t, n)' = g
    BY <2>1, <1>1, <1>9 DEF Pushes
  <2>3. g.pkg = f.pkg /\ g.at = f.at /\ g.i = f.i + 1
    OBVIOUS
  <2> HIDE DEF g
  <2>4. Knows(FrameAt(t, n))'
    BY <2>2, <2>3, <1>2, <1>3, <1>4
    DEF Knows, Imports, Sync, Submitting, ImportsDone, Metas, Imports1
  <2>5. Role(t, n)'
    BY <2>2, <2>3, <1>4, <1>5, <1>6, <1>9 DEF Role, TopLevel
  <2>6. FrameAt(t, n + 1)' = Frame(dep, "load")
    BY <1>1, <1>9, <1>7 DEF Pushes, FrameAt
  <2>7. Frame(dep, "load").pkg = dep /\ dep = imps[f.i]
    BY DEF Frame, Submitted
  <2>8. f.i + 1 > 1 /\ (f.i + 1) - 1 = f.i
    BY <1>2, <1>4
  <2>9. /\ FrameAt(t, n)'.at \in {"mload", "bload"} /\ FrameAt(t, n)'.i > 1
        /\ FrameAt(t, n)'.pkg = f.pkg /\ FrameAt(t, n)'.i - 1 = f.i
    BY <2>2, <2>3, <2>8, <1>3
  <2>10. project'.imports[f.pkg][f.i] = dep
    BY <2>7, <1>2 DEF Imports
  <2>11. Below(t, n)'
    BY <2>6, <2>7, <2>9, <2>10 DEF Below, Imports
  <2> QED BY <2>4, <2>5, <2>11
<1>10. ASSUME NEW n, n = Depth(t)'
       PROVE  Knows(FrameAt(t, n))' /\ Role(t, n)' /\ Below(t, n)'
  <2>1. FrameAt(t, n)' = Frame(dep, "load") /\ n # 1
    BY <1>1, <1>4, <1>7, <1>10 DEF Pushes, FrameAt
  <2>2. Frame(dep, "load").pkg = dep /\ Frame(dep, "load").at = "load"
    BY DEF Frame
  <2>3. Knows(FrameAt(t, n))' /\ Role(t, n)'
    BY <2>1, <2>2, <1>2 DEF Knows, Role, TopLevel, Submitting, ImportsDone, Metas, Imports1
  <2> QED BY <2>3, <1>4, <1>7, <1>10 DEF Below
<1>11. exit' = "running" <=> Depth(Main)' > 0
  <2>1. Main \in Threads /\ (exit = "running" <=> Depth(Main) > 0)
    BY ProjectFacts DEF FramesOK
  <2>2. CASE t = Main
    BY <2>1, <2>2, <1>2, <1>4, <1>7
  <2>3. CASE t # Main
    BY <2>1, <2>3, <1>2, <1>7
  <2> QED BY <2>2, <2>3
<1>12. ASSUME NEW u \in Threads, NEW n \in 1..Depth(u)'
       PROVE  Knows(FrameAt(u, n))' /\ Role(u, n)' /\ Below(u, n)'
  <2>1. n \in 1..Depth(u) \/ (u = t /\ n = Depth(t)')
    BY <1>4, <1>7
  <2> QED BY <2>1, <1>8, <1>9, <1>10
<1> QED BY <1>2, <1>11, <1>12 DEF FramesOK

\* A step that moves t's innermost frame, which still knows and does its part.
LEMMA FramesMove ==
  ASSUME LoadTypeOK, FramesOK, project' = project, onDisk' = onDisk, exit' = exit,
         \A p \in Pkgs : (fut[p] = "ok" => fut'[p] = "ok")
                         /\ (fut[p] = "loading" => fut'[p] = "loading"),
         NEW t \in Threads, stack[t] # <<>>, NEW l, NEW i, MovesTop(t, l, i),
         NEW d, d = Depth(t), Knows(FrameAt(t, d))', Role(t, d)'
  PROVE  FramesOK'
<1>1. Depth(t) \in Nat \ {0} /\ Main \in Threads
  BY TopFacts, ProjectFacts
<1>2. \A u \in Threads : Depth(u)' = Depth(u)
  BY DEF MovesTop
<1>3. ASSUME NEW u \in Threads, NEW n \in 1..Depth(u), ~(u = t /\ n = d)
      PROVE  Knows(FrameAt(u, n))' /\ Role(u, n)' /\ Below(u, n)'
  <2>1. FrameAt(u, n)' = FrameAt(u, n) /\ FrameAt(u, n).pkg \in Pkgs
    BY <1>3, FrameFacts DEF MovesTop
  <2>2. ~TopLevel(u, n) => fut'[FrameAt(u, n).pkg] = "loading"
    BY <2>1 DEF FramesOK, Role
  <2>3. Knows(FrameAt(u, n))' /\ Role(u, n)'
    BY <2>1, <2>2, FrameStays
  <2>4. Below(u, n)
    BY DEF FramesOK
  <2>5. n < Depth(u) => FrameAt(u, n + 1)'.pkg = FrameAt(u, n + 1).pkg
    <3> SUFFICES ASSUME n < Depth(u) PROVE FrameAt(u, n + 1)'.pkg = FrameAt(u, n + 1).pkg
      OBVIOUS
    <3>1. n + 1 \in 1..Depth(u)
      BY DepthFacts
    <3>2. \A m \in 1..Depth(u) : FrameAt(u, m)'.pkg = FrameAt(u, m).pkg
      <4>1. Top(t) = FrameAt(t, Depth(t))
        BY TopFacts
      <4> QED BY <4>1 DEF MovesTop
    <3> QED BY <3>1, <3>2
  <2> QED BY <1>2, <2>1, <2>3, <2>4, <2>5 DEF Below, Imports
<1>4. Below(t, d)'
  BY <1>1, <1>2 DEF Below
<1>5. exit' = "running" <=> Depth(Main)' > 0
  BY <1>1, <1>2 DEF FramesOK
<1>6. onDisk'[Root] = "stale"
  BY DEF FramesOK
<1>7. ASSUME NEW u \in Threads, NEW n \in 1..Depth(u)'
      PROVE  Knows(FrameAt(u, n))' /\ Role(u, n)' /\ Below(u, n)'
  <2>1. n \in 1..Depth(u)
    BY <1>2
  <2> QED BY <2>1, <1>3, <1>4
<1> QED BY <1>5, <1>6, <1>7 DEF FramesOK

LEMMA FramesAcquireToSubmit ==
  ASSUME LoadTypeOK, FramesOK, NEW t \in Threads, AcquiresToSubmit(t)
  PROVE  FramesOK'
<1> DEFINE f == Top(t)
           imps == Imports(f.pkg)
           dep == Submitted(t)
<1>1. Acquires(t) /\ ~Sync /\ f.i < Len(imps)
  BY DEF AcquiresToSubmit
<1>2. PICK l \in Submitting : MovesTop(t, l, f.i) /\ (f.at = "mload" <=> l = "msubmit")
  BY DEF AcquiresToSubmit
<1>3. /\ dep \in Pkgs /\ fut[dep] = "none" /\ f.i \in 1..Len(imps)
      /\ \A p \in Pkgs : fut'[p] = IF p = dep THEN "loading" ELSE fut[p]
      /\ project' = project /\ onDisk' = onDisk /\ exit' = exit
  BY <1>1, AcquireFacts
<1>4. stack[t] # <<>> /\ f.at \in {"mload", "bload"}
  BY <1>1 DEF Acquires
<1>5. /\ Depth(t) \in Nat \ {0} /\ f = FrameAt(t, Depth(t)) /\ f.pkg \in Pkgs
      /\ Len(imps) \in Nat /\ f.i \in Nat
  BY <1>4, TopFacts, ProjectFacts
<1>6. Role(t, Depth(t))
  BY <1>4, TopKnows
<1>7. \A p \in Pkgs : (fut[p] = "ok" => fut'[p] = "ok") /\ (fut[p] = "loading" => fut'[p] = "loading")
  BY <1>3
<1>8. ASSUME NEW d, d = Depth(t)
      PROVE  Knows(FrameAt(t, d))' /\ Role(t, d)'
  <2>1. FrameAt(t, d)' = [pkg |-> f.pkg, at |-> l, i |-> f.i]
    BY <1>2, <1>5, <1>8 DEF MovesTop
  <2>2. FrameAt(t, d)'.pkg = f.pkg /\ FrameAt(t, d)'.at = l /\ FrameAt(t, d)'.i = f.i
    BY <2>1
  <2>3. Knows(FrameAt(t, d))'
    BY <2>2, <1>1, <1>3, <1>5 DEF Knows, Imports, Sync, Submitting, ImportsDone
  <2>4. TopLevel(t, d) => f.pkg = Root /\ f.at # "mload"
    BY <1>5, <1>6, <1>8 DEF Role, Metas
  <2>5. ~TopLevel(t, d) => fut[f.pkg] = "loading" /\ (f.pkg = Root => f.at # "mload")
    BY <1>5, <1>6, <1>8 DEF Role, Metas
  <2>6. f.at # "mload" => l = "bsubmit"
    BY <1>2 DEF Submitting
  <2>7. Role(t, d)'
    BY <2>2, <2>4, <2>5, <2>6, <1>5, <1>7 DEF Role, TopLevel, Metas, ImportsDone, Submitting
  <2> QED BY <2>3, <2>7
<1> QED BY <1>2, <1>3, <1>4, <1>7, <1>8, FramesMove

LEMMA FramesHand ==
  ASSUME LoadTypeOK, FramesOK, NEW t \in Threads, Hands(t)
  PROVE  FramesOK'
<1> DEFINE f == Top(t)
           imps == Imports(f.pkg)
<1>1. PICK l \in {"mload", "bload"} : MovesTop(t, l, f.i + 1) /\ (f.at = "msubmit" <=> l = "mload")
  BY DEF Hands
<1>2. /\ stack[t] # <<>> /\ f.at \in Submitting
      /\ project' = project /\ onDisk' = onDisk /\ exit' = exit /\ fut' = fut
  BY DEF Hands, Submits, given
<1>3. /\ Depth(t) \in Nat \ {0} /\ f = FrameAt(t, Depth(t)) /\ f.pkg \in Pkgs
      /\ Len(imps) \in Nat /\ f.i \in Nat
  BY <1>2, TopFacts, ProjectFacts
<1>4. Knows(f) /\ Role(t, Depth(t))
  BY <1>2, TopKnows
<1>5. ASSUME NEW d, d = Depth(t)
      PROVE  Knows(FrameAt(t, d))' /\ Role(t, d)'
  <2>1. FrameAt(t, d)' = [pkg |-> f.pkg, at |-> l, i |-> f.i + 1]
    BY <1>1, <1>3, <1>5 DEF MovesTop
  <2>2. FrameAt(t, d)'.pkg = f.pkg /\ FrameAt(t, d)'.at = l /\ FrameAt(t, d)'.i = f.i + 1
    BY <2>1
  <2>3. f.i < Len(imps)
    BY <1>2, <1>4 DEF Knows
  <2>4. Knows(FrameAt(t, d))'
    BY <2>2, <2>3, <1>2, <1>3 DEF Knows, Imports, Sync, Submitting, ImportsDone
  <2>5. TopLevel(t, d) => f.pkg = Root /\ f.at # "msubmit"
    BY <1>3, <1>4, <1>5 DEF Role, Metas
  <2>6. ~TopLevel(t, d) => fut[f.pkg] = "loading" /\ (f.pkg = Root => f.at # "msubmit")
    BY <1>3, <1>4, <1>5 DEF Role, Metas
  <2>7. Role(t, d)'
    BY <2>2, <2>5, <2>6, <1>1, <1>2, <1>3 DEF Role, TopLevel, Metas, ImportsDone
  <2> QED BY <2>4, <2>7
<1> QED BY <1>1, <1>2, <1>5, FramesMove

-----------------------------------------------------------------------------
(* Who has acquired a package.                                               *)

LEMMA HoldsFacts ==
  ASSUME NEW p, NEW u \in Threads, NEW n \in Nat
  PROVE  /\ <<"frame", u, n>> \in Holders /\ <<"submit", u, n>> \in Holders
         /\ <<"job", u, n>> \in Holders
         /\ Holds(<<"frame", u, n>>, p) <=> FrameHolds(u, n, p)
         /\ Holds(<<"submit", u, n>>, p) <=> n = 0 /\ SubmitHolds(u, p)
         /\ Holds(<<"job", u, n>>, p) <=> u = Main /\ JobHolds(n, p)
BY DEF Holds, Holders

LEMMA HoldsFactsNext ==
  ASSUME NEW p, NEW u \in Threads, NEW n \in Nat
  PROVE  /\ Holds(<<"frame", u, n>>, p)' <=> FrameHolds(u, n, p)'
         /\ Holds(<<"submit", u, n>>, p)' <=> n = 0 /\ SubmitHolds(u, p)'
         /\ Holds(<<"job", u, n>>, p)' <=> u = Main /\ JobHolds(n, p)'
BY DEF Holds

\* Every holder held its package before, as itself or as another holder that
\* it has taken over from.
LEMMA HoldersKeep ==
  ASSUME HoldersOK, NEW was \in [Holders -> Holders],
         \A h \in Holders, p \in Pkgs : Holds(h, p)' => Holds(was[h], p) /\ fut'[p] = "loading",
         \A h, g \in Holders, p \in Pkgs :
           Holds(h, p)' /\ Holds(g, p)' /\ was[h] = was[g] => h = g
  PROVE  HoldersOK'
BY DEF HoldersOK

\* A thread whose stack does not change submits what it did.
LEMMA SubmitStays ==
  ASSUME LoadTypeOK, LoadTypeOK', NEW u \in Threads, project' = project,
         Depth(u)' = Depth(u), \A n \in 1..Depth(u) : FrameAt(u, n)' = FrameAt(u, n)
  PROVE  /\ (stack[u] # <<>>)' <=> stack[u] # <<>>
         /\ stack[u] # <<>> => Top(u)' = Top(u)
         /\ Submits(u)' <=> Submits(u)
         /\ \A p : SubmitHolds(u, p)' <=> SubmitHolds(u, p)
<1>1. Depth(u) \in Nat /\ (Depth(u) = 0 <=> stack[u] = <<>>)
  BY DepthFacts
<1>2. Depth(u)' = 0 <=> (stack[u] = <<>>)'
  BY DEF LoadTypeOK, Depth
<1>3. ASSUME stack[u] # <<>> PROVE Top(u)' = Top(u)
  <2>1. Depth(u) \in 1..Depth(u) /\ Top(u) = FrameAt(u, Depth(u))
    BY <1>3, TopFacts
  <2>2. Top(u)' = stack'[u][Depth(u)']
    BY DEF Top, Depth
  <2>3. \A n \in 1..Depth(u) : stack'[u][n] = FrameAt(u, n)
    BY DEF FrameAt
  <2> QED BY <2>1, <2>2, <2>3
<1> QED BY <1>1, <1>2, <1>3 DEF Submits, SubmitHolds, Submitted, Imports

\* A job that is appended.
LEMMA AppendedJob ==
  ASSUME LoadTypeOK, NEW p \in Pkgs, NEW j, queue' = Append(queue, j), NEW k \in Nat
  PROVE  JobHolds(k, p)' <=> JobHolds(k, p) \/ (k = Len(queue) + 1 /\ j[1] = "load" /\ j[2] = p)
<1>1. Len(queue) \in Nat
  BY DEF LoadTypeOK
<1>2. /\ Len(queue') = Len(queue) + 1 /\ queue'[Len(queue) + 1] = j
      /\ \A m \in 1..Len(queue) : queue'[m] = queue[m]
  <2>1. queue \in Seq({"load", "parse"} \X Pkgs \X Nat)
    BY DEF LoadTypeOK
  <2>2. queue \in Seq({"load", "parse"} \X Pkgs \X Nat \cup {j})
    BY <2>1
  <2> QED BY <2>2
<1> QED BY <1>1, <1>2 DEF JobHolds

LEMMA HoldersWalk ==
  ASSUME LoadTypeOK, LoadTypeOK', HoldersOK, NEW t \in Threads, Walks(t)
  PROVE  HoldersOK'
<1>1. PICK l \in LoadPCs, i \in Nat : MovesTop(t, l, i) /\ May(t, l, i)
  BY DEF Walks
<1>2. /\ project' = project /\ fut' = fut /\ stack[t] # <<>> /\ l \notin Submitting
  BY <1>1 DEF Walks, given, May
<1>3. ASSUME NEW u \in Threads, NEW n \in Nat, NEW p \in Pkgs
      PROVE  /\ FrameHolds(u, n, p)' => FrameHolds(u, n, p)
             /\ SubmitHolds(u, p)' => SubmitHolds(u, p)
             /\ JobHolds(n, p)' => JobHolds(n, p)
  <2>1. Top(t) = FrameAt(t, Depth(t)) /\ Depth(t) \in 1..Depth(t)
    BY <1>2, TopFacts
  <2>2. \A m \in 1..Depth(u) : FrameAt(u, m)'.pkg = FrameAt(u, m).pkg
    BY <1>1, <2>1 DEF MovesTop
  <2>3. FrameHolds(u, n, p)' => FrameHolds(u, n, p)
    BY <1>1, <2>2 DEF FrameHolds, MovesTop, TopLevel
  <2>4. SubmitHolds(u, p)' => SubmitHolds(u, p)
    <3>1. CASE u = t
      <4>1. Top(t)' = stack'[t][Depth(t)']
        BY DEF Top, Depth
      <4>2. \A m \in 1..Depth(t) : stack'[t][m] = FrameAt(t, m)'
        BY DEF FrameAt
      <4>3. Depth(t)' = Depth(t)
        BY <1>1 DEF MovesTop
      <4>4. Top(t)'.at = l
        BY <4>1, <4>2, <4>3, <2>1, <1>1 DEF MovesTop
      <4> QED BY <4>4, <3>1, <1>2 DEF SubmitHolds, Submits
    <3>2. CASE u # t
      BY <3>2, <1>1, <1>2, SubmitStays DEF MovesTop
    <3> QED BY <3>1, <3>2
  <2>5. JobHolds(n, p)' => JobHolds(n, p)
    <3>1. CASE queue' = queue
      BY <3>1 DEF JobHolds
    <3>2. CASE queue' # queue
      <4>1. PICK x \in Nat : queue' = Append(queue, ParseJob(Top(t).pkg, x))
        BY <3>2 DEF Walks
      <4>2. ParseJob(Top(t).pkg, x)[1] # "load"
        BY DEF ParseJob
      <4> QED BY <4>1, <4>2, AppendedJob
    <3> QED BY <3>1, <3>2
  <2> QED BY <2>3, <2>4, <2>5
<1>4. \A h \in Holders, p \in Pkgs : Holds(h, p)' => Holds(h, p)
  BY <1>3 DEF Holds, Holders
<1> QED BY <1>2, <1>4 DEF HoldersOK

\* A package that nobody had acquired gets one holder.
LEMMA HoldersAcquire ==
  ASSUME HoldersOK, NEW dep \in Pkgs, fut[dep] = "none",
         \A p \in Pkgs : fut'[p] = IF p = dep THEN "loading" ELSE fut[p],
         NEW new \in Holders,
         \A h \in Holders, p \in Pkgs : Holds(h, p)' => Holds(h, p) \/ (h = new /\ p = dep)
  PROVE  HoldersOK'
<1>1. ASSUME NEW h \in Holders, NEW p \in Pkgs, Holds(h, p)'
      PROVE  /\ fut'[p] = "loading"
             /\ IF p = dep THEN h = new ELSE Holds(h, p)
  BY <1>1 DEF HoldersOK
<1> QED BY <1>1 DEF HoldersOK

LEMMA HoldersAcquireHere ==
  ASSUME LoadTypeOK, LoadTypeOK', FramesOK, HoldersOK, NEW t \in Threads, AcquiresHere(t)
  PROVE  HoldersOK'
<1> DEFINE f == Top(t)
           dep == Submitted(t)
           new == <<"frame", t, Depth(t) + 1>>
<1>1. Acquires(t) /\ Pushes(t, f.at, f.i + 1, dep)
  BY DEF AcquiresHere
<1>2. /\ dep \in Pkgs /\ fut[dep] = "none" /\ project' = project /\ queue' = queue
      /\ \A p \in Pkgs : fut'[p] = IF p = dep THEN "loading" ELSE fut[p]
  BY <1>1, AcquireFacts
<1>3. stack[t] # <<>> /\ f.at \in {"mload", "bload"}
  BY <1>1 DEF Acquires
<1>4. Depth(t) \in Nat \ {0} /\ f = FrameAt(t, Depth(t)) /\ Depth(t) \in 1..Depth(t)
  BY <1>3, TopFacts
<1>5. /\ Depth(t)' = Depth(t) + 1 /\ \A u \in Threads \ {t} : Depth(u)' = Depth(u)
      /\ FrameAt(t, Depth(t))' = Frame(dep, "load")
      /\ \A u \in Threads : \A m \in 1..Depth(u) : FrameAt(u, m)'.pkg = FrameAt(u, m).pkg
      /\ \A u \in Threads \ {t} : \A m \in 1..Depth(u) : FrameAt(u, m)' = FrameAt(u, m)
  BY <1>1, <1>4 DEF Pushes
<1>6. ASSUME NEW u \in Threads, NEW n \in Nat, NEW p \in Pkgs
      PROVE  /\ FrameHolds(u, n, p)' => FrameHolds(u, n, p) \/ (u = t /\ n = Depth(t) + 1 /\ p = dep)
             /\ SubmitHolds(u, p)' => SubmitHolds(u, p)
             /\ JobHolds(n, p)' => JobHolds(n, p)
  <2>1. FrameHolds(u, n, p)' => FrameHolds(u, n, p) \/ (u = t /\ n = Depth(t) + 1 /\ p = dep)
    <3>1. Frame(dep, "load").pkg = dep
      BY DEF Frame
    <3>2. CASE n \in 1..Depth(u)
      BY <3>2, <1>5 DEF FrameHolds, TopLevel
    <3>3. CASE n \notin 1..Depth(u)
      <4> SUFFICES ASSUME FrameHolds(u, n, p)'
                   PROVE  u = t /\ n = Depth(t) + 1 /\ p = dep
        OBVIOUS
      <4>1. u = t /\ n = Depth(t) + 1 /\ n = Depth(t)'
        BY <3>3, <1>4, <1>5 DEF FrameHolds
      <4>2. FrameAt(t, n)'.pkg = p
        BY <4>1 DEF FrameHolds
      <4> QED BY <4>1, <4>2, <3>1, <1>5 DEF FrameAt
    <3> QED BY <3>2, <3>3
  <2>2. SubmitHolds(u, p)' => SubmitHolds(u, p)
    <3>1. CASE u = t
      <4>1. Top(t)' = FrameAt(t, Depth(t))'
        BY DEF Top, FrameAt, Depth
      <4>2. Top(t)'.at = "load"
        BY <4>1, <1>5 DEF Frame
      <4> QED BY <4>2, <3>1 DEF SubmitHolds, Submits, Submitting
    <3>2. CASE u # t
      BY <3>2, <1>2, <1>5, SubmitStays
    <3> QED BY <3>1, <3>2
  <2> QED BY <2>1, <2>2, <1>2 DEF JobHolds
<1>7. new \in Holders
  BY <1>4 DEF Holders
<1>8. \A h \in Holders, p \in Pkgs : Holds(h, p)' => Holds(h, p) \/ (h = new /\ p = dep)
  BY <1>6 DEF Holds, Holders
<1> QED BY <1>2, <1>7, <1>8, HoldersAcquire

\* The innermost frame after it has moved.
LEMMA MovedTop ==
  ASSUME LoadTypeOK, NEW t \in Threads, stack[t] # <<>>, NEW l, NEW i, MovesTop(t, l, i),
         project' = project, LoadTypeOK'
  PROVE  /\ Top(t)'.pkg = Top(t).pkg /\ Top(t)'.at = l /\ Top(t)'.i = i
         /\ (stack[t] # <<>>)'
         /\ i = Top(t).i => Submitted(t)' = Submitted(t)
         /\ \A u \in Threads : \A m \in 1..Depth(u) : FrameAt(u, m)'.pkg = FrameAt(u, m).pkg
<1>1. Top(t) = FrameAt(t, Depth(t)) /\ Depth(t) \in 1..Depth(t) /\ Depth(t) \in Nat \ {0}
  BY TopFacts
<1>2. Top(t)' = stack'[t][Depth(t)']
  BY DEF Top, Depth
<1>3. \A m \in 1..Depth(t) : stack'[t][m] = FrameAt(t, m)'
  BY DEF FrameAt
<1>4. Depth(t)' = Depth(t)
  BY DEF MovesTop
<1>5. Top(t)'.pkg = Top(t).pkg /\ Top(t)'.at = l /\ Top(t)'.i = i
  BY <1>1, <1>2, <1>3, <1>4 DEF MovesTop
<1>6. (stack[t] # <<>>)'
  <2>1. (stack[t] = <<>>)' => Depth(t)' = 0
    BY DEF Depth
  <2> QED BY <2>1, <1>1, <1>4
<1>7. i = Top(t).i => Submitted(t)' = Submitted(t)
  BY <1>5 DEF Submitted, Imports
<1> QED BY <1>1, <1>5, <1>6, <1>7 DEF MovesTop

LEMMA HoldersAcquireToSubmit ==
  ASSUME LoadTypeOK, LoadTypeOK', FramesOK, HoldersOK, NEW t \in Threads, AcquiresToSubmit(t)
  PROVE  HoldersOK'
<1> DEFINE f == Top(t)
           dep == Submitted(t)
           new == <<"submit", t, 0>>
<1>1. Acquires(t)
  BY DEF AcquiresToSubmit
<1>2. PICK l \in Submitting : MovesTop(t, l, f.i)
  BY DEF AcquiresToSubmit
<1>3. /\ dep \in Pkgs /\ fut[dep] = "none" /\ project' = project /\ queue' = queue
      /\ \A p \in Pkgs : fut'[p] = IF p = dep THEN "loading" ELSE fut[p]
  BY <1>1, AcquireFacts
<1>4. stack[t] # <<>>
  BY <1>1 DEF Acquires
<1>5. /\ \A u \in Threads : \A m \in 1..Depth(u) : FrameAt(u, m)'.pkg = FrameAt(u, m).pkg
      /\ Submitted(t)' = dep
  BY <1>2, <1>3, <1>4, MovedTop
<1>6. ASSUME NEW u \in Threads, NEW n \in Nat, NEW p \in Pkgs
      PROVE  /\ FrameHolds(u, n, p)' => FrameHolds(u, n, p)
             /\ SubmitHolds(u, p)' => SubmitHolds(u, p) \/ (u = t /\ p = dep)
             /\ JobHolds(n, p)' => JobHolds(n, p)
  <2>1. FrameHolds(u, n, p)' => FrameHolds(u, n, p)
    BY <1>2, <1>5 DEF FrameHolds, TopLevel, MovesTop
  <2>2. SubmitHolds(u, p)' => SubmitHolds(u, p) \/ (u = t /\ p = dep)
    <3>1. CASE u = t
      BY <3>1, <1>5 DEF SubmitHolds
    <3>2. CASE u # t
      BY <3>2, <1>2, <1>3, SubmitStays DEF MovesTop
    <3> QED BY <3>1, <3>2
  <2> QED BY <2>1, <2>2, <1>3 DEF JobHolds
<1>7. new \in Holders
  BY DEF Holders
<1>8. \A h \in Holders, p \in Pkgs : Holds(h, p)' => Holds(h, p) \/ (h = new /\ p = dep)
  BY <1>6 DEF Holds, Holders
<1> QED BY <1>3, <1>7, <1>8, HoldersAcquire

LEMMA HoldersHand ==
  ASSUME LoadTypeOK, LoadTypeOK', FramesOK, HoldersOK, NEW t \in Threads, Hands(t)
  PROVE  HoldersOK'
<1> DEFINE f == Top(t)
           k == Len(queue) + 1
           job == <<"job", Main, k>>
           old == <<"submit", t, 0>>
           was == [h \in Holders |-> IF h = job THEN old ELSE h]
<1>1. PICK l \in {"mload", "bload"} : MovesTop(t, l, f.i + 1)
  BY DEF Hands
<1>2. /\ stack[t] # <<>> /\ Submits(t) /\ queue' = Append(queue, LoadJob(Submitted(t)))
      /\ project' = project /\ fut' = fut
  BY DEF Hands, Submits, given
<1>3. Top(t)'.at = l /\ \A u \in Threads : \A m \in 1..Depth(u) : FrameAt(u, m)'.pkg = FrameAt(u, m).pkg
  BY <1>1, <1>2, MovedTop
<1>4. Len(queue) \in Nat
  BY DEF LoadTypeOK
<1>5. ASSUME NEW u \in Threads, NEW n \in Nat, NEW p \in Pkgs
      PROVE  /\ FrameHolds(u, n, p)' => FrameHolds(u, n, p)
             /\ SubmitHolds(u, p)' => SubmitHolds(u, p) /\ u # t
             /\ JobHolds(n, p)' => JobHolds(n, p) \/ (n = k /\ SubmitHolds(t, p))
             /\ JobHolds(n, p) => n # k
  <2>1. FrameHolds(u, n, p)' => FrameHolds(u, n, p)
    BY <1>1, <1>3 DEF FrameHolds, TopLevel, MovesTop
  <2>2. SubmitHolds(u, p)' => SubmitHolds(u, p) /\ u # t
    <3>1. CASE u = t
      BY <3>1, <1>3 DEF SubmitHolds, Submits, Submitting
    <3>2. CASE u # t
      BY <3>2, <1>1, <1>2, SubmitStays DEF MovesTop
    <3> QED BY <3>1, <3>2
  <2>3. LoadJob(Submitted(t))[2] = Submitted(t)
    BY DEF LoadJob
  <2>4. JobHolds(n, p)' => JobHolds(n, p) \/ (n = k /\ SubmitHolds(t, p))
    BY <2>3, <1>2, AppendedJob DEF SubmitHolds
  <2>5. JobHolds(n, p) => n # k
    BY <1>4 DEF JobHolds
  <2> QED BY <2>1, <2>2, <2>4, <2>5
<1>6. job \in Holders /\ old \in Holders /\ was \in [Holders -> Holders] /\ Main \in Threads
  BY <1>4, ProjectFacts DEF Holders
<1>7. ASSUME NEW h \in Holders, NEW p \in Pkgs, Holds(h, p)'
      PROVE  Holds(was[h], p) /\ h # old
  <2>1. PICK x \in {"frame", "submit", "job"}, u \in Threads, n \in Nat : h = <<x, u, n>>
    BY DEF Holders
  <2>2. CASE x = "frame"
    BY <2>1, <2>2, <1>5, <1>6, <1>7, HoldsFacts, HoldsFactsNext
  <2>3. CASE x = "submit"
    BY <2>1, <2>3, <1>5, <1>6, <1>7, HoldsFacts, HoldsFactsNext
  <2>4. CASE x = "job"
    <3>1. u = Main /\ JobHolds(n, p)'
      BY <2>1, <2>4, <1>7, HoldsFactsNext
    <3>2. CASE n = k
      <4>1. SubmitHolds(t, p)
        BY <3>1, <3>2, <1>5
      <4>2. h = job
        BY <3>1, <3>2, <2>1, <2>4
      <4> QED BY <4>1, <4>2, <1>6, HoldsFacts
    <3>3. CASE n # k
      <4>1. JobHolds(n, p)
        BY <3>1, <3>3, <1>5
      <4>2. h # job
        BY <3>3, <2>1
      <4> QED BY <4>1, <4>2, <3>1, <2>1, <2>4, <1>6, HoldsFacts
    <3> QED BY <3>2, <3>3
  <2> QED BY <2>2, <2>3, <2>4
<1>8. \A h \in Holders, p \in Pkgs : Holds(h, p)' => fut'[p] = "loading"
  BY <1>2, <1>6, <1>7 DEF HoldersOK
<1>9. \A h, g \in Holders, p \in Pkgs : Holds(h, p)' /\ Holds(g, p)' /\ was[h] = was[g] => h = g
  BY <1>6, <1>7
<1> HIDE DEF was
<1> QED BY <1>6, <1>7, <1>8, <1>9, HoldersKeep

\* What is under the innermost frame waits in a loop over its imports.
LEMMA HoldersFinalize ==
  ASSUME LoadTypeOK, LoadTypeOK', FramesOK, HoldersOK, NEW t \in Threads, Finalize(t)
  PROVE  /\ HoldersOK'
         /\ \A h \in Holders, p \in Pkgs : Holds(h, p)' => Holds(h, p)
<1> DEFINE f == Top(t)
           old == <<"frame", t, Depth(t)>>
<1>1. /\ stack[t] # <<>> /\ Pops(t) /\ project' = project /\ queue' = queue
      /\ IF TopLevel(t, Depth(t)) THEN fut' = fut ELSE fut' = [fut EXCEPT ![f.pkg] = f.at]
  BY FinalizeEffect DEF given
<1>2. Depth(t) \in Nat \ {0} /\ f = FrameAt(t, Depth(t)) /\ f.pkg \in Pkgs
  BY <1>1, TopFacts
<1>3. ASSUME NEW u \in Threads, NEW n \in Nat, NEW p \in Pkgs
      PROVE  /\ FrameHolds(u, n, p)' => FrameHolds(u, n, p) /\ ~(u = t /\ n = Depth(t))
             /\ SubmitHolds(u, p)' => SubmitHolds(u, p)
             /\ JobHolds(n, p)' => JobHolds(n, p)
  <2>1. FrameHolds(u, n, p)' => FrameHolds(u, n, p) /\ ~(u = t /\ n = Depth(t))
    <3> SUFFICES ASSUME FrameHolds(u, n, p)'
                 PROVE  FrameHolds(u, n, p) /\ ~(u = t /\ n = Depth(t))
      OBVIOUS
    <3>1. n \in 1..Depth(u)' /\ FrameAt(u, n)'.pkg = p /\ ~TopLevel(u, n)
      BY DEF FrameHolds, TopLevel
    <3>2. FrameAt(u, n)' = FrameAt(u, n)
      BY <3>1, <1>1 DEF Pops
    <3>3. n \in 1..Depth(u) /\ ~(u = t /\ n = Depth(t))
      BY <3>1, <1>1, <1>2 DEF Pops
    <3> QED BY <3>1, <3>2, <3>3 DEF FrameHolds
  <2>2. SubmitHolds(u, p)' => SubmitHolds(u, p)
    <3>1. CASE u = t
      <4> SUFFICES ASSUME Submits(t)' PROVE FALSE
        BY <3>1 DEF SubmitHolds
      <4>1. (stack[t] # <<>>)' /\ Top(t)'.at \in Submitting
        BY DEF Submits
      <4>2. Depth(t)' \in Nat \ {0}
        BY <4>1 DEF LoadTypeOK, Depth
      <4> DEFINE m == Depth(t) - 1
      <4>3. m \in 1..Depth(t) /\ m < Depth(t) /\ m = Depth(t)' /\ m \in 1..Depth(t)'
        BY <4>2, <1>1, <1>2 DEF Pops
      <4>4. Top(t)' = stack'[t][Depth(t)']
        BY DEF Top, Depth
      <4>5. \A x \in 1..Depth(t)' : stack'[t][x] = FrameAt(t, x)
        BY <1>1 DEF Pops, FrameAt
      <4>6. Top(t)' = FrameAt(t, m)
        BY <4>3, <4>4, <4>5
      <4>7. FrameAt(t, m).at \in {"mload", "bload"}
        BY <4>3 DEF FramesOK, Below
      <4> QED BY <4>1, <4>6, <4>7 DEF Submitting
    <3>2. CASE u # t
      <4>1. Depth(u)' = Depth(u) /\ \A x \in 1..Depth(u) : FrameAt(u, x)' = FrameAt(u, x)
        BY <3>2, <1>1 DEF Pops
      <4> QED BY <4>1, <1>1, SubmitStays
    <3> QED BY <3>1, <3>2
  <2> QED BY <2>1, <2>2, <1>1 DEF JobHolds
<1>4. \A h \in Holders, p \in Pkgs : Holds(h, p)' => Holds(h, p) /\ h # old
  BY <1>3 DEF Holds, Holders
<1>5. ASSUME NEW h \in Holders, NEW p \in Pkgs, Holds(h, p)'
      PROVE  fut'[p] = "loading"
  <2>1. Holds(h, p) /\ fut[p] = "loading" /\ h # old
    BY <1>4, <1>5 DEF HoldersOK
  <2>2. CASE TopLevel(t, Depth(t))
    BY <2>1, <2>2, <1>1
  <2>3. CASE ~TopLevel(t, Depth(t))
    <3>1. old \in Holders /\ Holds(old, f.pkg)
      BY <2>3, <1>2 DEF Holds, Holders, FrameHolds
    <3>2. p # f.pkg
      BY <2>1, <3>1 DEF HoldersOK
    <3> QED BY <2>1, <2>3, <3>2, <1>1 DEF LoadTypeOK
  <2> QED BY <2>2, <2>3
<1> QED BY <1>4, <1>5 DEF HoldersOK

\* The future of a package that is loaded is finalized by its only holder.
LEMMA FinalizeFacts ==
  ASSUME LoadTypeOK, FramesOK, HoldersOK, NEW t \in Threads, Finalize(t)
  PROVE  /\ project' = project /\ onDisk' = onDisk
         /\ ~TopLevel(t, Depth(t)) => fut[Top(t).pkg] = "loading"
         /\ \A p \in Pkgs : fut'[p] = IF ~TopLevel(t, Depth(t)) /\ p = Top(t).pkg
                                      THEN Top(t).at ELSE fut[p]
         /\ \A p \in Pkgs : fut[p] = "ok" => fut'[p] = "ok"
         /\ \A u \in Threads : \A n \in 1..Depth(u) :
              ~TopLevel(u, n) /\ ~(u = t /\ n = Depth(t)) => fut'[FrameAt(u, n).pkg] = "loading"
<1> DEFINE f == Top(t)
<1>1. /\ stack[t] # <<>> /\ project' = project /\ onDisk' = onDisk
      /\ IF TopLevel(t, Depth(t)) THEN fut' = fut ELSE fut' = [fut EXCEPT ![f.pkg] = f.at]
  BY FinalizeEffect DEF given
<1>2. Depth(t) \in Nat \ {0} /\ Depth(t) \in 1..Depth(t) /\ f = FrameAt(t, Depth(t)) /\ f.pkg \in Pkgs
  BY <1>1, TopFacts
<1>3. ~TopLevel(t, Depth(t)) => fut[f.pkg] = "loading"
  BY <1>1, <1>2, TopKnows DEF Role
<1>4. \A p \in Pkgs : fut'[p] = IF ~TopLevel(t, Depth(t)) /\ p = f.pkg THEN f.at ELSE fut[p]
  BY <1>1, <1>2 DEF LoadTypeOK
<1>5. ASSUME NEW u \in Threads, NEW n \in 1..Depth(u), ~TopLevel(u, n), ~(u = t /\ n = Depth(t))
      PROVE  fut'[FrameAt(u, n).pkg] = "loading"
  <2> DEFINE p == FrameAt(u, n).pkg
  <2>1. p \in Pkgs /\ fut[p] = "loading" /\ n \in Nat
    BY <1>5, FrameFacts, DepthFacts DEF FramesOK, Role
  <2>2. FrameHolds(u, n, p)
    BY <1>5 DEF FrameHolds
  <2>3. ASSUME ~TopLevel(t, Depth(t)), p = f.pkg PROVE FALSE
    <3>1. FrameHolds(t, Depth(t), p)
      BY <2>3, <1>2 DEF FrameHolds
    <3>2. /\ <<"frame", u, n>> \in Holders /\ <<"frame", t, Depth(t)>> \in Holders
          /\ Holds(<<"frame", u, n>>, p) /\ Holds(<<"frame", t, Depth(t)>>, p)
      BY <2>1, <2>2, <3>1, <1>2, HoldsFacts
    <3>3. <<"frame", u, n>> = <<"frame", t, Depth(t)>>
      BY <2>1, <3>2 DEF HoldersOK
    <3> QED BY <3>3, <1>5
  <2> QED BY <2>1, <2>3, <1>4
<1> QED BY <1>1, <1>3, <1>4, <1>5

LEMMA FramesFinalize ==
  ASSUME LoadTypeOK, LoadTypeOK', FramesOK, HoldersOK, exit = "running", NEW t \in Threads, Finalize(t)
  PROVE  FramesOK'
<1>1. /\ stack[t] # <<>> /\ Pops(t) /\ Top(t).at \in Results
      /\ IF TopLevel(t, Depth(t)) THEN exit' = Top(t).at ELSE exit' = exit
  BY FinalizeEffect
<1>2. Depth(t) \in Nat \ {0}
  BY <1>1, TopFacts
<1>3. /\ Depth(t)' = Depth(t) - 1 /\ \A u \in Threads \ {t} : Depth(u)' = Depth(u)
      /\ \A u \in Threads : \A n \in 1..Depth(u)' : FrameAt(u, n)' = FrameAt(u, n)
  BY <1>1 DEF Pops
<1>4. ASSUME NEW u \in Threads, NEW n \in 1..Depth(u)'
      PROVE  Knows(FrameAt(u, n))' /\ Role(u, n)' /\ Below(u, n)'
  <2>1. n \in 1..Depth(u) /\ ~(u = t /\ n = Depth(t)) /\ (n < Depth(u)' => n < Depth(u))
    BY <1>2, <1>3
  <2>2. FrameAt(u, n)' = FrameAt(u, n)
    BY <1>3
  <2>3. ~TopLevel(u, n) => fut'[FrameAt(u, n).pkg] = "loading"
    BY <2>1, FinalizeFacts
  <2>4. /\ project' = project /\ \A p \in Pkgs : fut[p] = "ok" => fut'[p] = "ok"
    BY FinalizeFacts
  <2>5. Knows(FrameAt(u, n))' /\ Role(u, n)'
    BY <2>1, <2>2, <2>3, <2>4, FrameStays
  <2>6. Below(u, n)
    BY <2>1 DEF FramesOK
  <2>7. n < Depth(u)' => FrameAt(u, n + 1)' = FrameAt(u, n + 1)
    <3> SUFFICES ASSUME n < Depth(u)' PROVE FrameAt(u, n + 1)' = FrameAt(u, n + 1)
      OBVIOUS
    <3>1. n + 1 \in 1..Depth(u)'
      BY DEF LoadTypeOK, Depth
    <3>2. \A m \in 1..Depth(u)' : stack'[u][m] = FrameAt(u, m)
      BY <1>3 DEF FrameAt
    <3> QED BY <3>1, <3>2 DEF FrameAt
  <2> QED BY <2>1, <2>2, <2>4, <2>5, <2>6, <2>7 DEF Below, Imports
<1>5. exit' = "running" <=> Depth(Main)' > 0
  <2>1. Main \in Threads /\ Depth(Main) > 0
    BY ProjectFacts DEF FramesOK
  <2>2. CASE TopLevel(t, Depth(t))
    BY <2>2, <1>1, <1>3 DEF TopLevel, Results
  <2>3. CASE ~TopLevel(t, Depth(t)) /\ t = Main
    BY <2>3, <1>1, <1>2, <1>3 DEF TopLevel
  <2>4. CASE ~TopLevel(t, Depth(t)) /\ t # Main
    BY <2>1, <2>4, <1>1, <1>3
  <2> QED BY <2>2, <2>3, <2>4
<1>6. onDisk'[Root] = "stale"
  BY FinalizeFacts DEF FramesOK
<1> QED BY <1>4, <1>5, <1>6 DEF FramesOK

\* What the frames and the jobs are after a worker has taken a job.
LEMMA TakeFacts ==
  ASSUME LoadTypeOK, LoadTypeOK', NEW t \in Threads, Work(t)
  PROVE  /\ t # Main /\ Depth(t) = 0 /\ stack[t] = <<>> /\ project' = project /\ onDisk' = onDisk
         /\ fut' = fut /\ exit' = exit
         /\ queue[1][2] \in Pkgs /\ Len(queue) \in Nat \ {0}
         /\ \A u \in Threads \ {t} : Depth(u)' = Depth(u)
         /\ \A u \in Threads : \A n \in 1..Depth(u) : FrameAt(u, n)' = FrameAt(u, n)
         /\ IF queue[1][1] = "load"
            THEN Depth(t)' = 1 /\ FrameAt(t, 1)' = Frame(queue[1][2], "load")
            ELSE Depth(t)' = 0
         /\ \A k \in Nat, p \in Pkgs : JobHolds(k, p)' => JobHolds(k + 1, p) /\ k > 0
<1>1. /\ TakesJob(t) /\ queue[1][2] \in Pkgs /\ Len(queue) \in Nat \ {0}
      /\ \/ /\ queue[1][1] = "load" /\ Depth(t) = 0 /\ Pushes(t, "load", 1, queue[1][2])
         \/ queue[1][1] = "parse" /\ UNCHANGED stack
  BY WorkEffect
<1>2. /\ t \in project.workers /\ stack[t] = <<>> /\ queue # <<>> /\ queue' = Tail(queue)
      /\ project' = project /\ onDisk' = onDisk /\ fut' = fut /\ exit' = exit
  BY <1>1 DEF TakesJob, given
<1>3. t # Main /\ Depth(t) = 0
  BY <1>2, ProjectFacts, DepthFacts
<1>6. ASSUME NEW k \in Nat, NEW p \in Pkgs, JobHolds(k, p)'
      PROVE  JobHolds(k + 1, p) /\ k > 0
  <2>1. queue \in Seq({"load", "parse"} \X Pkgs \X Nat) /\ Len(queue) \in Nat
    BY DEF LoadTypeOK
  <2>2. Len(queue') = Len(queue) - 1 /\ \A m \in 1..(Len(queue) - 1) : queue'[m] = queue[m + 1]
    BY <1>2, <2>1
  <2>3. k \in 1..(Len(queue) - 1) /\ k > 0 /\ queue'[k][1] = "load" /\ queue'[k][2] = p
    BY <1>6, <2>2 DEF JobHolds
  <2>4. queue'[k] = queue[k + 1]
    BY <2>2, <2>3
  <2> QED BY <2>1, <2>3, <2>4 DEF JobHolds
<1>7. \/ /\ queue[1][1] = "load" /\ Depth(t) = 0 /\ Pushes(t, "load", 1, queue[1][2])
      \/ queue[1][1] = "parse" /\ UNCHANGED stack
  BY <1>1
<1>8. /\ \A u \in Threads \ {t} : Depth(u)' = Depth(u)
      /\ \A u \in Threads : \A n \in 1..Depth(u) : FrameAt(u, n)' = FrameAt(u, n)
      /\ IF queue[1][1] = "load"
         THEN Depth(t)' = 1 /\ FrameAt(t, 1)' = Frame(queue[1][2], "load")
         ELSE Depth(t)' = 0
  <2>1. CASE queue[1][1] = "load"
    <3>1. Depth(t)' = 1 /\ FrameAt(t, 1)' = Frame(queue[1][2], "load")
      BY <2>1, <1>3, <1>7 DEF Pushes, FrameAt
    <3>2. \A u \in Threads : \A n \in 1..Depth(u) : FrameAt(u, n)' = FrameAt(u, n)
      BY <2>1, <1>3, <1>7 DEF Pushes
    <3> QED BY <2>1, <3>1, <3>2, <1>7 DEF Pushes
  <2>2. CASE queue[1][1] # "load"
    BY <2>2, <1>3, <1>7 DEF Depth, FrameAt
  <2> QED BY <2>1, <2>2
<1> QED BY <1>1, <1>2, <1>3, <1>6, <1>8

\* A worker holds the package of the job that it has taken.
LEMMA HoldersTake ==
  ASSUME LoadTypeOK, LoadTypeOK', HoldersOK, NEW t \in Threads, Work(t)
  PROVE  HoldersOK'
<1> DEFINE new == <<"frame", t, 1>>
           first == <<"job", Main, 1>>
           was == [h \in Holders |->
                     IF h = new THEN first
                     ELSE IF h[1] = "job" THEN <<"job", h[2], h[3] + 1>> ELSE h]
<1>1. /\ Depth(t) = 0 /\ stack[t] = <<>> /\ t # Main /\ Len(queue) \in Nat \ {0}
      /\ project' = project /\ fut' = fut
      /\ \A u \in Threads \ {t} : Depth(u)' = Depth(u)
      /\ \A u \in Threads : \A n \in 1..Depth(u) : FrameAt(u, n)' = FrameAt(u, n)
  BY TakeFacts
<1>2. ASSUME NEW u \in Threads, NEW n \in Nat, NEW p \in Pkgs
      PROVE  /\ FrameHolds(u, n, p)' => IF u = t THEN n = 1 /\ JobHolds(1, p) ELSE FrameHolds(u, n, p)
             /\ SubmitHolds(u, p)' => SubmitHolds(u, p)
             /\ JobHolds(n, p)' => JobHolds(n + 1, p) /\ n > 0
  <2>1. ASSUME FrameHolds(u, n, p)', u = t PROVE n = 1 /\ JobHolds(1, p)
    <3>1. n \in 1..Depth(t)' /\ FrameAt(t, n)'.pkg = p
      BY <2>1 DEF FrameHolds
    <3>2. IF queue[1][1] = "load"
          THEN Depth(t)' = 1 /\ FrameAt(t, 1)' = Frame(queue[1][2], "load")
          ELSE Depth(t)' = 0
      BY TakeFacts
    <3>3. queue[1][1] = "load" /\ n = 1
      BY <3>1, <3>2
    <3>4. FrameAt(t, n)' = Frame(queue[1][2], "load")
      BY <3>2, <3>3
    <3>5. queue[1][2] = p
      BY <3>1, <3>4 DEF Frame
    <3> QED BY <3>3, <3>5, <1>1 DEF JobHolds
  <2>2. ASSUME FrameHolds(u, n, p)', u # t PROVE FrameHolds(u, n, p)
    BY <2>2, <1>1 DEF FrameHolds, TopLevel
  <2>3. ASSUME SubmitHolds(u, p)' PROVE SubmitHolds(u, p)
    <3>1. CASE u = t
      <4>1. Depth(t)' # 0 /\ Top(t)'.at \in Submitting
        BY <2>3, <3>1 DEF SubmitHolds, Submits, Depth, LoadTypeOK
      <4>2. Depth(t)' = 1 /\ FrameAt(t, 1)' = Frame(queue[1][2], "load")
        BY <4>1, TakeFacts
      <4>3. Top(t)' = stack'[t][Depth(t)'] /\ FrameAt(t, 1)' = stack'[t][1]
        BY DEF Top, Depth, FrameAt
      <4>4. Top(t)'.at = "load"
        BY <4>2, <4>3 DEF Frame
      <4> QED BY <4>1, <4>4 DEF Submitting
    <3>2. CASE u # t
      BY <2>3, <3>2, <1>1, SubmitStays
    <3> QED BY <3>1, <3>2
  <2>4. JobHolds(n, p)' => JobHolds(n + 1, p) /\ n > 0
    BY TakeFacts
  <2> QED BY <2>1, <2>2, <2>3, <2>4
<1>3. new \in Holders /\ first \in Holders /\ Main \in Threads
  BY ProjectFacts DEF Holders
<1>4. was \in [Holders -> Holders]
  BY <1>3 DEF Holders
<1>5. ASSUME NEW h \in Holders, NEW p \in Pkgs, Holds(h, p)'
      PROVE  Holds(was[h], p) /\ (h[1] = "job" => h[3] > 0)
  <2>1. PICK x \in {"frame", "submit", "job"}, u \in Threads, n \in Nat : h = <<x, u, n>>
    BY DEF Holders
  <2>2. CASE x = "frame"
    <3>1. FrameHolds(u, n, p)'
      BY <2>1, <2>2, <1>5, HoldsFactsNext
    <3>2. CASE u = t
      <4>1. h = new /\ JobHolds(1, p)
        BY <2>1, <2>2, <3>1, <3>2, <1>2
      <4> QED BY <4>1, <1>3, HoldsFacts
    <3>3. CASE u # t
      <4>1. h # new /\ h[1] # "job" /\ FrameHolds(u, n, p)
        BY <2>1, <2>2, <3>1, <3>3, <1>2
      <4> QED BY <4>1, <2>1, <2>2, HoldsFacts
    <3> QED BY <3>2, <3>3
  <2>3. CASE x = "submit"
    <3>1. h # new /\ h[1] # "job" /\ n = 0 /\ SubmitHolds(u, p)
      BY <2>1, <2>3, <1>2, <1>5, HoldsFactsNext
    <3> QED BY <3>1, <2>1, <2>3, HoldsFacts
  <2>4. CASE x = "job"
    <3>1. u = Main /\ JobHolds(n, p)' /\ h # new /\ h[1] = "job" /\ h[2] = u /\ h[3] = n
      BY <2>1, <2>4, <1>5, HoldsFactsNext
    <3>2. was[h] = <<"job", Main, n + 1>> /\ JobHolds(n + 1, p) /\ n > 0 /\ n + 1 \in Nat
      BY <3>1, <1>2
    <3>3. Holds(<<"job", Main, n + 1>>, p)
      BY <3>2, <1>3, HoldsFacts
    <3> QED BY <3>1, <3>2, <3>3
  <2> QED BY <2>2, <2>3, <2>4
<1>6. \A h \in Holders, p \in Pkgs : Holds(h, p)' => fut'[p] = "loading"
  BY <1>1, <1>4, <1>5 DEF HoldersOK
<1>7. ASSUME NEW h \in Holders, NEW g \in Holders, NEW p \in Pkgs,
             Holds(h, p)', Holds(g, p)', was[h] = was[g]
      PROVE  h = g
  <2>1. (h[1] = "job" => h[3] > 0) /\ (g[1] = "job" => g[3] > 0)
    BY <1>5, <1>7
  <2>2. PICK x \in {"frame", "submit", "job"}, u \in Threads, n \in Nat : h = <<x, u, n>>
    BY DEF Holders
  <2>3. PICK y \in {"frame", "submit", "job"}, v \in Threads, m \in Nat : g = <<y, v, m>>
    BY DEF Holders
  <2> QED BY <2>1, <2>2, <2>3, <1>7
<1> HIDE DEF was
<1> QED BY <1>4, <1>5, <1>6, <1>7, HoldersKeep

LEMMA FramesTake ==
  ASSUME LoadTypeOK, LoadTypeOK', FramesOK, HoldersOK, NEW t \in Threads, Work(t)
  PROVE  FramesOK'
<1>1. /\ Depth(t) = 0 /\ stack[t] = <<>> /\ t # Main /\ Len(queue) \in Nat \ {0}
      /\ project' = project /\ onDisk' = onDisk /\ fut' = fut /\ exit' = exit
      /\ queue[1][2] \in Pkgs
      /\ \A u \in Threads \ {t} : Depth(u)' = Depth(u)
      /\ \A u \in Threads : \A n \in 1..Depth(u) : FrameAt(u, n)' = FrameAt(u, n)
      /\ IF queue[1][1] = "load"
         THEN Depth(t)' = 1 /\ FrameAt(t, 1)' = Frame(queue[1][2], "load")
         ELSE Depth(t)' = 0
  BY TakeFacts
<1>2. ASSUME NEW u \in Threads \ {t}, NEW n \in 1..Depth(u)
      PROVE  Knows(FrameAt(u, n))' /\ Role(u, n)' /\ Below(u, n)'
  <2>1. FrameAt(u, n)' = FrameAt(u, n) /\ Knows(FrameAt(u, n)) /\ Role(u, n) /\ Below(u, n)
    BY <1>1 DEF FramesOK
  <2>2. n < Depth(u) => FrameAt(u, n + 1)' = FrameAt(u, n + 1)
    <3> SUFFICES ASSUME n < Depth(u) PROVE FrameAt(u, n + 1)' = FrameAt(u, n + 1)
      OBVIOUS
    <3>1. n + 1 \in 1..Depth(u)
      BY DepthFacts
    <3>2. \A m \in 1..Depth(u) : stack'[u][m] = FrameAt(u, m)
      BY <1>1 DEF FrameAt
    <3> QED BY <3>1, <3>2 DEF FrameAt
  <2>3. Knows(FrameAt(u, n))' /\ Role(u, n)'
    BY <2>1, <1>1 DEF Knows, Role, Imports, Sync, TopLevel
  <2>4. Below(u, n)'
    BY <2>1, <2>2, <1>1 DEF Below, Imports
  <2> QED BY <2>3, <2>4
<1>3. ASSUME NEW n \in 1..Depth(t)'
      PROVE  Knows(FrameAt(t, n))' /\ Role(t, n)' /\ Below(t, n)'
  <2> DEFINE p == queue[1][2]
  <2>1. queue[1][1] = "load" /\ n = 1 /\ Depth(t)' = 1
    BY <1>1, <1>3
  <2>2. FrameAt(t, n)' = Frame(p, "load")
    BY <2>1, <1>1
  <2>3. FrameAt(t, n)'.pkg = p /\ FrameAt(t, n)'.at = "load"
    BY <2>2 DEF Frame
  <2>4. fut[p] = "loading"
    <3>1. JobHolds(1, p) /\ Main \in Threads
      BY <2>1, <1>1, ProjectFacts DEF JobHolds
    <3>2. <<"job", Main, 1>> \in Holders /\ Holds(<<"job", Main, 1>>, p)
      BY <3>1, HoldsFacts
    <3> QED BY <3>2, <1>1 DEF HoldersOK
  <2>5. Knows(FrameAt(t, n))' /\ Role(t, n)'
    BY <2>3, <2>4, <1>1 DEF Knows, Role, TopLevel, Metas, Imports1, Submitting, ImportsDone
  <2> QED BY <2>1, <2>5 DEF Below
<1>4. exit' = "running" <=> Depth(Main)' > 0
  BY <1>1, ProjectFacts DEF FramesOK
<1>5. onDisk'[Root] = "stale"
  BY <1>1 DEF FramesOK
<1>6. \A u \in Threads : \A n \in 1..Depth(u)' :
        Knows(FrameAt(u, n))' /\ Role(u, n)' /\ Below(u, n)'
  <2>1. ASSUME NEW u \in Threads, NEW n \in 1..Depth(u)'
        PROVE Knows(FrameAt(u, n))' /\ Role(u, n)' /\ Below(u, n)'
    <3>1. CASE u = t
      BY <3>1, <1>3
    <3>2. CASE u # t
      <4>1. n \in 1..Depth(u)
        BY <3>2, <1>1
      <4> QED BY <4>1, <3>2, <1>2
    <3> QED BY <3>1, <3>2
  <2> QED BY <2>1
<1> QED BY <1>4, <1>5, <1>6 DEF FramesOK

\* The kinds of steps.
LEMMA StepKinds ==
  ASSUME LoadTypeOK, FramesOK, NEW t \in Threads, LoadStep(t)
  PROVE  /\ LoadTypeOK'
         /\ Walks(t) \/ AcquiresHere(t) \/ AcquiresToSubmit(t) \/ Hands(t) \/ Finalize(t) \/ Work(t)
<1>1. CASE LoadDependency(t, "mload", "msubmit") \/ LoadDependency(t, "bload", "bsubmit")
  BY <1>1, LoadDependencyEffect
<1>2. CASE Submit(t, "msubmit", "mload") \/ Submit(t, "bsubmit", "bload")
  BY <1>2, SubmitEffect
<1>3. CASE StartWaiting(t, "mload", "mwait") \/ StartWaiting(t, "bload", "bwait")
  BY <1>3, StartWaitingEffect
<1>4. CASE LoadBegins(t) \/ MetaWait(t) \/ LoadApi(t)
  BY <1>4, LoadBeginsEffect, MetaWaitEffect, LoadApiEffect
<1>5. CASE Finalize(t)
  BY <1>5, FinalizeEffect
<1>6. CASE BuildBegins(t) \/ ParseHere(t) \/ ParseElsewhere(t) \/ ParseWait(t)
  BY <1>6, BuildBeginsEffect, ParseHereEffect, ParseElsewhereEffect, ParseWaitEffect
<1>7. CASE ImportsChecked(t) \/ BuildWait(t) \/ BuildFinishes(t) \/ PkgBuildFails(t)
  BY <1>7, ImportsCheckedEffect, BuildWaitEffect, BuildFinishesEffect, PkgBuildFailsEffect
<1>8. CASE Work(t)
  BY <1>8, WorkEffect
<1> QED BY <1>1, <1>2, <1>3, <1>4, <1>5, <1>6, <1>7, <1>8 DEF LoadStep, Load, Build

-----------------------------------------------------------------------------
(* What Root needs, and what was loaded.                                     *)

LEMMA DemandedFacts ==
  ASSUME LoadTypeOK
  PROVE  /\ Range(Imports(Root)) \subseteq Demanded /\ Closed(Demanded)
         /\ project' = project => Demanded' = Demanded
<1>1. Range(Imports(Root)) \subseteq Demanded
  BY ProjectFacts, RangeFacts DEF Demanded
<1>2. ASSUME NEW p \in Demanded PROVE Range(Imports(p)) \subseteq Demanded
  <2>1. p \in Pkgs
    BY DEF Demanded
  <2>2. ASSUME NEW q \in Range(Imports(p)), NEW S \in SUBSET Pkgs,
               Range(Imports(Root)) \subseteq S, Closed(S)
        PROVE  q \in S
    <3>1. p \in S
      BY <2>2 DEF Demanded
    <3> QED BY <3>1, <2>2 DEF Closed
  <2> QED BY <2>1, <2>2, RangeFacts DEF Demanded
<1> QED BY <1>1, <1>2 DEF Closed, Demanded, Imports

LEMMA DemandKeep ==
  ASSUME LoadTypeOK, DemandOK, project' = project,
         \A p \in Pkgs : fut'[p] # "none" => p \in Demanded,
         Depth(Main)' > 0 /\ FrameAt(Main, 1)'.at \in Early =>
           fut' = fut /\ Depth(Main) > 0 /\ FrameAt(Main, 1).at \in Early
  PROVE  DemandOK'
<1>1. Demanded' = Demanded
  BY DemandedFacts
<1> QED BY <1>1 DEF DemandOK

LEMMA OkKeep ==
  ASSUME OkClosed, project' = project, Root \in Pkgs, \A p \in Pkgs : fut'[p] = "ok" <=> fut[p] = "ok"
  PROVE  OkClosed'
<1>1. Loaded1' = Loaded1
  BY DEF Loaded1
<1>2. Closed(Loaded1)' <=> Closed(Loaded1)
  BY <1>1 DEF Closed, Imports
<1> QED BY <1>1, <1>2 DEF OkClosed, Imports

\* The frame of build_toplevel_pkg when t's innermost frame moves.
LEMMA BottomMoves ==
  ASSUME LoadTypeOK, FramesOK, NEW t \in Threads, stack[t] # <<>>, NEW l, NEW i, MovesTop(t, l, i),
         Depth(Main)' > 0
  PROVE  /\ Depth(Main) > 0
         /\ FrameAt(Main, 1)'.at = IF TopLevel(t, Depth(t)) THEN l ELSE FrameAt(Main, 1).at
         /\ TopLevel(t, Depth(t)) => Top(t) = FrameAt(Main, 1)
<1>1. Depth(t) \in Nat \ {0} /\ Top(t) = FrameAt(t, Depth(t)) /\ Main \in Threads
  BY TopFacts, ProjectFacts
<1>2. Depth(Main)' = Depth(Main) /\ Depth(Main) \in Nat
  BY <1>1, DepthFacts DEF MovesTop
<1>3. 1 \in 1..Depth(Main)
  BY <1>2
<1> QED BY <1>1, <1>2, <1>3 DEF MovesTop, TopLevel

LEMMA DemandWalk ==
  ASSUME LoadTypeOK, FramesOK, DemandOK, NEW t \in Threads, Walks(t)
  PROVE  DemandOK'
<1>1. PICK l \in LoadPCs, i \in Nat : MovesTop(t, l, i) /\ May(t, l, i)
  BY DEF Walks
<1>2. project' = project /\ fut' = fut /\ stack[t] # <<>>
  BY DEF Walks, given
<1>3. ASSUME Depth(Main)' > 0, FrameAt(Main, 1)'.at \in Early
      PROVE  Depth(Main) > 0 /\ FrameAt(Main, 1).at \in Early
  <2>1. CASE TopLevel(t, Depth(t))
    <3>1. l \in Early /\ Top(t) = FrameAt(Main, 1) /\ Depth(Main) > 0
      BY <2>1, <1>1, <1>2, <1>3, BottomMoves
    <3>2. Top(t).at \in Early \cup {"load", "mwait", "api"}
      BY <3>1, <1>1 DEF May
    <3>3. Top(t).at \notin Metas \cup {"load", "api"}
      BY <2>1, <1>2, TopFacts, TopKnows DEF Role
    <3> QED BY <3>1, <3>2, <3>3 DEF Metas
  <2>2. CASE ~TopLevel(t, Depth(t))
    BY <2>2, <1>1, <1>2, <1>3, BottomMoves
  <2> QED BY <2>1, <2>2
<1>4. \A p \in Pkgs : fut'[p] # "none" => p \in Demanded
  BY <1>2 DEF DemandOK
<1> QED BY <1>2, <1>3, <1>4, DemandKeep

\* Nothing is acquired before the imports of Root are known.
LEMMA NotEarly ==
  ASSUME LoadTypeOK, FramesOK, DemandOK, NEW t \in Threads, stack[t] # <<>>,
         ~TopLevel(t, Depth(t)) \/ Top(t).at \notin Early, Depth(Main) > 0
  PROVE  FrameAt(Main, 1).at \notin Early
<1>1. Top(t) = FrameAt(t, Depth(t)) /\ Top(t).pkg \in Pkgs
  BY TopFacts
<1>2. CASE TopLevel(t, Depth(t))
  BY <1>1, <1>2 DEF TopLevel
<1>3. CASE ~TopLevel(t, Depth(t))
  <2>1. fut[Top(t).pkg] = "loading"
    BY <1>1, <1>3, TopKnows DEF Role
  <2> QED BY <2>1, <1>1 DEF DemandOK
<1> QED BY <1>2, <1>3

LEMMA DemandAcquire ==
  ASSUME LoadTypeOK, FramesOK, DemandOK, NEW t \in Threads, AcquiresHere(t) \/ AcquiresToSubmit(t)
  PROVE  DemandOK'
<1> DEFINE f == Top(t)
           dep == Submitted(t)
<1>1. Acquires(t)
  BY DEF AcquiresHere, AcquiresToSubmit
<1>2. /\ dep \in Pkgs /\ f.i \in 1..Len(Imports(f.pkg)) /\ project' = project
      /\ \A p \in Pkgs : fut'[p] = IF p = dep THEN "loading" ELSE fut[p]
  BY <1>1, AcquireFacts
<1>3. stack[t] # <<>> /\ f.at \in {"mload", "bload"}
  BY <1>1 DEF Acquires
<1>4. f.pkg \in Pkgs /\ f = FrameAt(t, Depth(t)) /\ Role(t, Depth(t)) /\ Depth(t) \in Nat \ {0}
      /\ Main \in Threads
  BY <1>3, TopFacts, TopKnows, ProjectFacts
<1>5. dep \in Demanded
  <2>1. dep \in Range(Imports(f.pkg))
    BY <1>2, <1>4, RangeFacts DEF Submitted
  <2>2. CASE TopLevel(t, Depth(t))
    <3>1. f.pkg = Root
      BY <2>2, <1>4 DEF Role
    <3> QED BY <2>1, <3>1, DemandedFacts
  <2>3. CASE ~TopLevel(t, Depth(t))
    <3>1. f.pkg \in Demanded
      BY <2>3, <1>4 DEF Role, DemandOK
    <3> QED BY <2>1, <3>1, DemandedFacts DEF Closed
  <2> QED BY <2>2, <2>3
<1>6. \A p \in Pkgs : fut'[p] # "none" => p \in Demanded
  BY <1>2, <1>5 DEF DemandOK
<1>7. ASSUME Depth(Main)' > 0 PROVE FrameAt(Main, 1)'.at \notin Early
  <2>1. CASE AcquiresToSubmit(t)
    <3>1. PICK l \in Submitting : MovesTop(t, l, f.i)
      BY <2>1 DEF AcquiresToSubmit
    <3>2. Depth(Main) > 0 /\ FrameAt(Main, 1)'.at \in {l, FrameAt(Main, 1).at}
      BY <3>1, <1>3, <1>7, BottomMoves
    <3>3. FrameAt(Main, 1).at \notin Early
      BY <3>2, <1>3, NotEarly DEF Early
    <3> QED BY <3>2, <3>3 DEF Submitting, Early
  <2>2. CASE AcquiresHere(t)
    <3>1. Pushes(t, f.at, f.i + 1, dep)
      BY <2>2 DEF AcquiresHere
    <3>2. Depth(Main) > 0 /\ Depth(Main) \in Nat
      <4>1. CASE t = Main
        BY <4>1, <1>4
      <4>2. CASE t # Main
        BY <4>2, <3>1, <1>4, <1>7, DepthFacts DEF Pushes
      <4> QED BY <4>1, <4>2
    <3>3. FrameAt(Main, 1).at \notin Early
      BY <3>2, <1>3, NotEarly DEF Early
    <3>4. 1 \in 1..Depth(Main)
      BY <3>2
    <3>5. FrameAt(Main, 1)'.at \in {f.at, FrameAt(Main, 1).at}
      BY <3>1, <3>4, <1>4 DEF Pushes
    <3> QED BY <3>3, <3>5, <1>3 DEF Early
  <2> QED BY <2>1, <2>2
<1> QED BY <1>2, <1>6, <1>7, DemandKeep

LEMMA DemandHand ==
  ASSUME LoadTypeOK, FramesOK, DemandOK, NEW t \in Threads, Hands(t)
  PROVE  DemandOK'
<1>1. PICK l \in {"mload", "bload"} : MovesTop(t, l, Top(t).i + 1)
  BY DEF Hands
<1>2. project' = project /\ fut' = fut /\ stack[t] # <<>>
  BY DEF Hands, Submits, given
<1>3. ASSUME Depth(Main)' > 0, FrameAt(Main, 1)'.at \in Early
      PROVE  Depth(Main) > 0 /\ FrameAt(Main, 1).at \in Early
  BY <1>1, <1>2, <1>3, BottomMoves DEF Early
<1>4. \A p \in Pkgs : fut'[p] # "none" => p \in Demanded
  BY <1>2 DEF DemandOK
<1> QED BY <1>2, <1>3, <1>4, DemandKeep

LEMMA DemandFinalize ==
  ASSUME LoadTypeOK, LoadTypeOK', FramesOK, HoldersOK, DemandOK, NEW t \in Threads, Finalize(t)
  PROVE  DemandOK'
<1>1. stack[t] # <<>> /\ Pops(t) /\ Top(t).at \in Results
  BY FinalizeEffect
<1>2. /\ project' = project /\ Main \in Threads
      /\ ~TopLevel(t, Depth(t)) => fut[Top(t).pkg] = "loading"
      /\ \A p \in Pkgs : fut'[p] = IF ~TopLevel(t, Depth(t)) /\ p = Top(t).pkg
                                   THEN Top(t).at ELSE fut[p]
  BY FinalizeFacts, ProjectFacts
<1>3. \A p \in Pkgs : fut'[p] # "none" => p \in Demanded
  BY <1>2 DEF DemandOK
<1>4. ASSUME Depth(Main)' > 0 PROVE FrameAt(Main, 1)'.at \notin Early
  <2>1. Depth(Main)' \in Nat /\ Depth(Main) \in Nat
    BY <1>2, DepthFacts DEF LoadTypeOK, Depth
  <2>2. 1 \in 1..Depth(Main)'
    BY <2>1, <1>4
  <2>3. FrameAt(Main, 1)' = FrameAt(Main, 1) /\ Depth(Main) > 0
    BY <2>1, <2>2, <1>1, <1>2, <1>4 DEF Pops
  <2>4. FrameAt(Main, 1).at \notin Early
    BY <2>3, <1>1, NotEarly DEF Early, Results
  <2> QED BY <2>3, <2>4
<1> QED BY <1>2, <1>3, <1>4, DemandKeep

LEMMA DemandTake ==
  ASSUME LoadTypeOK, LoadTypeOK', DemandOK, NEW t \in Threads, Work(t)
  PROVE  DemandOK'
<1>1. /\ t # Main /\ project' = project /\ fut' = fut /\ Main \in Threads
      /\ \A u \in Threads \ {t} : Depth(u)' = Depth(u)
      /\ \A u \in Threads : \A n \in 1..Depth(u) : FrameAt(u, n)' = FrameAt(u, n)
  BY TakeFacts, ProjectFacts
<1>2. Depth(Main)' = Depth(Main) /\ Depth(Main) \in Nat
  BY <1>1, DepthFacts
<1>3. Depth(Main) > 0 => FrameAt(Main, 1)' = FrameAt(Main, 1)
  BY <1>1, <1>2
<1>4. \A p \in Pkgs : fut'[p] # "none" => p \in Demanded
  BY <1>1 DEF DemandOK
<1> QED BY <1>1, <1>2, <1>3, <1>4, DemandKeep

\* A package that is loaded comes after its imports.
LEMMA OkFinalize ==
  ASSUME LoadTypeOK, FramesOK, HoldersOK, OkClosed, NEW t \in Threads, Finalize(t)
  PROVE  OkClosed'
<1> DEFINE f == Top(t)
           p == f.pkg
<1>1. stack[t] # <<>> /\ f.at \in Results /\ p \in Pkgs /\ f = FrameAt(t, Depth(t)) /\ Root \in Pkgs
  BY FinalizeEffect, TopFacts, ProjectFacts
<1>2. /\ project' = project
      /\ ~TopLevel(t, Depth(t)) => fut[p] = "loading"
      /\ \A q \in Pkgs : fut'[q] = IF ~TopLevel(t, Depth(t)) /\ q = p THEN f.at ELSE fut[q]
  BY FinalizeFacts
<1>3. CASE TopLevel(t, Depth(t)) \/ f.at # "ok"
  BY <1>1, <1>2, <1>3, OkKeep
<1>4. CASE ~TopLevel(t, Depth(t)) /\ f.at = "ok"
  <2>1. p \notin Loaded1 /\ Loaded1' = Loaded1 \cup {p} /\ Loaded1 \subseteq Pkgs
    BY <1>1, <1>2, <1>4 DEF Loaded1
  <2>2. p # Root
    BY <1>1, <1>4, TopKnows DEF Role, ImportsDone
  <2>3. Range(Imports(p)) \subseteq Loaded1
    <3>1. \A j \in 1..Len(Imports(p)) : fut[Imports(p)[j]] = "ok"
      BY <1>1, <1>4, TopKnows DEF Knows, ImportsDone
    <3> QED BY <3>1, <1>1, RangeFacts DEF Loaded1
  <2>4. \A q \in Loaded1 : Range(Imports(q)) \subseteq Loaded1
    BY DEF OkClosed, Closed
  <2>5. \A q \in Pkgs : Imports(q)' = Imports(q)
    BY <1>2 DEF Imports
  <2> HIDE DEF p
  <2>6. \A q \in Loaded1' : Range(Imports(q)') \subseteq Loaded1'
    BY <2>1, <2>3, <2>4, <2>5, <1>1
  <2>7. ASSUME NEW S \in SUBSET (Loaded1 \cup {p}), S # {}
        PROVE  \E q \in S : Range(Imports(q)) \cap S = {}
    <3>1. CASE S \ {p} = {}
      BY <3>1, <2>1, <2>3, <2>7
    <3>2. CASE S \ {p} # {}
      <4>1. PICK q \in S \ {p} : Range(Imports(q)) \cap (S \ {p}) = {}
        BY <3>2, <2>7 DEF OkClosed
      <4>2. q \in Loaded1 /\ p \notin Range(Imports(q))
        BY <4>1, <2>1, <2>4, <2>7
      <4> QED BY <4>1, <4>2
    <3> QED BY <3>1, <3>2
  <2>8. \A S \in SUBSET Loaded1' : S # {} => \E q \in S : Range(Imports(q)') \cap S = {}
    BY <2>1, <2>5, <2>7, <1>1
  <2>9. fut'[Root] # "ok"
    BY <2>2, <1>1, <1>2 DEF OkClosed
  <2> QED BY <2>6, <2>8, <2>9 DEF OkClosed, Closed
<1> QED BY <1>3, <1>4

-----------------------------------------------------------------------------
(* The part of the invariant that the rest stands on.                        *)

Base == LoadTypeOK /\ FramesOK /\ HoldersOK /\ DemandOK /\ OkClosed

LEMMA BaseStep ==
  ASSUME Base, exit = "running", NEW t \in Threads, LoadStep(t)
  PROVE  Base'
<1> USE DEF Base
<1>1. /\ LoadTypeOK'
      /\ Walks(t) \/ AcquiresHere(t) \/ AcquiresToSubmit(t) \/ Hands(t) \/ Finalize(t) \/ Work(t)
  BY StepKinds
<1>2. Root \in Pkgs
  BY ProjectFacts
<1>3. CASE Walks(t)
  <2>1. project' = project /\ fut' = fut
    BY <1>3 DEF Walks, given
  <2> QED BY <2>1, <1>1, <1>2, <1>3, FramesWalk, HoldersWalk, DemandWalk, OkKeep
<1>4. CASE AcquiresHere(t) \/ AcquiresToSubmit(t)
  <2>1. Acquires(t)
    BY <1>4 DEF AcquiresHere, AcquiresToSubmit
  <2>2. project' = project /\ \A p \in Pkgs : fut'[p] = "ok" <=> fut[p] = "ok"
    BY <2>1, AcquireFacts
  <2>3. OkClosed'
    BY <2>2, <1>2, OkKeep
  <2>4. DemandOK'
    BY <1>4, DemandAcquire
  <2>5. FramesOK' /\ HoldersOK'
    BY <1>1, <1>4, FramesAcquireHere, FramesAcquireToSubmit, HoldersAcquireHere, HoldersAcquireToSubmit
  <2> QED BY <2>3, <2>4, <2>5, <1>1
<1>5. CASE Hands(t)
  <2>1. project' = project /\ fut' = fut
    BY <1>5 DEF Hands, given
  <2> QED BY <2>1, <1>1, <1>2, <1>5, FramesHand, HoldersHand, DemandHand, OkKeep
<1>6. CASE Finalize(t)
  BY <1>1, <1>6, FramesFinalize, HoldersFinalize, DemandFinalize, OkFinalize
<1>7. CASE Work(t)
  <2>1. project' = project /\ fut' = fut
    BY <1>1, <1>7, TakeFacts
  <2> QED BY <2>1, <1>1, <1>2, <1>7, FramesTake, HoldersTake, DemandTake, OkKeep
<1> QED BY <1>1, <1>3, <1>4, <1>5, <1>6, <1>7

LEMMA BaseStutter ==
  ASSUME Base, UNCHANGED loadVars
  PROVE  Base'
<1> USE DEF Base, loadVars, given
<1>1. LoadTypeOK'
  BY DEF LoadTypeOK
<1>2. FramesOK'
  <2>1. ASSUME NEW t \in Threads, NEW n \in 1..Depth(t)'
        PROVE  Knows(FrameAt(t, n))' /\ Role(t, n)' /\ Below(t, n)'
    <3>1. n \in 1..Depth(t) /\ Knows(FrameAt(t, n)) /\ Role(t, n) /\ Below(t, n)
      BY DEF FramesOK, Depth
    <3>2. Knows(FrameAt(t, n))'
      BY <3>1 DEF Knows, FrameAt, Imports, Sync
    <3>3. Role(t, n)' /\ Below(t, n)'
      BY <3>1 DEF Role, Below, FrameAt, Depth, TopLevel, Imports
    <3> QED BY <3>2, <3>3
  <2>2. (exit' = "running" <=> Depth(Main)' > 0) /\ onDisk'[Root] = "stale"
    BY DEF FramesOK, Depth
  <2> QED BY <2>1, <2>2 DEF FramesOK
<1>3. HoldersOK'
  <2>1. ASSUME NEW u \in Threads, NEW n \in Nat, NEW p \in Pkgs
        PROVE  /\ FrameHolds(u, n, p)' <=> FrameHolds(u, n, p)
               /\ SubmitHolds(u, p)' <=> SubmitHolds(u, p)
               /\ JobHolds(n, p)' <=> JobHolds(n, p)
    BY DEF FrameHolds, SubmitHolds, JobHolds, Submits, Submitted, Top, FrameAt, Depth, TopLevel, Imports
  <2>2. \A h \in Holders, p \in Pkgs : Holds(h, p)' <=> Holds(h, p)
    BY <2>1 DEF Holds, Holders
  <2> QED BY <2>2 DEF HoldersOK
<1>4. Demanded' = Demanded /\ Loaded1' = Loaded1
  BY DEF Demanded, Loaded1, Closed, Imports
<1>5. DemandOK'
  BY <1>4 DEF DemandOK, FrameAt, Depth
<1>6. OkClosed'
  BY <1>4 DEF OkClosed, Closed, Imports
<1> QED BY <1>1, <1>2, <1>3, <1>5, <1>6

LEMMA BaseInit ==
  ASSUME LoadInit
  PROVE  Base
<1> USE DEF LoadInit
<1>1. Main \in Threads /\ Root \in Pkgs /\ NoCell \in Cells
  BY LoadAssumptions DEF Threads, NoCell, Cells
<1>2. /\ stack[Main] = <<Frame(Root, "build")>> /\ \A t \in Threads \ {Main} : stack[t] = <<>>
      /\ stack \in [Threads -> Seq(Frames)]
  <2>1. Frame(Root, "build") \in Frames
    BY <1>1 DEF Frame, Frames, LoadPCs
  <2>2. <<Frame(Root, "build")>> \in Seq(Frames) /\ <<>> \in Seq(Frames)
    BY <2>1
  <2> HIDE DEF Frames
  <2> QED BY <1>1, <2>2
<1>3. LoadTypeOK
  <2>1. /\ project \in Projects /\ onDisk \in [Pkgs -> {"fresh", "stale", "badapi"}]
        /\ fut \in [Pkgs -> {"none", "loading"} \cup Results] /\ built \in [Pkgs -> Nat]
        /\ unparsed \in [Pkgs -> SUBSET Nat]
    OBVIOUS
  <2>2. queue \in Seq({"load", "parse"} \X Pkgs \X Nat)
    OBVIOUS
  <2>3. parent \in [Pkgs -> Cells] /\ alive \subseteq Cells
    BY <1>1
  <2>4. errcount \in BOOLEAN /\ dangling \in BOOLEAN /\ exit \in {"running"} \cup Results
    OBVIOUS
  <2> QED BY <2>1, <2>2, <2>3, <2>4, <1>2 DEF LoadTypeOK
<1>4. Depth(Main) = 1 /\ FrameAt(Main, 1) = Frame(Root, "build") /\ \A t \in Threads \ {Main} : Depth(t) = 0
  BY <1>2 DEF Depth, FrameAt
<1>5. FramesOK
  <2>1. FrameAt(Main, 1).pkg = Root /\ FrameAt(Main, 1).at = "build"
    BY <1>4 DEF Frame
  <2>2. ASSUME NEW t \in Threads, NEW n \in 1..Depth(t)
        PROVE  Knows(FrameAt(t, n)) /\ Role(t, n) /\ Below(t, n)
    <3>1. t = Main /\ n = 1
      BY <1>4
    <3> QED BY <3>1, <2>1, <1>4
        DEF Knows, Role, Below, TopLevel, Metas, Imports1, Submitting, ImportsDone
  <2> QED BY <2>2, <1>1, <1>4 DEF FramesOK
<1>6. HoldersOK
  <2>1. ASSUME NEW t \in Threads, NEW n \in Nat, NEW p \in Pkgs
        PROVE  ~FrameHolds(t, n, p) /\ ~SubmitHolds(t, p) /\ ~JobHolds(n, p)
    <3>1. ~FrameHolds(t, n, p)
      BY <1>4 DEF FrameHolds, TopLevel
    <3>2. ~SubmitHolds(t, p)
      <4>1. CASE t = Main
        <5>1. Top(t) = Frame(Root, "build")
          BY <4>1, <1>4 DEF Top, Depth, FrameAt
        <5> QED BY <5>1 DEF SubmitHolds, Submits, Frame, Submitting
      <4>2. CASE t # Main
        BY <4>2, <1>2 DEF SubmitHolds, Submits
      <4> QED BY <4>1, <4>2
    <3>3. ~JobHolds(n, p)
      BY DEF JobHolds
    <3> QED BY <3>1, <3>2, <3>3
  <2>2. ASSUME NEW h \in Holders, NEW p \in Pkgs PROVE ~Holds(h, p)
    BY <2>1 DEF Holds, Holders
  <2> QED BY <2>2 DEF HoldersOK
<1>7. DemandOK
  BY DEF DemandOK
<1>8. OkClosed
  <2>1. Loaded1 = {}
    BY DEF Loaded1
  <2> QED BY <2>1, <1>1 DEF OkClosed, Closed
<1> QED BY <1>3, <1>5, <1>6, <1>7, <1>8 DEF Base

-----------------------------------------------------------------------------
\* What becomes of a frame: it stays, or it is t's innermost one and moves or goes.
Loops(l, m) == (l \in Metas /\ m \in Metas) \/ (l \in Imports1 /\ m \in Imports1)

LEMMA FrameSteps ==
  ASSUME Base, Base', NEW t \in Threads, LoadStep(t), NEW u \in Threads, NEW n \in 1..Depth(u)
  PROVE  \/ ~(u = t /\ n = Depth(t)) /\ n \in 1..Depth(u)' /\ FrameAt(u, n)' = FrameAt(u, n)
         \/ /\ u = t /\ n = Depth(t) /\ n \in 1..Depth(u)' /\ FrameAt(u, n)'.pkg = FrameAt(u, n).pkg
            /\ \/ Walks(t) /\ \E l \in LoadPCs, i \in Nat : 
                    MovesTop(t, l, i) /\ May(t, l, i) /\ FrameAt(u, n)'.at = l
               \/ Loops(FrameAt(u, n).at, FrameAt(u, n)'.at)
         \/ u = t /\ n = Depth(t) /\ Finalize(t)
<1> USE DEF Base
<1>1. Walks(t) \/ AcquiresHere(t) \/ AcquiresToSubmit(t) \/ Hands(t) \/ Finalize(t) \/ Work(t)
  BY StepKinds
<1>2. n \in Nat /\ Depth(u) \in Nat /\ Depth(t) \in Nat
  BY DepthFacts
<1>3. ASSUME stack[t] # <<>>, NEW l, NEW i, MovesTop(t, l, i)
      PROVE  /\ n \in 1..Depth(u)'
             /\ IF u = t /\ n = Depth(t)
                THEN FrameAt(u, n)'.pkg = FrameAt(u, n).pkg /\ FrameAt(u, n)'.at = l
                ELSE FrameAt(u, n)' = FrameAt(u, n)
  BY <1>3, TopFacts DEF MovesTop
<1>4. CASE Walks(t)
  <2>1. PICK l \in LoadPCs, i \in Nat : MovesTop(t, l, i) /\ May(t, l, i)
    BY <1>4 DEF Walks
  <2>2. stack[t] # <<>>
    BY <1>4 DEF Walks
  <2> QED BY <2>1, <2>2, <1>3, <1>4
<1>5. CASE AcquiresHere(t)
  <2>1. Pushes(t, Top(t).at, Top(t).i + 1, Submitted(t)) /\ stack[t] # <<>>
        /\ Top(t).at \in {"mload", "bload"}
    BY <1>5 DEF AcquiresHere, Acquires
  <2>2. Top(t) = FrameAt(t, Depth(t))
    BY <2>1, TopFacts
  <2>3. CASE u = t /\ n = Depth(t)
    BY <2>1, <2>2, <2>3, <1>2 DEF Pushes, Loops, Metas, Imports1
  <2>4. CASE ~(u = t /\ n = Depth(t))
    BY <2>1, <2>4, <1>2 DEF Pushes
  <2> QED BY <2>3, <2>4
<1>6. CASE AcquiresToSubmit(t)
  <2>1. stack[t] # <<>> /\ Top(t).at \in {"mload", "bload"}
    BY <1>6 DEF AcquiresToSubmit, Acquires
  <2>2. PICK l \in Submitting : MovesTop(t, l, Top(t).i) /\ (Top(t).at = "mload" <=> l = "msubmit")
    BY <1>6 DEF AcquiresToSubmit
  <2>3. Loops(Top(t).at, l) /\ Top(t) = FrameAt(t, Depth(t))
    BY <2>1, <2>2, TopFacts DEF Loops, Metas, Imports1, Submitting
  <2> QED BY <2>1, <2>2, <2>3, <1>3
<1>7. CASE Hands(t)
  <2>1. stack[t] # <<>> /\ Top(t).at \in Submitting
    BY <1>7 DEF Hands, Submits
  <2>2. PICK l \in {"mload", "bload"} :
          MovesTop(t, l, Top(t).i + 1) /\ (Top(t).at = "msubmit" <=> l = "mload")
    BY <1>7 DEF Hands
  <2>3. Loops(Top(t).at, l) /\ Top(t) = FrameAt(t, Depth(t))
    BY <2>1, <2>2, TopFacts DEF Loops, Metas, Imports1, Submitting
  <2> QED BY <2>1, <2>2, <2>3, <1>3
<1>8. CASE Finalize(t)
  <2>1. Pops(t) /\ stack[t] # <<>>
    BY <1>8, FinalizeEffect
  <2>2. CASE ~(u = t /\ n = Depth(t))
    <3>1. n \in 1..Depth(u)'
      BY <2>1, <2>2, <1>2 DEF Pops
    <3> QED BY <3>1, <2>1, <2>2 DEF Pops
  <2> QED BY <2>2, <1>8
<1>9. CASE Work(t)
  <2>1. /\ Depth(t) = 0 /\ \A v \in Threads \ {t} : Depth(v)' = Depth(v)
        /\ \A v \in Threads : \A m \in 1..Depth(v) : FrameAt(v, m)' = FrameAt(v, m)
    BY <1>9, TakeFacts
  <2>2. u # t
    BY <2>1, <1>2
  <2> QED BY <2>1, <2>2
<1> QED BY <1>1, <1>4, <1>5, <1>6, <1>7, <1>8, <1>9

\* A future that has a result keeps it.
LEMMA ResultsStay ==
  ASSUME Base, NEW t \in Threads, LoadStep(t), NEW p \in Pkgs, fut[p] \in Results
  PROVE  fut'[p] = fut[p]
<1> USE DEF Base
<1>1. LoadTypeOK' /\ (Walks(t) \/ AcquiresHere(t) \/ AcquiresToSubmit(t) \/ Hands(t) \/ Finalize(t) \/ Work(t))
  BY StepKinds
<1>2. CASE Walks(t) \/ Hands(t)
  BY <1>2 DEF Walks, Hands
<1>3. CASE Acquires(t)
  BY <1>3, AcquireFacts DEF Results
<1>4. CASE Finalize(t)
  BY <1>4, FinalizeFacts DEF Results
<1>5. CASE Work(t)
  BY <1>1, <1>5, TakeFacts
<1> QED BY <1>1, <1>2, <1>3, <1>4, <1>5 DEF AcquiresHere, AcquiresToSubmit

\* Which actions change what.
LEMMA StepChanges ==
  ASSUME NEW t \in Threads, LoadStep(t)
  PROVE  /\ built' = built \/ BuildFinishes(t)
         /\ (errcount' = errcount) \/ ParseHere(t) \/ ImportsChecked(t) \/ BuildFinishes(t) \/ Work(t)
         /\ \/ alive' = alive \/ LoadBegins(t) \/ MetaWait(t) \/ BuildBegins(t)
            \/ BuildFinishes(t) \/ PkgBuildFails(t)
         /\ unparsed' = unparsed \/ BuildBegins(t) \/ ParseHere(t) \/ Work(t)
         /\ \/ queue' = queue \/ Submit(t, "msubmit", "mload") \/ Submit(t, "bsubmit", "bload")
            \/ ParseElsewhere(t) \/ Work(t)
         /\ (dangling' = dangling) \/ ImportsChecked(t)
         /\ \/ parent' = parent /\ fut' = fut
            \/ Finalize(t)
            \/ LoadDependency(t, "mload", "msubmit") \/ LoadDependency(t, "bload", "bsubmit")
         /\ project' = project
<1>1. CASE LoadDependency(t, "mload", "msubmit") \/ LoadDependency(t, "bload", "bsubmit")
  BY <1>1 DEF LoadDependency, given
<1>2. CASE Submit(t, "msubmit", "mload") \/ Submit(t, "bsubmit", "bload")
  BY <1>2 DEF Submit, given
<1>3. CASE StartWaiting(t, "mload", "mwait") \/ StartWaiting(t, "bload", "bwait")
  BY <1>3 DEF StartWaiting, given
<1>4. CASE LoadBegins(t)
  BY <1>4 DEF LoadBegins, given
<1>5. CASE MetaWait(t)
  BY <1>5 DEF MetaWait, given
<1>6. CASE LoadApi(t)
  BY <1>6 DEF LoadApi, given
<1>7. CASE Finalize(t)
  BY <1>7 DEF Finalize, given
<1>8. CASE BuildBegins(t)
  BY <1>8 DEF BuildBegins, given
<1>9. CASE ParseHere(t)
  BY <1>9 DEF ParseHere, given
<1>10. CASE ParseElsewhere(t)
  BY <1>10 DEF ParseElsewhere, given
<1>11. CASE ParseWait(t)
  BY <1>11 DEF ParseWait, given
<1>12. CASE ImportsChecked(t)
  BY <1>12 DEF ImportsChecked, given
<1>13. CASE BuildWait(t)
  BY <1>13 DEF BuildWait, given
<1>14. CASE BuildFinishes(t)
  BY <1>14 DEF BuildFinishes, given
<1>15. CASE PkgBuildFails(t)
  BY <1>15 DEF PkgBuildFails, given
<1>16. CASE Work(t)
  BY <1>16 DEF Work, given
<1> QED BY <1>1, <1>2, <1>3, <1>4, <1>5, <1>6, <1>7, <1>8, <1>9, <1>10, <1>11, <1>12, <1>13,
           <1>14, <1>15, <1>16 DEF LoadStep, Load, Build

\* Two frames that load the same package are the same.
LEMMA OneFrame ==
  ASSUME Base, NEW t \in Threads, NEW u \in Threads, NEW n \in 1..Depth(t), NEW m \in 1..Depth(u),
         ~TopLevel(t, n), ~TopLevel(u, m), FrameAt(t, n).pkg = FrameAt(u, m).pkg
  PROVE  t = u /\ n = m
<1> DEFINE p == FrameAt(t, n).pkg
<1>1. p \in Pkgs /\ n \in Nat /\ m \in Nat
  BY FrameFacts, DepthFacts DEF Base
<1>2. FrameHolds(t, n, p) /\ FrameHolds(u, m, p)
  BY DEF FrameHolds
<1> HIDE DEF p
<1>3. /\ <<"frame", t, n>> \in Holders /\ <<"frame", u, m>> \in Holders
      /\ Holds(<<"frame", t, n>>, p) /\ Holds(<<"frame", u, m>>, p)
  BY <1>1, <1>2, HoldsFacts
<1>4. <<"frame", t, n>> = <<"frame", u, m>>
  BY <1>1, <1>3 DEF Base, HoldersOK
<1> QED BY <1>4

-----------------------------------------------------------------------------
(* What was built.                                                           *)

\* The load of p has its result, or it is about to.
Late(p) ==
  \/ fut[p] \in Results
  \/ \E t \in Threads : \E n \in 1..Depth(t) :
       /\ ~TopLevel(t, n) /\ FrameAt(t, n).pkg = p
       /\ FrameAt(t, n).at \in {"api", "ok", "err"}

\* A package is built once: the top-level build ends with it, a load does not go back.
BuiltOK ==
  /\ built[Root] > 0 => Depth(Main) = 0 \/ FrameAt(Main, 1).at = "ok"
  /\ \A p \in Pkgs : built[p] <= 1 /\ (p # Root /\ built[p] > 0 => Late(p))

LEMMA LateStays ==
  ASSUME Base, Base', NEW t \in Threads, LoadStep(t), NEW p \in Pkgs, Late(p), built[p] > 0
  PROVE  Late(p)'
<1>1. CASE fut[p] \in Results
  BY <1>1, ResultsStay DEF Late
<1>2. CASE fut[p] \notin Results
  <2>1. PICK u \in Threads, n \in Nat :
          /\ n \in 1..Depth(u)
          /\ ~TopLevel(u, n) /\ FrameAt(u, n).pkg = p
          /\ FrameAt(u, n).at \in {"api", "ok", "err"}
    BY <1>2, DepthFacts DEF Late, Base
  <2>2. CASE n \in 1..Depth(u)' /\ FrameAt(u, n)' = FrameAt(u, n)
    <3>1. ~TopLevel(u, n)' /\ FrameAt(u, n)'.pkg = p /\ FrameAt(u, n)'.at \in {"api", "ok", "err"}
      BY <2>1, <2>2 DEF TopLevel
    <3> QED BY <3>1, <2>2 DEF Late
  <2>3. CASE Finalize(t) /\ u = t /\ n = Depth(t)
    <3>1. stack[t] # <<>> /\ Top(t).at \in Results
      BY <2>3, FinalizeEffect DEF Base
    <3>2. Top(t) = FrameAt(t, Depth(t))
      BY <3>1, TopFacts DEF Base
    <3>3. fut'[p] = Top(t).at
      BY <2>1, <2>3, <3>2, FinalizeFacts DEF Base
    <3> QED BY <3>1, <3>3 DEF Late
  <2>4. CASE u = t /\ n = Depth(t) /\ Walks(t)
    <3>1. stack[t] # <<>> /\ Top(t).at \notin Results
      BY <2>4 DEF Walks
    <3>2. Top(t) = FrameAt(t, Depth(t))
      BY <3>1, TopFacts DEF Base
    <3>3. PICK l \in LoadPCs, i \in Nat : MovesTop(t, l, i) /\ May(t, l, i)
      BY <2>4 DEF Walks
    <3>4. l \in Results
      BY <2>1, <2>4, <3>1, <3>2, <3>3 DEF May, Results
    <3>5. n \in 1..Depth(u)' /\ FrameAt(u, n)'.pkg = p /\ FrameAt(u, n)'.at = l
      BY <2>1, <2>4, <3>2, <3>3 DEF MovesTop
    <3> QED BY <2>1, <3>4, <3>5 DEF Late, Results, TopLevel
  <2>5. ~Loops(FrameAt(u, n).at, FrameAt(u, n)'.at)
    BY <2>1 DEF Loops, Metas, Imports1
  <2> QED BY <2>1, <2>2, <2>3, <2>4, <2>5, FrameSteps
<1> QED BY <1>1, <1>2

LEMMA BottomOk ==
  ASSUME Base, Base', NEW t \in Threads, LoadStep(t), Depth(Main) > 0, FrameAt(Main, 1).at = "ok"
  PROVE  Depth(Main)' = 0 \/ FrameAt(Main, 1)'.at = "ok"
<1>1. Main \in Threads /\ Depth(Main) \in Nat
  BY ProjectFacts, DepthFacts DEF Base
<1>2. 1 \in 1..Depth(Main)
  BY <1>1
<1>3. CASE FrameAt(Main, 1)' = FrameAt(Main, 1)
  BY <1>3
<1>4. CASE t = Main /\ Depth(t) = 1 /\ Walks(t)
  <2>1. Top(t) = FrameAt(Main, 1) /\ Top(t).at \notin Results
    BY <1>4, TopFacts DEF Base, Walks
  <2> QED BY <2>1 DEF Results
<1>5. CASE t = Main /\ Depth(t) = 1 /\ Finalize(t)
  BY <1>5, FinalizeEffect DEF Base, Pops
<1>6. ~Loops(FrameAt(Main, 1).at, FrameAt(Main, 1)'.at)
  BY DEF Loops, Metas, Imports1
<1> QED BY <1>1, <1>2, <1>3, <1>4, <1>5, <1>6, FrameSteps

LEMMA BuiltStep ==
  ASSUME Base, Base', BuiltOK, exit = "running", NEW t \in Threads, LoadStep(t)
  PROVE  BuiltOK'
<1>1. Depth(Main) > 0 /\ Root \in Pkgs
  BY ProjectFacts DEF Base, FramesOK
<1>2. CASE built' = built
  <2>1. ASSUME NEW p \in Pkgs PROVE built'[p] <= 1 /\ (p # Root /\ built'[p] > 0 => Late(p)')
    BY <1>2, LateStays DEF BuiltOK
  <2>2. built'[Root] > 0 => Depth(Main)' = 0 \/ FrameAt(Main, 1)'.at = "ok"
    BY <1>1, <1>2, BottomOk DEF BuiltOK
  <2> QED BY <2>1, <2>2 DEF BuiltOK
<1>3. CASE built' # built
  <2> DEFINE q == Top(t).pkg
             l == IF TopLevel(t, Depth(t)) THEN "ok" ELSE "api"
  <2>1. /\ Walks(t) /\ Top(t).at = "finish" /\ built' = [built EXCEPT ![q] = @ + 1]
        /\ MovesTop(t, l, 1)
    <3>1. BuildFinishes(t)
      BY <1>3, StepChanges
    <3> QED BY <1>3, <3>1, BuildFinishesEffect DEF Base
  <2>2. stack[t] # <<>>
    BY <2>1 DEF Walks
  <2>3. /\ Depth(t) \in Nat \ {0} /\ Depth(t) \in 1..Depth(t) /\ Top(t) = FrameAt(t, Depth(t)) /\ q \in Pkgs
        /\ Role(t, Depth(t))
    BY <2>2, TopFacts, TopKnows DEF Base
  <2>4. Depth(t)' = Depth(t) /\ FrameAt(t, Depth(t))' = [pkg |-> q, at |-> l, i |-> 1]
    BY <2>1, <2>3 DEF MovesTop, FrameAt
  <2>5. q = Root <=> TopLevel(t, Depth(t))
    BY <2>1, <2>3 DEF Role, ImportsDone
  <2>6. built \in [Pkgs -> Nat]
    BY DEF Base, LoadTypeOK
  <2>7. built[q] = 0
    <3>1. CASE q = Root
      BY <3>1, <1>1, <2>1, <2>3, <2>5, <2>6 DEF BuiltOK, TopLevel
    <3>2. CASE q # Root
      <4> SUFFICES ASSUME built[q] > 0 PROVE FALSE
        BY <2>3, <2>6
      <4>1. fut[q] = "loading" /\ ~TopLevel(t, Depth(t))
        BY <3>2, <2>3, <2>5 DEF Role
      <4>2. PICK u \in Threads, n \in Nat :
              /\ n \in 1..Depth(u)
              /\ ~TopLevel(u, n) /\ FrameAt(u, n).pkg = q
              /\ FrameAt(u, n).at \in {"api", "ok", "err"}
        BY <3>2, <4>1, <2>3, DepthFacts DEF BuiltOK, Late, Results, Base
      <4>3. u = t /\ n = Depth(t)
        BY <4>1, <4>2, <2>3, OneFrame
      <4> QED BY <4>2, <4>3, <2>1, <2>3
    <3> QED BY <3>1, <3>2
  <2>8. FrameAt(t, Depth(t))'.pkg = q /\ FrameAt(t, Depth(t))'.at = l
    BY <2>4
  <2>9. ASSUME NEW p \in Pkgs PROVE built'[p] <= 1 /\ (p # Root /\ built'[p] > 0 => Late(p)')
    <3>1. CASE p = q
      <4>1. built'[p] = 1
        BY <3>1, <2>1, <2>6, <2>7
      <4>2. ASSUME p # Root PROVE Late(p)'
        <5>1. PICK d \in Nat : d = Depth(t)
          BY <2>3
        <5>2. ~TopLevel(t, Depth(t)) /\ l = "api"
          BY <3>1, <4>2, <2>5
        <5>3. FrameAt(t, d)' = [pkg |-> q, at |-> l, i |-> 1] /\ d \in 1..Depth(t)'
          BY <5>1, <2>1, <2>3 DEF MovesTop
        <5>4. FrameAt(t, d)'.pkg = p /\ FrameAt(t, d)'.at = "api" /\ ~TopLevel(t, d)
          BY <5>1, <5>2, <5>3, <3>1
        <5> QED BY <5>3, <5>4 DEF Late, TopLevel
      <4> QED BY <4>1, <4>2
    <3>2. CASE p # q
      BY <3>2, <2>1, <2>6, LateStays DEF BuiltOK
    <3> QED BY <3>1, <3>2
  <2>10. built'[Root] > 0 => Depth(Main)' = 0 \/ FrameAt(Main, 1)'.at = "ok"
    <3>1. CASE q = Root
      <4>1. t = Main /\ Depth(t) = 1 /\ l = "ok"
        BY <3>1, <2>5 DEF TopLevel
      <4>2. 1 \in 1..Depth(t)
        BY <4>1, <2>3
      <4>3. FrameAt(Main, 1)' = [pkg |-> q, at |-> l, i |-> 1]
        BY <4>1, <4>2, <2>1 DEF MovesTop
      <4> QED BY <4>1, <4>3
    <3>2. CASE q # Root
      BY <3>2, <1>1, <2>1, <2>6, BottomOk DEF BuiltOK
    <3> QED BY <3>1, <3>2
  <2> QED BY <2>9, <2>10 DEF BuiltOK
<1> QED BY <1>2, <1>3

-----------------------------------------------------------------------------
(* Parsing.                                                                  *)

Jobs == {queue[k] : k \in 1..Len(queue)}

\* No unit is given to the pool twice.
JobsDistinct ==
  \A k, m \in 1..Len(queue) : queue[k][1] = "parse" /\ queue[k] = queue[m] => k = m

Parses(t, p) == stack[t] # <<>> /\ Top(t).at = "parse" /\ Top(t).pkg = p

\* A unit in the pool is one of a build that waits for it, and that has given away
\* no unit that it has not come to.
ParseOK ==
  /\ JobsDistinct
  /\ \A j \in Jobs : j[1] = "parse" =>
       /\ j[3] \in unparsed[j[2]]
       /\ \E t \in Threads : Parses(t, j[2]) /\ j[3] < Top(t).i
  /\ \A t \in Threads : \A p \in Pkgs : Parses(t, p) =>
       Top(t).i..project.units[p] \subseteq unparsed[p]

LEMMA JobFacts ==
  ASSUME LoadTypeOK
  PROVE  /\ Len(queue) \in Nat
         /\ \A j \in Jobs : j[1] \in {"load", "parse"} /\ j[2] \in Pkgs /\ j[3] \in Nat /\ j = <<j[1], j[2], j[3]>>
<1>1. queue \in Seq({"load", "parse"} \X Pkgs \X Nat)
  BY DEF LoadTypeOK
<1> QED BY <1>1 DEF Jobs

LEMMA JobAppended ==
  ASSUME LoadTypeOK, NEW j, queue' = Append(queue, j)
  PROVE  /\ Jobs' = Jobs \cup {j}
         /\ JobsDistinct /\ (j[1] = "parse" => j \notin Jobs) => JobsDistinct'
<1> DEFINE Q == {"load", "parse"} \X Pkgs \X Nat
<1>1. queue \in Seq(Q \cup {j})
  BY DEF LoadTypeOK
<1> HIDE DEF Q
<1>2. /\ Len(queue) \in Nat /\ Len(queue') = Len(queue) + 1 /\ queue'[Len(queue) + 1] = j
      /\ \A k \in 1..Len(queue) : queue'[k] = queue[k]
  BY <1>1
<1>3. Jobs' = Jobs \cup {j}
  BY <1>2 DEF Jobs
<1>4. ASSUME JobsDistinct, j[1] = "parse" => j \notin Jobs,
             NEW k \in 1..Len(queue'), NEW m \in 1..Len(queue'),
             queue'[k][1] = "parse", queue'[k] = queue'[m]
      PROVE  k = m
  <2>1. CASE k \in 1..Len(queue) /\ m \in 1..Len(queue)
    BY <2>1, <1>2, <1>4 DEF JobsDistinct
  <2>2. CASE k \notin 1..Len(queue) /\ m \in 1..Len(queue)
    BY <2>2, <1>2, <1>4 DEF Jobs
  <2>3. CASE k \in 1..Len(queue) /\ m \notin 1..Len(queue)
    BY <2>3, <1>2, <1>4 DEF Jobs
  <2>4. CASE k \notin 1..Len(queue) /\ m \notin 1..Len(queue)
    BY <2>4, <1>2
  <2> QED BY <2>1, <2>2, <2>3, <2>4
<1> QED BY <1>3, <1>4 DEF JobsDistinct

LEMMA JobTaken ==
  ASSUME LoadTypeOK, queue # <<>>, queue' = Tail(queue)
  PROVE  /\ queue[1] \in Jobs /\ Jobs' \subseteq Jobs
         /\ JobsDistinct => JobsDistinct' /\ (queue[1][1] = "parse" => queue[1] \notin Jobs')
<1> DEFINE Q == {"load", "parse"} \X Pkgs \X Nat
<1>1. queue \in Seq(Q)
  BY DEF LoadTypeOK
<1> HIDE DEF Q
<1>2. /\ Len(queue) \in Nat \ {0} /\ Len(queue') = Len(queue) - 1
      /\ \A k \in 1..(Len(queue) - 1) : queue'[k] = queue[k + 1]
  BY <1>1
<1>3. queue[1] \in Jobs /\ Jobs' \subseteq Jobs
  BY <1>2 DEF Jobs
<1>4. ASSUME JobsDistinct PROVE JobsDistinct' /\ (queue[1][1] = "parse" => queue[1] \notin Jobs')
  <2>1. ASSUME NEW k \in 1..Len(queue'), NEW m \in 1..Len(queue'),
               queue'[k][1] = "parse", queue'[k] = queue'[m]
        PROVE  k = m
    <3>1. k + 1 \in 1..Len(queue) /\ m + 1 \in 1..Len(queue)
          /\ queue'[k] = queue[k + 1] /\ queue'[m] = queue[m + 1]
      BY <1>2
    <3>2. k + 1 = m + 1
      BY <2>1, <3>1, <1>4 DEF JobsDistinct
    <3> QED BY <3>2
  <2>2. ASSUME queue[1][1] = "parse", queue[1] \in Jobs' PROVE FALSE
    <3>1. PICK k \in 1..Len(queue') : queue'[k] = queue[1]
      BY <2>2 DEF Jobs
    <3>2. k + 1 \in 1..Len(queue) /\ 1 \in 1..Len(queue) /\ queue[k + 1] = queue[1]
      BY <3>1, <1>2
    <3>3. 1 = k + 1
      BY <2>2, <3>2, <1>4 DEF JobsDistinct
    <3> QED BY <3>1, <3>3, <1>2
  <2> QED BY <2>1, <2>2 DEF JobsDistinct
<1> QED BY <1>3, <1>4

\* One build of a package at a time parses it.
LEMMA OneBuilder ==
  ASSUME Base, NEW t \in Threads, NEW u \in Threads, stack[t] # <<>>, stack[u] # <<>>,
         Top(t).at \in Early, Top(u).at \in Early, Top(t).pkg = Top(u).pkg
  PROVE  t = u
<1>1. /\ Top(t) = FrameAt(t, Depth(t)) /\ Top(u) = FrameAt(u, Depth(u)) /\ Top(t).pkg \in Pkgs
      /\ Depth(t) \in 1..Depth(t) /\ Depth(u) \in 1..Depth(u) /\ Role(t, Depth(t)) /\ Role(u, Depth(u))
  BY TopFacts, TopKnows DEF Base
<1>2. CASE TopLevel(t, Depth(t)) /\ TopLevel(u, Depth(u))
  BY <1>2 DEF TopLevel
<1>3. CASE ~TopLevel(t, Depth(t)) /\ ~TopLevel(u, Depth(u))
  BY <1>1, <1>3, OneFrame
<1>4. CASE TopLevel(t, Depth(t)) /\ ~TopLevel(u, Depth(u))
  BY <1>1, <1>4 DEF Base, DemandOK, TopLevel, Role
<1>5. CASE ~TopLevel(t, Depth(t)) /\ TopLevel(u, Depth(u))
  BY <1>1, <1>5 DEF Base, DemandOK, TopLevel, Role
<1> QED BY <1>2, <1>3, <1>4, <1>5

\* The innermost frame of another thread stays.
LEMMA OthersTop ==
  ASSUME Base, Base', NEW t \in Threads, LoadStep(t), NEW u \in Threads, u # t
  PROVE  /\ (stack[u] # <<>>)' <=> stack[u] # <<>>
         /\ stack[u] # <<>> => Top(u)' = Top(u)
<1> USE DEF Base
<1>1. Depth(u)' = Depth(u) /\ \A n \in 1..Depth(u) : FrameAt(u, n)' = FrameAt(u, n)
  <2>1. Walks(t) \/ AcquiresHere(t) \/ AcquiresToSubmit(t) \/ Hands(t) \/ Finalize(t) \/ Work(t)
    BY StepKinds
  <2>2. CASE \E l, i : MovesTop(t, l, i)
    BY <2>2 DEF MovesTop
  <2>3. CASE AcquiresHere(t)
    BY <2>3 DEF AcquiresHere, Pushes
  <2>4. CASE Finalize(t)
    <3>1. Pops(t)
      BY <2>4, FinalizeEffect
    <3> QED BY <3>1 DEF Pops
  <2>5. CASE Work(t)
    BY <2>5, TakeFacts
  <2> QED BY <2>1, <2>2, <2>3, <2>4, <2>5 DEF Walks, AcquiresToSubmit, Hands
<1>2. project' = project
  BY StepChanges
<1> QED BY <1>1, <1>2, SubmitStays

\* A thread that parses does nothing else, and begins to by BuildBegins.
LEMMA ParsingSteps ==
  ASSUME NEW t \in Threads, LoadStep(t), stack[t] # <<>>
  PROVE  /\ Top(t).at = "parse" => ParseHere(t) \/ ParseElsewhere(t) \/ ParseWait(t)
         /\ Top(t).at = "build" => BuildBegins(t)
         /\ Top(t).at = "finish" => BuildFinishes(t)
         /\ Top(t).at = "ok" => Finalize(t)
         /\ Top(t).at = "load" => LoadBegins(t)
         /\ Top(t).at = "imports" => ImportsChecked(t)
<1> DEFINE l == Top(t).at
<1>1. LoadDependency(t, "mload", "msubmit") \/ LoadDependency(t, "bload", "bsubmit") => l \in {"mload", "bload"}
  BY DEF LoadDependency, At
<1>2. Submit(t, "msubmit", "mload") \/ Submit(t, "bsubmit", "bload") => l \in {"msubmit", "bsubmit"}
  BY DEF Submit, At
<1>3. StartWaiting(t, "mload", "mwait") \/ StartWaiting(t, "bload", "bwait") => l \in {"mload", "bload"}
  BY DEF StartWaiting, At
<1>4. /\ LoadBegins(t) => l = "load"
      /\ MetaWait(t) => l = "mwait"
      /\ LoadApi(t) => l = "api"
      /\ Finalize(t) => l \in {"ok", "err"}
      /\ ~Work(t)
  BY DEF LoadBegins, MetaWait, LoadApi, Finalize, Work, At
<1>5. /\ BuildBegins(t) => l = "build"
      /\ ParseHere(t) \/ ParseElsewhere(t) \/ ParseWait(t) => l = "parse"
      /\ ImportsChecked(t) => l = "imports"
      /\ BuildWait(t) => l = "bwait"
      /\ BuildFinishes(t) => l = "finish"
      /\ PkgBuildFails(t) => l = "fail"
  BY DEF BuildBegins, ParseHere, ParseElsewhere, ParseWait, ImportsChecked, BuildWait, BuildFinishes,
         PkgBuildFails, At
<1> HIDE DEF l
<1>6. /\ l = "parse" => ParseHere(t) \/ ParseElsewhere(t) \/ ParseWait(t)
      /\ l = "build" => BuildBegins(t)
      /\ l = "finish" => BuildFinishes(t)
      /\ l = "ok" => Finalize(t)
      /\ l = "load" => LoadBegins(t)
      /\ l = "imports" => ImportsChecked(t)
  BY <1>1, <1>2, <1>3, <1>4, <1>5 DEF LoadStep, Load, Build
<1> QED BY <1>6 DEF l

LEMMA StartsParsing ==
  ASSUME Base, Base', NEW t \in Threads, LoadStep(t), (stack[t] # <<>>)', Top(t)'.at = "parse"
  PROVE  ParseHere(t) \/ ParseElsewhere(t) \/ BuildBegins(t)
<1> USE DEF Base
<1>1. Walks(t) \/ AcquiresHere(t) \/ AcquiresToSubmit(t) \/ Hands(t) \/ Finalize(t) \/ Work(t)
  BY StepKinds
<1>2. project' = project
  BY StepChanges
<1>3. Top(t)' = FrameAt(t, Depth(t))'
  BY DEF Top, FrameAt, Depth
<1>4. CASE Walks(t)
  <2>1. stack[t] # <<>>
    BY <1>4 DEF Walks
  <2>2. PICK l \in LoadPCs, i \in Nat : MovesTop(t, l, i) /\ May(t, l, i)
    BY <1>4 DEF Walks
  <2>3. l = "parse"
    BY <2>1, <2>2, <1>2, MovedTop
  <2>4. Top(t).at \in {"build", "parse"}
    BY <2>2, <2>3 DEF May
  <2>5. ASSUME ParseWait(t) PROVE FALSE
    <3>1. MovesTop(t, "imports", 1) \/ MovesTop(t, "fail", 1)
      BY <2>5, ParseWaitEffect
    <3> QED BY <3>1, <2>1, <1>2, MovedTop
  <2> QED BY <2>1, <2>4, <2>5, ParsingSteps
<1>5. CASE AcquiresHere(t)
  BY <1>3, <1>5 DEF AcquiresHere, Pushes, Frame
<1>6. CASE AcquiresToSubmit(t)
  <2>1. stack[t] # <<>> /\ \E l \in Submitting : MovesTop(t, l, Top(t).i)
    BY <1>6 DEF AcquiresToSubmit, Acquires
  <2> QED BY <2>1, <1>2, MovedTop DEF Submitting
<1>7. CASE Hands(t)
  <2>1. stack[t] # <<>> /\ \E l \in {"mload", "bload"} : MovesTop(t, l, Top(t).i + 1)
    BY <1>7 DEF Hands, Submits
  <2> QED BY <2>1, <1>2, MovedTop
<1>8. CASE Finalize(t)
  <2>1. Pops(t) /\ stack[t] # <<>>
    BY <1>8, FinalizeEffect
  <2>2. Depth(t) \in Nat \ {0} /\ Depth(t)' \in Nat \ {0}
    BY <2>1, TopFacts DEF LoadTypeOK, Depth
  <2>3. PICK m \in Nat : m = Depth(t)'
    BY <2>2
  <2>4. m \in 1..Depth(t) /\ m < Depth(t) /\ m \in 1..Depth(t)'
    BY <2>1, <2>2, <2>3 DEF Pops
  <2>5. FrameAt(t, m)' = FrameAt(t, m)
    BY <2>1, <2>4 DEF Pops
  <2>6. Top(t)' = FrameAt(t, m)
    BY <2>3, <2>5 DEF Top, FrameAt, Depth
  <2>7. FrameAt(t, m).at \in {"mload", "bload"}
    BY <2>4 DEF FramesOK, Below
  <2> QED BY <2>6, <2>7
<1>9. CASE Work(t)
  <2>1. IF queue[1][1] = "load" THEN Depth(t)' = 1 /\ FrameAt(t, 1)' = Frame(queue[1][2], "load")
        ELSE Depth(t)' = 0
    BY <1>9, TakeFacts
  <2>2. Depth(t)' # 0
    BY DEF LoadTypeOK, Depth
  <2>3. Top(t)' = Frame(queue[1][2], "load")
    BY <2>1, <2>2 DEF Top, FrameAt, Depth
  <2> QED BY <2>3 DEF Frame
<1> QED BY <1>1, <1>4, <1>5, <1>6, <1>7, <1>8, <1>9

\* Whoever waits for a parse job stays where it is, or goes on to later units.
LEMMA ParsesStay ==
  ASSUME Base, Base', NEW t \in Threads, LoadStep(t), NEW u \in Threads, NEW p \in Pkgs, Parses(u, p)
  PROVE  /\ u # t => Parses(u, p)' /\ Top(u)' = Top(u)
         /\ u = t /\ (ParseHere(t) \/ ParseElsewhere(t)) => Parses(u, p)' /\ Top(u)'.i = Top(u).i + 1
<1> USE DEF Base
<1>1. ASSUME u # t PROVE Parses(u, p)' /\ Top(u)' = Top(u)
  BY <1>1, OthersTop DEF Parses
<1>2. ASSUME u = t, ParseHere(t) \/ ParseElsewhere(t)
      PROVE  Parses(u, p)' /\ Top(u)'.i = Top(u).i + 1
  <2>1. stack[t] # <<>> /\ MovesTop(t, "parse", Top(t).i + 1) /\ project' = project
    BY <1>2, ParseHereEffect, ParseElsewhereEffect, StepChanges DEF Walks
  <2>2. Top(t)'.pkg = Top(t).pkg /\ Top(t)'.at = "parse" /\ Top(t)'.i = Top(t).i + 1 /\ (stack[t] # <<>>)'
    BY <2>1, MovedTop
  <2> QED BY <2>2, <1>2 DEF Parses
<1> QED BY <1>1, <1>2

\* A thread that parses after a step did so before, or begins to.
LEMMA ParsesFrom ==
  ASSUME Base, Base', NEW t \in Threads, LoadStep(t), NEW u \in Threads, NEW p \in Pkgs, Parses(u, p)'
  PROVE  IF u # t THEN Parses(u, p) /\ Top(u)' = Top(u)
         ELSE \/ ParseHere(t) /\ Parses(t, p) /\ Top(t)'.i = Top(t).i + 1
              \/ ParseElsewhere(t) /\ Parses(t, p) /\ Top(t)'.i = Top(t).i + 1
              \/ BuildBegins(t) /\ stack[t] # <<>> /\ Top(t).pkg = p /\ Top(t)'.i \in Nat /\ Top(t)'.i > 0
<1> USE DEF Base
<1>1. CASE u # t
  <2>1. (stack[u] # <<>>)'
    BY DEF Parses
  <2> QED BY <2>1, <1>1, OthersTop DEF Parses
<1>2. CASE u = t
  <2>1. (stack[t] # <<>>)' /\ Top(t)'.at = "parse" /\ Top(t)'.pkg = p
    BY <1>2 DEF Parses
  <2>2. ParseHere(t) \/ ParseElsewhere(t) \/ BuildBegins(t)
    BY <2>1, StartsParsing
  <2>3. project' = project
    BY StepChanges
  <2>4. ASSUME ParseHere(t) \/ ParseElsewhere(t)
        PROVE  Parses(t, p) /\ Top(t)'.i = Top(t).i + 1
    <3>1. stack[t] # <<>> /\ Top(t).at = "parse" /\ MovesTop(t, "parse", Top(t).i + 1)
      BY <2>4, ParseHereEffect, ParseElsewhereEffect DEF Walks
    <3>2. Top(t)'.pkg = Top(t).pkg /\ Top(t)'.i = Top(t).i + 1
      BY <3>1, <2>3, MovedTop
    <3> QED BY <3>1, <3>2, <2>1 DEF Parses
  <2>5. ASSUME BuildBegins(t)
        PROVE  stack[t] # <<>> /\ Top(t).pkg = p /\ Top(t)'.i \in Nat /\ Top(t)'.i > 0
    <3>1. stack[t] # <<>> /\ \E l : MovesTop(t, l, 1)
      BY <2>5, BuildBeginsEffect DEF Walks
    <3>2. Top(t)'.pkg = Top(t).pkg /\ Top(t)'.i = 1
      BY <3>1, <2>3, MovedTop
    <3> QED BY <3>1, <3>2, <2>1
  <2> QED BY <2>2, <2>4, <2>5, <1>2
<1> QED BY <1>1, <1>2

LEMMA ParseStep ==
  ASSUME Base, Base', ParseOK, NEW t \in Threads, LoadStep(t)
  PROVE  ParseOK'
<1> USE DEF Base
<1>1. unparsed \in [Pkgs -> SUBSET Nat] /\ project' = project /\ LoadTypeOK'
  BY StepChanges DEF LoadTypeOK
<1>2. \A p \in Pkgs : project.units[p] \in Nat
  BY ProjectFacts
\* The builder of a package is the only one.
<1>3. ASSUME NEW u \in Threads, NEW v \in Threads, NEW p \in Pkgs, Parses(u, p), Parses(v, p)
      PROVE  u = v
  BY <1>3, OneBuilder DEF Parses, Early
<1>4. ASSUME NEW u \in Threads, NEW p \in Pkgs, Parses(u, p)
      PROVE  stack[u] # <<>> /\ Top(u).at = "parse" /\ Top(u).pkg = p /\ Top(u).i \in Nat
  BY <1>4, TopFacts DEF Parses
<1>5. CASE BuildBegins(t)
  <2> DEFINE q == Top(t).pkg
  <2>1. /\ stack[t] # <<>> /\ Top(t).at = "build" /\ queue' = queue
        /\ unparsed' = unparsed \/ unparsed' = [unparsed EXCEPT ![q] = 1..project.units[q]]
    BY <1>5, BuildBeginsEffect DEF Walks
  <2>2. q \in Pkgs
    BY <2>1, TopFacts
  <2>3. ASSUME NEW u \in Threads PROVE ~Parses(u, q)
    BY <2>1, <2>2, <2>3, OneBuilder DEF Parses, Early
  <2>4. \A p \in Pkgs : p # q => unparsed'[p] = unparsed[p]
    BY <1>1, <2>1, <2>2
  <2>5. JobsDistinct' /\ Jobs' = Jobs
    BY <2>1 DEF ParseOK, JobsDistinct, Jobs
  <2>6. ASSUME NEW j \in Jobs, j[1] = "parse"
        PROVE  /\ j[3] \in unparsed'[j[2]]
               /\ \E u \in Threads : Parses(u, j[2])' /\ j[3] < Top(u)'.i
    <3>1. j[2] \in Pkgs /\ j[3] \in Nat
      BY JobFacts
    <3>2. PICK u \in Threads : Parses(u, j[2]) /\ j[3] < Top(u).i
      BY <2>6 DEF ParseOK
    <3>3. u # t /\ j[2] # q
      BY <3>1, <3>2, <2>1, <2>3 DEF Parses
    <3>4. Parses(u, j[2])' /\ Top(u)' = Top(u)
      BY <3>1, <3>2, <3>3, ParsesStay
    <3>5. j[3] \in unparsed'[j[2]]
      BY <3>1, <3>3, <2>4, <2>6 DEF ParseOK
    <3> QED BY <3>2, <3>4, <3>5
  <2>7. ASSUME NEW u \in Threads, NEW p \in Pkgs, Parses(u, p)'
        PROVE  Top(u)'.i..project.units[p] \subseteq unparsed'[p]
    <3>1. CASE u # t
      <4>1. Parses(u, p) /\ Top(u)' = Top(u)
        BY <3>1, <2>7, ParsesFrom
      <4>2. p # q
        BY <4>1, <2>3
      <4> QED BY <4>1, <4>2, <2>4 DEF ParseOK
    <3>2. CASE u = t
      <4>1. MovesTop(t, "parse", 1) \/ MovesTop(t, "err", 1) \/ MovesTop(t, "fail", 1)
        BY <1>5, BuildBeginsEffect
      <4>2. Top(t)'.at = "parse" /\ Top(t)'.pkg = p
        BY <3>2, <2>7 DEF Parses
      <4>3. ~MovesTop(t, "err", 1) /\ ~MovesTop(t, "fail", 1)
        BY <4>2, <2>1, <1>1, MovedTop
      <4>4. Top(t)'.i = 1 /\ p = q
        BY <4>1, <4>2, <4>3, <2>1, <1>1, MovedTop
      <4>5. unparsed'[q] = 1..project.units[q]
        BY <4>3, <1>1, <1>5, <2>2, BuildBeginsEffect
      <4> QED BY <4>4, <4>5, <3>2
    <3> QED BY <3>1, <3>2
  <2> QED BY <2>5, <2>6, <2>7, <1>1 DEF ParseOK
<1>6. CASE ParseHere(t)
  <2> DEFINE q == Top(t).pkg
             x == Top(t).i
  <2>1. /\ stack[t] # <<>> /\ Top(t).at = "parse" /\ queue' = queue
        /\ unparsed' = [unparsed EXCEPT ![q] = @ \ {x}]
    BY <1>6, ParseHereEffect DEF Walks, Signalled
  <2>2. q \in Pkgs /\ x \in Nat /\ Parses(t, q)
    BY <2>1, TopFacts DEF Parses
  <2>3. \A p \in Pkgs : unparsed'[p] = IF p = q THEN unparsed[p] \ {x} ELSE unparsed[p]
    BY <1>1, <2>1, <2>2
  <2>4. JobsDistinct' /\ Jobs' = Jobs
    BY <2>1 DEF ParseOK, JobsDistinct, Jobs
  <2>5. ASSUME NEW j \in Jobs, j[1] = "parse"
        PROVE  /\ j[3] \in unparsed'[j[2]]
               /\ \E u \in Threads : Parses(u, j[2])' /\ j[3] < Top(u)'.i
    <3>1. j[2] \in Pkgs /\ j[3] \in Nat
      BY JobFacts
    <3>2. PICK u \in Threads : Parses(u, j[2]) /\ j[3] < Top(u).i
      BY <2>5 DEF ParseOK
    <3>3. Parses(u, j[2])' /\ j[3] < Top(u)'.i
      <4>1. CASE u = t
        BY <4>1, <3>1, <3>2, <2>2, <1>6, ParsesStay
      <4>2. CASE u # t
        BY <4>2, <3>1, <3>2, ParsesStay
      <4> QED BY <4>1, <4>2
    <3>4. j[3] \in unparsed'[j[2]]
      <4>1. j[2] = q => j[3] # x
        BY <3>1, <3>2, <2>2, <1>3
      <4> QED BY <4>1, <3>1, <2>3, <2>5 DEF ParseOK
    <3> QED BY <3>3, <3>4
  <2>6. ASSUME NEW u \in Threads, NEW p \in Pkgs, Parses(u, p)'
        PROVE  Top(u)'.i..project.units[p] \subseteq unparsed'[p]
    <3>1. CASE u # t
      <4>1. Parses(u, p) /\ Top(u)' = Top(u)
        BY <3>1, <2>6, ParsesFrom
      <4>2. p # q
        BY <4>1, <3>1, <2>2, <1>3
      <4> QED BY <4>1, <4>2, <2>3 DEF ParseOK
    <3>2. CASE u = t
      <4>1. Parses(t, p) /\ Top(t)'.i = x + 1
        <5>1. ~BuildBegins(t)
          BY <2>1 DEF BuildBegins, At
        <5> QED BY <5>1, <3>2, <2>6, ParsesFrom
      <4>2. p = q /\ x..project.units[p] \subseteq unparsed[p]
        BY <4>1, <2>2 DEF ParseOK, Parses
      <4>3. ASSUME NEW y \in (x + 1)..project.units[p] PROVE y \in unparsed'[p]
        <5>1. y \in x..project.units[p] /\ y # x
          BY <2>2, <1>2
        <5> QED BY <5>1, <4>2, <2>3
      <4> QED BY <4>1, <4>3, <3>2
    <3> QED BY <3>1, <3>2
  <2> QED BY <2>4, <2>5, <2>6, <1>1 DEF ParseOK
<1>7. CASE ParseElsewhere(t)
  <2>0. stack[t] # <<>> /\ Top(t).at = "parse"
    BY <1>7, ParseElsewhereEffect DEF Walks
  <2> PICK q \in Pkgs, x \in Nat : q = Top(t).pkg /\ x = Top(t).i
    BY <2>0, TopFacts
  <2> DEFINE new == ParseJob(q, x)
  <2>1. /\ stack[t] # <<>> /\ Top(t).at = "parse" /\ x <= project.units[q]
        /\ queue' = Append(queue, new) /\ unparsed' = unparsed
    BY <1>7, ParseElsewhereEffect DEF Walks
  <2>2. /\ q \in Pkgs /\ x \in Nat /\ Parses(t, q) /\ x = Top(t).i
        /\ new[1] = "parse" /\ new[2] = q /\ new[3] = x
    BY <2>1 DEF Parses, ParseJob
  <2>3. x \in unparsed[q]
    <3>1. x..project.units[q] \subseteq unparsed[q]
      BY <2>2 DEF ParseOK
    <3> QED BY <3>1, <2>1, <2>2, <1>2
  <2>4. ASSUME NEW j \in Jobs, j[1] = "parse"
        PROVE  /\ j[3] \in unparsed'[j[2]] /\ j # new
               /\ \E u \in Threads : Parses(u, j[2])' /\ j[3] < Top(u)'.i
    <3>1. j[2] \in Pkgs /\ j[3] \in Nat
      BY JobFacts
    <3>2. PICK u \in Threads : Parses(u, j[2]) /\ j[3] < Top(u).i
      BY <2>4 DEF ParseOK
    <3>3. Parses(u, j[2])' /\ j[3] < Top(u)'.i
      <4>1. CASE u = t
        BY <4>1, <3>1, <3>2, <2>2, <1>7, ParsesStay
      <4>2. CASE u # t
        BY <4>2, <3>1, <3>2, ParsesStay
      <4> QED BY <4>1, <4>2
    <3>4. j[3] \in unparsed'[j[2]]
      BY <2>1, <2>4 DEF ParseOK
    <3>5. j # new
      <4> SUFFICES ASSUME j = new PROVE FALSE
        OBVIOUS
      <4>1. u = t
        BY <3>1, <3>2, <2>2, <1>3
      <4> QED BY <4>1, <3>2, <2>2
    <3> QED BY <3>3, <3>4, <3>5
  <2> HIDE DEF new
  <2>5. JobsDistinct' /\ Jobs' = Jobs \cup {new}
    BY <2>1, <2>2, <2>4, JobAppended DEF ParseOK
  <2>6. /\ new[3] \in unparsed'[new[2]]
        /\ \E u \in Threads : Parses(u, new[2])' /\ new[3] < Top(u)'.i
    <3>1. Parses(t, q)' /\ Top(t)'.i = x + 1
      BY <2>2, <1>7, ParsesStay
    <3> QED BY <3>1, <2>1, <2>2, <2>3
  <2>7. ASSUME NEW u \in Threads, NEW p \in Pkgs, Parses(u, p)'
        PROVE  Top(u)'.i..project.units[p] \subseteq unparsed'[p]
    <3>1. CASE u # t
      <4>1. Parses(u, p) /\ Top(u)' = Top(u)
        BY <3>1, <2>7, ParsesFrom
      <4> QED BY <4>1, <2>1 DEF ParseOK
    <3>2. CASE u = t
      <4>1. Parses(t, p) /\ Top(t)'.i = x + 1
        <5>1. ~BuildBegins(t)
          BY <2>1 DEF BuildBegins, At
        <5> QED BY <5>1, <3>2, <2>7, ParsesFrom
      <4>2. x..project.units[p] \subseteq unparsed[p]
        BY <4>1 DEF ParseOK
      <4> QED BY <4>1, <4>2, <3>2, <2>1, <2>2, <1>2
    <3> QED BY <3>1, <3>2
  <2> QED BY <2>4, <2>5, <2>6, <2>7, <1>1 DEF ParseOK
<1>8. CASE Work(t)
  <2> DEFINE old == queue[1]
             q == old[2]
             x == old[3]
  <2>1. /\ queue # <<>> /\ queue' = Tail(queue) /\ stack[t] = <<>>
        /\ IF old[1] = "parse" THEN unparsed' = [unparsed EXCEPT ![q] = @ \ {x}] ELSE unparsed' = unparsed
    BY <1>8, WorkEffect DEF TakesJob, Signalled
  <2>2. old \in Jobs /\ Jobs' \subseteq Jobs /\ JobsDistinct' /\ (old[1] = "parse" => old \notin Jobs')
    BY <2>1, JobTaken DEF ParseOK
  <2>3. q \in Pkgs /\ x \in Nat /\ old = <<old[1], q, x>>
    BY <2>2, JobFacts
  <2>4. \A p \in Pkgs : unparsed'[p] = IF old[1] = "parse" /\ p = q THEN unparsed[p] \ {x} ELSE unparsed[p]
    BY <1>1, <2>1, <2>3
  <2>5. ASSUME NEW j \in Jobs', j[1] = "parse"
        PROVE  /\ j[3] \in unparsed'[j[2]]
               /\ \E u \in Threads : Parses(u, j[2])' /\ j[3] < Top(u)'.i
    <3>1. j \in Jobs /\ j[2] \in Pkgs /\ j[3] \in Nat /\ j = <<j[1], j[2], j[3]>>
      BY <2>2, JobFacts
    <3>2. PICK u \in Threads : Parses(u, j[2]) /\ j[3] < Top(u).i
      BY <3>1, <2>5 DEF ParseOK
    <3>3. u # t
      BY <3>2, <2>1 DEF Parses
    <3>4. Parses(u, j[2])' /\ Top(u)' = Top(u)
      BY <3>1, <3>2, <3>3, ParsesStay
    <3>5. j[3] \in unparsed'[j[2]]
      <4>1. old[1] = "parse" /\ j[2] = q => j[3] # x
        BY <3>1, <2>2, <2>3, <2>5
      <4> QED BY <4>1, <3>1, <2>4, <2>5 DEF ParseOK
    <3> QED BY <3>2, <3>4, <3>5
  <2>6. ASSUME NEW u \in Threads, NEW p \in Pkgs, Parses(u, p)'
        PROVE  Top(u)'.i..project.units[p] \subseteq unparsed'[p]
    <3>1. u # t
      BY <2>1, <2>6, ParsesFrom DEF Parses, ParseHere, ParseElsewhere, BuildBegins, At
    <3>2. Parses(u, p) /\ Top(u)' = Top(u)
      BY <3>1, <2>6, ParsesFrom
    <3>3. Top(u).i \in Nat /\ Top(u).i..project.units[p] \subseteq unparsed[p]
      BY <3>2, <1>4 DEF ParseOK
    <3>4. CASE old[1] = "parse" /\ p = q
      <4>1. PICK v \in Threads : Parses(v, q) /\ x < Top(v).i
        BY <3>4, <2>2 DEF ParseOK
      <4>2. v = u
        BY <4>1, <3>2, <3>4, <1>3
      <4>3. unparsed'[p] = unparsed[p] \ {x}
        BY <3>4, <2>4
      <4>4. x < Top(u).i /\ x \in Nat /\ Top(u).i \in Nat
        BY <4>1, <4>2, <3>3, <2>3
      <4>5. ASSUME NEW y \in Top(u).i..project.units[p] PROVE y # x
        BY <4>4, <1>2
      <4> QED BY <4>3, <4>5, <3>2, <3>3
    <3>5. CASE ~(old[1] = "parse" /\ p = q)
      BY <3>2, <3>3, <3>5, <2>4
    <3> QED BY <3>4, <3>5
  <2> QED BY <2>2, <2>5, <2>6, <1>1 DEF ParseOK
<1>9. CASE ~BuildBegins(t) /\ ~ParseHere(t) /\ ~ParseElsewhere(t) /\ ~Work(t)
  <2>1. unparsed' = unparsed
    BY <1>9, StepChanges
  <2>2. ASSUME NEW j \in Jobs, j[1] = "parse"
        PROVE  /\ j[3] \in unparsed'[j[2]]
               /\ \E u \in Threads : Parses(u, j[2])' /\ j[3] < Top(u)'.i
    <3>1. j[2] \in Pkgs /\ j[3] \in Nat /\ j[3] \in unparsed[j[2]]
      BY <2>2, JobFacts DEF ParseOK
    <3>2. PICK u \in Threads : Parses(u, j[2]) /\ j[3] < Top(u).i
      BY <2>2 DEF ParseOK
    <3>3. u # t
      <4> SUFFICES ASSUME u = t PROVE FALSE
        OBVIOUS
      <4>1. ParseWait(t)
        BY <3>2, <1>9, ParsingSteps DEF Parses
      <4>2. unparsed[Top(t).pkg] = {}
        BY <4>1, ParseWaitEffect
      <4> QED BY <4>2, <3>1, <3>2 DEF Parses
    <3>4. Parses(u, j[2])' /\ Top(u)' = Top(u)
      BY <3>1, <3>2, <3>3, ParsesStay
    <3> QED BY <3>1, <3>2, <3>4, <2>1
  <2>3. ASSUME NEW u \in Threads, NEW p \in Pkgs, Parses(u, p)'
        PROVE  Top(u)'.i..project.units[p] \subseteq unparsed'[p]
    <3>1. Parses(u, p) /\ Top(u)' = Top(u)
      BY <1>9, <2>3, ParsesFrom
    <3> QED BY <3>1, <2>1 DEF ParseOK
  <2>4. CASE queue' = queue
    <3>1. JobsDistinct' /\ Jobs' = Jobs
      BY <2>4 DEF ParseOK, JobsDistinct, Jobs
    <3> QED BY <3>1, <2>2, <2>3, <1>1 DEF ParseOK
  <2>5. CASE queue' # queue
    <3>1. Hands(t)
      BY <2>5, <1>9, StepChanges, SubmitEffect
    <3> DEFINE new == LoadJob(Submitted(t))
    <3>2. queue' = Append(queue, new) /\ new[1] = "load"
      BY <3>1 DEF Hands, LoadJob
    <3> HIDE DEF new
    <3>3. JobsDistinct' /\ Jobs' = Jobs \cup {new}
      BY <3>2, JobAppended DEF ParseOK
    <3> QED BY <3>2, <3>3, <2>2, <2>3, <1>1 DEF ParseOK
  <2> QED BY <2>4, <2>5
<1> QED BY <1>5, <1>6, <1>7, <1>8, <1>9

-----------------------------------------------------------------------------
(* Success.                                                                  *)

Succeeding == exit = "ok" \/ (exit = "running" /\ FrameAt(Main, 1).at = "ok")

\* After its last check, nothing is left that could report an error.
SuccessOK == Succeeding => ~errcount /\ Range(Imports(Root)) \subseteq Loaded1

LEMMA NothingLoading ==
  ASSUME Base, Range(Imports(Root)) \subseteq Loaded1
  PROVE  \A p \in Pkgs : fut[p] # "loading"
<1>1. Closed(Loaded1) /\ Loaded1 \in SUBSET Pkgs
  BY DEF Base, OkClosed, Loaded1
<1>2. Demanded \subseteq Loaded1
  BY <1>1 DEF Demanded
<1> QED BY <1>2 DEF Base, DemandOK, Loaded1

LEMMA SuccessStep ==
  ASSUME Base, Base', ParseOK, SuccessOK, exit = "running", NEW t \in Threads, LoadStep(t)
  PROVE  SuccessOK'
<1> USE DEF Base
<1>1. /\ Main \in Threads /\ Depth(Main) \in Nat \ {0} /\ 1 \in 1..Depth(Main) /\ project' = project
      /\ Root \in Pkgs
  BY ProjectFacts, DepthFacts, StepChanges DEF FramesOK
<1>2. CASE FrameAt(Main, 1).at = "ok"
  <2>1. ~errcount /\ Range(Imports(Root)) \subseteq Loaded1
    BY <1>2 DEF SuccessOK, Succeeding
  <2>2. \A p \in Pkgs : fut[p] # "loading"
    BY <2>1, NothingLoading
  <2>3. ASSUME NEW u \in Threads, stack[u] # <<>> PROVE TopLevel(u, Depth(u)) /\ Top(u).at = "ok"
    <3>1. Top(u) = FrameAt(u, Depth(u)) /\ Top(u).pkg \in Pkgs /\ Role(u, Depth(u))
      BY <2>3, TopFacts, TopKnows
    <3>2. TopLevel(u, Depth(u))
      BY <2>2, <3>1 DEF Role
    <3> QED BY <3>1, <3>2, <1>2 DEF TopLevel
  <2>4. CASE stack[t] # <<>>
    <3>1. Finalize(t) /\ TopLevel(t, Depth(t))
      BY <2>3, <2>4, ParsingSteps
    <3>2. (errcount' = errcount) /\ fut' = fut
      BY <3>1, FinalizeEffect
    <3> QED BY <2>1, <3>2, <1>1 DEF SuccessOK, Loaded1, Imports
  <2>5. CASE stack[t] = <<>>
    <3>1. Work(t)
      BY <2>5 DEF LoadStep, Load, Build, LoadDependency, Submit, StartWaiting, LoadBegins, MetaWait,
            LoadApi, Finalize, BuildBegins, ParseHere, ParseElsewhere, ParseWait, ImportsChecked,
            BuildWait, BuildFinishes, PkgBuildFails, At
    <3>2. queue # <<>> /\ queue' = Tail(queue) /\ queue[1][2] \in Pkgs /\ Len(queue) \in Nat \ {0}
          /\ queue[1][1] \in {"load", "parse"}
      BY <3>1, WorkEffect DEF TakesJob
    <3> DEFINE p == queue[1][2]
    <3>3. CASE queue[1][1] = "load"
      <4>1. JobHolds(1, p)
        BY <3>2, <3>3 DEF JobHolds
      <4>2. <<"job", Main, 1>> \in Holders /\ Holds(<<"job", Main, 1>>, p)
        BY <4>1, <1>1, HoldsFacts
      <4> QED BY <4>2, <3>2, <2>2 DEF HoldersOK
    <3>4. CASE queue[1][1] = "parse"
      <4>1. PICK u \in Threads : Parses(u, p)
        BY <3>2, <3>4, JobTaken DEF ParseOK
      <4> QED BY <4>1, <2>3 DEF Parses
    <3> QED BY <3>2, <3>3, <3>4
  <2> QED BY <2>4, <2>5
<1>3. CASE FrameAt(Main, 1).at # "ok"
  <2> SUFFICES ASSUME Succeeding' PROVE (~errcount /\ Range(Imports(Root)) \subseteq Loaded1)'
    BY DEF SuccessOK
  <2>1. CASE exit' = "ok"
    <3>1. Finalize(t)
      <4>1. Walks(t) \/ AcquiresHere(t) \/ AcquiresToSubmit(t) \/ Hands(t) \/ Finalize(t) \/ Work(t)
        BY StepKinds
      <4>2. Work(t) => exit' = exit
        BY TakeFacts
      <4> QED BY <2>1, <4>1, <4>2 DEF Walks, AcquiresHere, AcquiresToSubmit, Acquires, Hands
    <3>2. stack[t] # <<>> /\ TopLevel(t, Depth(t)) /\ Top(t).at = "ok"
      BY <2>1, <3>1, FinalizeEffect
    <3> QED BY <3>2, <1>3, TopFacts DEF TopLevel
  <2>2. CASE exit' = "running" /\ FrameAt(Main, 1)'.at = "ok"
    <3>1. ~Loops(FrameAt(Main, 1).at, FrameAt(Main, 1)'.at)
      BY <2>2 DEF Loops, Metas, Imports1
    <3>2. ~(Finalize(t) /\ t = Main /\ Depth(t) = 1)
      <4> SUFFICES ASSUME Finalize(t), t = Main, Depth(t) = 1 PROVE FALSE
        OBVIOUS
      <4>1. exit' = Top(t).at /\ Top(t).at \in Results
        BY FinalizeEffect DEF TopLevel
      <4> QED BY <4>1, <2>2 DEF Results
    <3>3. /\ t = Main /\ Depth(t) = 1 /\ Walks(t)
          /\ \E l \in LoadPCs, i \in Nat : MovesTop(t, l, i) /\ May(t, l, i) /\ FrameAt(Main, 1)'.at = l
      BY <3>1, <3>2, <2>2, <1>1, <1>3, FrameSteps
    <3>4. PICK l \in LoadPCs, i \in Nat : MovesTop(t, l, i) /\ May(t, l, i) /\ l = "ok"
      BY <3>3, <2>2
    <3>5. stack[t] # <<>> /\ fut' = fut
      BY <3>3 DEF Walks
    <3>6. Top(t) = FrameAt(Main, 1) /\ Role(Main, 1) /\ Knows(Top(t))
      BY <3>3, <3>5, TopFacts, TopKnows
    <3>7. Top(t).at = "finish" /\ Top(t).pkg = Root
      BY <3>4, <3>6 DEF May, Role, TopLevel
    <3>8. BuildFinishes(t)
      BY <3>5, <3>7, ParsingSteps
    <3>9. ~MovesTop(t, "fail", 1)
      BY <3>4, <3>5, <1>1, MovedTop
    <3>10. ~errcount /\ (errcount' = errcount)
      BY <3>8, <3>9, BuildFinishesEffect
    <3>11. Range(Imports(Root)) \subseteq Loaded1
      BY <3>6, <3>7, <1>1, RangeFacts DEF Knows, ImportsDone, Loaded1
    <3> QED BY <3>5, <3>10, <3>11, <1>1 DEF Loaded1, Imports
  <2> QED BY <2>1, <2>2 DEF Succeeding
<1> QED BY <1>2, <1>3

-----------------------------------------------------------------------------
(* Cells.                                                                    *)

Open == Metas \cup OpenBuild
Cell(t, n) ==
  <<FrameAt(t, n).pkg,
    IF FrameAt(t, n).at \in Metas THEN "meta" ELSE IF TopLevel(t, n) THEN "root" ELSE "build">>

\* The pkgcell_t of a load or a build exists as long as it is under way.
CellsOK ==
  \A t \in Threads : \A n \in 1..Depth(t) : FrameAt(t, n).at \in Open => Cell(t, n) \in alive

LEMMA OneCell ==
  ASSUME Base, NEW t \in Threads, NEW u \in Threads, NEW n \in 1..Depth(t), NEW m \in 1..Depth(u),
         Cell(t, n) = Cell(u, m)
  PROVE  t = u /\ n = m
<1>1. Role(t, n) /\ Role(u, m)
  BY DEF Base, FramesOK
<1>2. FrameAt(t, n).pkg = FrameAt(u, m).pkg
  BY DEF Cell
<1>3. TopLevel(t, n) <=> TopLevel(u, m)
  BY <1>1 DEF Cell, Role
<1>4. CASE TopLevel(t, n)
  BY <1>3, <1>4 DEF TopLevel
<1>5. CASE ~TopLevel(t, n)
  BY <1>2, <1>3, <1>5, OneFrame
<1> QED BY <1>4, <1>5

LEMMA TopCells ==
  ASSUME LoadTypeOK, FramesOK, NEW t \in Threads, stack[t] # <<>>
  PROVE  /\ Top(t).at \in Metas => Cell(t, Depth(t)) = MetaCell(t)
         /\ Top(t).at \notin Metas => Cell(t, Depth(t)) = BuildCell(t)
         /\ Top(t).at \in {"mload", "bload"} => Cell(t, Depth(t)) = OwnCell(t)
<1>1. Top(t) = FrameAt(t, Depth(t)) /\ Role(t, Depth(t))
  BY TopFacts, TopKnows
<1>2. IsRoot(t) <=> TopLevel(t, Depth(t))
  BY DEF IsRoot, TopLevel, Depth
<1> QED BY <1>1, <1>2 DEF Cell, MetaCell, BuildCell, OwnCell, Metas

\* What takes a cell away is the end of its own load or build.
LEMMA CellsLost ==
  ASSUME Base, NEW t \in Threads, LoadStep(t), NEW c \in alive, c \notin alive'
  PROVE  /\ stack[t] # <<>> /\ Walks(t) /\ c = Cell(t, Depth(t))
         /\ \A l \in LoadPCs, i \in Nat : MovesTop(t, l, i) => l \notin Open
<1> USE DEF Base
<1>1. LoadBegins(t) \/ MetaWait(t) \/ BuildBegins(t) \/ BuildFinishes(t) \/ PkgBuildFails(t)
  BY StepChanges
<1>2. ~LoadBegins(t) /\ ~BuildBegins(t)
  BY LoadBeginsEffect, BuildBeginsEffect
<1>3. /\ Walks(t) /\ stack[t] # <<>> /\ project' = project /\ LoadTypeOK'
  BY <1>1, <1>2, MetaWaitEffect, BuildFinishesEffect, PkgBuildFailsEffect, StepChanges, StepKinds
     DEF Walks
<1>4. /\ c = Cell(t, Depth(t))
      /\ \E l : MovesTop(t, l, 1) /\ l \notin Open
  <2>1. CASE MetaWait(t)
    <3>1. /\ Top(t).at = "mwait" /\ alive' = alive \ {MetaCell(t)}
          /\ MovesTop(t, "api", 1) \/ MovesTop(t, "build", 1)
      BY <2>1, MetaWaitEffect
    <3> QED BY <3>1, <1>3, TopCells DEF Open, OpenBuild, Metas, Imports1
  <2>2. CASE BuildFinishes(t)
    <3>1. /\ Top(t).at = "finish" /\ alive' = alive \ {BuildCell(t)}
          /\ MovesTop(t, IF TopLevel(t, Depth(t)) THEN "ok" ELSE "api", 1)
      BY <2>2, BuildFinishesEffect
    <3> QED BY <3>1, <1>3, TopCells DEF Open, OpenBuild, Metas, Imports1
  <2>3. CASE PkgBuildFails(t)
    <3>1. Top(t).at = "fail" /\ alive' = alive \ {BuildCell(t)} /\ MovesTop(t, "err", 1)
      BY <2>3, PkgBuildFailsEffect
    <3> QED BY <3>1, <1>3, TopCells DEF Open, OpenBuild, Metas, Imports1
  <2> QED BY <1>1, <1>2, <2>1, <2>2, <2>3
<1>5. PICK m : MovesTop(t, m, 1) /\ m \notin Open
  BY <1>4
<1>6. Top(t)'.at = m
  BY <1>3, <1>5, MovedTop
<1>7. ASSUME NEW l \in LoadPCs, NEW i \in Nat, MovesTop(t, l, i) PROVE l \notin Open
  BY <1>3, <1>5, <1>6, <1>7, MovedTop
<1> QED BY <1>3, <1>4, <1>7

\* A frame that is new begins to load.
LEMMA NewFrames ==
  ASSUME Base, Base', NEW t \in Threads, LoadStep(t), NEW u \in Threads, NEW n \in 1..Depth(u)',
         n \notin 1..Depth(u)
  PROVE  FrameAt(u, n)'.at = "load"
<1> USE DEF Base
<1>1. Walks(t) \/ AcquiresHere(t) \/ AcquiresToSubmit(t) \/ Hands(t) \/ Finalize(t) \/ Work(t)
  BY StepKinds
<1>2. Depth(u) \in Nat /\ Depth(t) \in Nat
  BY DepthFacts
<1>3. ~ \E l, i : MovesTop(t, l, i)
  BY DEF MovesTop
<1>4. CASE AcquiresHere(t)
  <2>1. /\ Depth(t)' = Depth(t) + 1 /\ \A v \in Threads \ {t} : Depth(v)' = Depth(v)
        /\ FrameAt(t, Depth(t))' = Frame(Submitted(t), "load")
    BY <1>4 DEF AcquiresHere, Pushes
  <2>2. u = t /\ n = Depth(t)'
    BY <2>1, <1>2
  <2>3. FrameAt(u, n)' = Frame(Submitted(t), "load")
    BY <2>1, <2>2 DEF FrameAt
  <2> QED BY <2>3 DEF Frame
<1>5. CASE Finalize(t)
  <2>1. Pops(t)
    BY <1>5, FinalizeEffect
  <2> QED BY <2>1, <1>2 DEF Pops
<1>6. CASE Work(t)
  <2>1. /\ \A v \in Threads \ {t} : Depth(v)' = Depth(v)
        /\ Depth(t)' \in {0, 1} /\ (Depth(t)' = 1 => FrameAt(t, 1)' = Frame(queue[1][2], "load"))
    BY <1>6, TakeFacts
  <2>2. u = t /\ n = 1 /\ Depth(t)' = 1
    BY <2>1, <1>2
  <2> QED BY <2>1, <2>2 DEF Frame
<1> QED BY <1>1, <1>3, <1>4, <1>5, <1>6 DEF Walks, AcquiresToSubmit, Hands

LEMMA CellsStep ==
  ASSUME Base, Base', CellsOK, NEW t \in Threads, LoadStep(t)
  PROVE  CellsOK'
<1> USE DEF Base
<1>1. ASSUME NEW u \in Threads, NEW n \in 1..Depth(u)', FrameAt(u, n)'.at \in Open
      PROVE  Cell(u, n)' \in alive'
  <2>1. n \in 1..Depth(u)
    BY <1>1, NewFrames DEF Open, OpenBuild, Metas, Imports1
  <2>2. CASE ~(u = t /\ n = Depth(t))
    <3>1. FrameAt(u, n)' = FrameAt(u, n)
      BY <2>1, <2>2, FrameSteps
    <3>2. Cell(u, n)' = Cell(u, n) /\ Cell(u, n) \in alive
      BY <3>1, <2>1, <1>1 DEF Cell, CellsOK, TopLevel
    <3>3. ASSUME Cell(u, n) \notin alive' PROVE FALSE
      <4>1. stack[t] # <<>> /\ Cell(u, n) = Cell(t, Depth(t))
        BY <3>2, <3>3, CellsLost
      <4>2. Depth(t) \in 1..Depth(t)
        BY <4>1, TopFacts
      <4> QED BY <4>1, <4>2, <2>1, <2>2, OneCell
    <3> QED BY <3>2, <3>3
  <2>3. CASE u = t /\ n = Depth(t)
    <3>1. stack[t] # <<>> /\ Top(t) = FrameAt(t, n) /\ Depth(t) \in 1..Depth(t)
      BY <2>1, <2>3, TopFacts, DepthFacts
    <3>2. ASSUME FrameAt(t, n).at \in Open, FrameAt(t, n)'.pkg = FrameAt(t, n).pkg,
                 FrameAt(t, n)'.at \in Metas <=> FrameAt(t, n).at \in Metas,
                 Cell(t, n) \in alive'
          PROVE  Cell(t, n)' \in alive'
      <4>1. Cell(t, n)' = Cell(t, n)
        BY <3>2 DEF Cell, TopLevel
      <4> QED BY <4>1, <3>2
    <3>3. CASE Loops(FrameAt(t, n).at, FrameAt(t, n)'.at) /\ ~Walks(t)
      <4>1. FrameAt(t, n)'.pkg = FrameAt(t, n).pkg
        <5>1. ~Finalize(t)
          <6>1. Finalize(t) => Top(t).at \in Results
            BY FinalizeEffect
          <6> QED BY <6>1, <3>1, <3>3 DEF Loops, Metas, Imports1, Results
        <5> QED BY <5>1, <2>1, <2>3, <3>3, FrameSteps
      <4>2. /\ FrameAt(t, n).at \in Open
            /\ FrameAt(t, n)'.at \in Metas <=> FrameAt(t, n).at \in Metas
        BY <3>3 DEF Loops, Open, OpenBuild, Metas, Imports1
      <4>3. Cell(t, n) \in alive'
        <5>1. Cell(t, n) \in alive
          BY <4>2, <2>1, <2>3 DEF CellsOK
        <5> QED BY <5>1, <3>3, CellsLost
      <4> QED BY <4>1, <4>2, <4>3, <3>2, <2>3
    <3>4. CASE Walks(t)
      <4>1. PICK l \in LoadPCs, i \in Nat : MovesTop(t, l, i) /\ May(t, l, i)
        BY <3>4 DEF Walks
      <4>2. FrameAt(t, n)'.pkg = FrameAt(t, n).pkg /\ FrameAt(t, n)'.at = l
        BY <4>1, <3>1, <2>1, <2>3 DEF MovesTop
      <4>3. l \in Open
        BY <4>2, <1>1, <2>3
      <4>4. CASE Top(t).at \in Open
        <5>1. l \in Metas <=> Top(t).at \in Metas
          BY <4>1, <4>3, <4>4 DEF May, Open, OpenBuild, Metas, Imports1
        <5>2. Cell(t, n) \in alive
          BY <4>4, <3>1, <2>1, <2>3 DEF CellsOK
        <5>3. Cell(t, n) \in alive'
          BY <5>2, <4>1, <4>3, CellsLost
        <5> QED BY <5>1, <5>3, <4>2, <4>4, <3>1, <3>2, <2>3
      <4>5. CASE Top(t).at = "load"
        <5>1. LoadBegins(t)
          BY <4>5, <3>1, ParsingSteps
        <5>2. alive' = alive \cup {MetaCell(t)} /\ l = "mload"
          <6>1. Top(t)'.at = l /\ project' = project
            BY <4>1, <3>1, MovedTop, StepChanges
          <6>2. \A m, j : MovesTop(t, m, j) => Top(t)'.at = m
            BY <6>1, <3>1, MovedTop
          <6> QED BY <5>1, <6>1, <6>2, <4>3, LoadBeginsEffect DEF Open, OpenBuild, Metas, Imports1
        <5>3. Cell(t, n)' = MetaCell(t)
          BY <5>2, <4>2, <3>1 DEF Cell, MetaCell, Metas
        <5> QED BY <5>2, <5>3, <2>3
      <4>6. CASE Top(t).at = "build"
        <5>1. BuildBegins(t)
          BY <4>6, <3>1, ParsingSteps
        <5>2. alive' = alive \cup {BuildCell(t)} /\ l \in {"parse", "fail"}
          <6>1. Top(t)'.at = l /\ project' = project
            BY <4>1, <3>1, MovedTop, StepChanges
          <6>2. \A m, j : MovesTop(t, m, j) => Top(t)'.at = m
            BY <6>1, <3>1, MovedTop
          <6> QED BY <5>1, <6>1, <6>2, <4>3, BuildBeginsEffect DEF Open, OpenBuild, Metas, Imports1
        <5>3. Cell(t, n)' = BuildCell(t)
          <6>1. IsRoot(t) <=> TopLevel(t, n)
            BY <2>3 DEF IsRoot, TopLevel, Depth
          <6> QED BY <6>1, <5>2, <4>2, <3>1 DEF Cell, BuildCell, Metas, TopLevel
        <5> QED BY <5>2, <5>3, <2>3
      <4>7. Top(t).at \in Open \cup {"load", "build"}
        BY <4>1, <4>3 DEF May, Open
      <4> QED BY <4>4, <4>5, <4>6, <4>7
    <3>5. CASE ~Walks(t) /\ ~Loops(FrameAt(t, n).at, FrameAt(t, n)'.at)
      <4>1. Finalize(t)
        BY <3>5, <2>1, <2>3, FrameSteps
      <4>2. Depth(t)' = Depth(t) - 1 /\ Depth(t) \in Nat \ {0}
        BY <4>1, <3>1, FinalizeEffect, TopFacts DEF Pops
      <4> QED BY <4>2, <2>3, <1>1
    <3> QED BY <3>3, <3>4, <3>5
  <2> QED BY <2>2, <2>3
<1> QED BY <1>1 DEF CellsOK

-----------------------------------------------------------------------------
(* Parents.                                                                  *)

\* With at most two imports, the pool loads at most the first.
Small == Sync \/ \A p \in Pkgs : Len(Imports(p)) <= 2

\* An import of the frame's package that it does not load itself.
NotLast(t, n, q) ==
  LET imps == Imports(FrameAt(t, n).pkg) IN
  \E j \in 1..(Len(imps) - 1) : imps[j] = q

\* The n-th frame of t waits for the load of q, that it asked for: it is the frame above, or
\* in the pool.
Waits(t, n, q) ==
  LET f == FrameAt(t, n) IN
  /\ f.at \in Metas \cup Imports1 /\ parent[q] = Cell(t, n)
  /\ \/ n < Depth(t) /\ FrameAt(t, n + 1).pkg = q
     \/ ~Sync /\ NotLast(t, n, q)

HasParent(q) == \E t \in Threads : \E n \in 1..Depth(t) : Waits(t, n, q)

ParentOK == Small => ~dangling /\ \A q \in Pkgs : fut[q] = "loading" => HasParent(q)

\* A frame that waits for imports goes on in the same loop, or has waited for all of them
\* but the last.
LEMMA LoopLeft ==
  ASSUME Base, Base', NEW t \in Threads, LoadStep(t), NEW u \in Threads, NEW n \in 1..Depth(u),
         FrameAt(u, n).at \in Metas \cup Imports1
  PROVE  /\ n \in 1..Depth(u)' /\ FrameAt(u, n)'.pkg = FrameAt(u, n).pkg
         /\ \/ Loops(FrameAt(u, n).at, FrameAt(u, n)'.at)
            \/ /\ n = Depth(u) /\ fut' = fut
               /\ \A j \in 1..(Len(Imports(FrameAt(u, n).pkg)) - 1) :
                    \/ fut[Imports(FrameAt(u, n).pkg)[j]] = "ok"
                    \/ Loaded(Imports(FrameAt(u, n).pkg)[1])
                    \/ Len(Imports(FrameAt(u, n).pkg)) > 2
<1> USE DEF Base
<1> DEFINE f == FrameAt(u, n)
           imps == Imports(f.pkg)
<1>1. f.pkg \in Pkgs /\ f.i \in Nat /\ Len(imps) \in Nat /\ n \in Nat /\ Depth(u) \in Nat
  BY FrameFacts, ProjectFacts, DepthFacts
<1>2. CASE ~(u = t /\ n = Depth(t)) /\ n \in 1..Depth(u)' /\ FrameAt(u, n)' = f
  BY <1>2 DEF Loops
<1>3. ~(u = t /\ n = Depth(t) /\ Finalize(t))
  <2> SUFFICES ASSUME u = t, n = Depth(t), Finalize(t) PROVE FALSE
    OBVIOUS
  <2>1. stack[t] # <<>> /\ Top(t).at \in Results
    BY FinalizeEffect
  <2> QED BY <2>1, TopFacts DEF Results, Metas, Imports1
<1>4. CASE /\ u = t /\ n = Depth(t) /\ n \in 1..Depth(u)' /\ FrameAt(u, n)'.pkg = f.pkg
           /\ Loops(f.at, FrameAt(u, n)'.at)
  BY <1>4
<1>5. CASE /\ u = t /\ n = Depth(t) /\ n \in 1..Depth(u)' /\ FrameAt(u, n)'.pkg = f.pkg
           /\ Walks(t) /\ \E l \in LoadPCs, i \in Nat :
                 MovesTop(t, l, i) /\ May(t, l, i) /\ FrameAt(u, n)'.at = l
  <2>1. PICK l \in LoadPCs, i \in Nat : MovesTop(t, l, i) /\ May(t, l, i) /\ FrameAt(u, n)'.at = l
    BY <1>5
  <2>2. stack[t] # <<>> /\ fut' = fut /\ Top(t) = f /\ Knows(f)
    BY <1>5, TopFacts, TopKnows DEF Walks
  <2>3. CASE l \in Metas \cup Imports1
    <3>1. Loops(f.at, l)
      BY <2>1, <2>2, <2>3 DEF May, Loops, Metas, Imports1, OpenBuild
    <3> QED BY <3>1, <2>1, <1>5
  <2>4. CASE l \notin Metas \cup Imports1
    <3>1. f.at \in {"mwait", "bwait"} /\ (f.i > Len(imps) \/ Loaded(imps[f.i]))
      BY <2>1, <2>2, <2>4 DEF May
    <3>2. f.i \in 1..(Len(imps) + 1) /\ \A j \in 1..(f.i - 1) : fut[imps[j]] = "ok"
      BY <2>2, <3>1 DEF Knows, Metas, Imports1
    <3>3. ASSUME NEW j \in 1..(Len(imps) - 1), Len(imps) <= 2
          PROVE  fut[imps[j]] = "ok" \/ Loaded(imps[1])
      <4>1. j = 1
        BY <3>3, <1>1
      <4>2. CASE f.i = 1
        BY <3>1, <3>3, <4>1, <4>2, <1>1
      <4>3. CASE f.i # 1
        BY <3>2, <4>1, <4>3, <1>1
      <4> QED BY <4>2, <4>3
    <3> QED BY <3>3, <2>2, <1>1, <1>5
  <2> QED BY <2>3, <2>4
<1> QED BY <1>2, <1>3, <1>4, <1>5, FrameSteps

LEMMA SameCell ==
  ASSUME NEW u, NEW n, Loops(FrameAt(u, n).at, FrameAt(u, n)'.at),
         FrameAt(u, n)'.pkg = FrameAt(u, n).pkg
  PROVE  Cell(u, n)' = Cell(u, n) /\ FrameAt(u, n)'.at \in Metas \cup Imports1
<1>1. FrameAt(u, n)'.at \in Metas <=> FrameAt(u, n).at \in Metas
  BY DEF Loops, Metas, Imports1
<1> QED BY <1>1 DEF Cell, TopLevel, Loops

\* The frame stays for as long as the load is under way.
LEMMA ParentStays ==
  ASSUME Base, Base', Small, NEW t \in Threads, LoadStep(t), NEW q \in Pkgs,
         fut[q] = "loading", fut'[q] = "loading", parent'[q] = parent[q], HasParent(q)
  PROVE  HasParent(q)'
<1> USE DEF Base
<1>1. PICK u \in Threads, n \in Nat : n \in 1..Depth(u) /\ Waits(u, n, q)
  BY DepthFacts DEF HasParent
<1> DEFINE f == FrameAt(u, n)
           imps == Imports(f.pkg)
<1>2. project' = project
  BY StepChanges
<1>3. /\ n \in 1..Depth(u)' /\ FrameAt(u, n)'.pkg = f.pkg
      /\ \/ Loops(f.at, FrameAt(u, n)'.at)
         \/ /\ n = Depth(u) /\ fut' = fut
            /\ \A j \in 1..(Len(imps) - 1) :
                 fut[imps[j]] = "ok" \/ Loaded(imps[1]) \/ Len(imps) > 2
  BY <1>1, LoopLeft DEF Waits
<1>4. f.pkg \in Pkgs /\ Len(imps) \in Nat /\ Depth(u) \in Nat
  BY <1>1, FrameFacts, ProjectFacts, DepthFacts
<1>5. Loops(f.at, FrameAt(u, n)'.at)
  <2> SUFFICES ASSUME ~Loops(f.at, FrameAt(u, n)'.at) PROVE FALSE
    OBVIOUS
  <2>1. n = Depth(u) /\ \A j \in 1..(Len(imps) - 1) :
                          fut[imps[j]] = "ok" \/ Loaded(imps[1]) \/ Len(imps) > 2
    BY <1>3
  <2>2. ~Sync /\ \E j \in 1..(Len(imps) - 1) : imps[j] = q
    BY <1>1, <2>1 DEF Waits, NotLast
  <2>3. Len(imps) <= 2
    BY <2>2, <1>4 DEF Small
  <2>4. PICK j \in 1..(Len(imps) - 1) : imps[j] = q
    BY <2>2
  <2>5. j = 1
    BY <2>3, <1>4
  <2> QED BY <2>1, <2>3, <2>4, <2>5, <1>4 DEF Loaded
<1>6. Cell(u, n)' = Cell(u, n) /\ FrameAt(u, n)'.at \in Metas \cup Imports1
  BY <1>3, <1>5, SameCell
<1>7. CASE n < Depth(u) /\ FrameAt(u, n + 1).pkg = q
  <2>1. n + 1 \in 1..Depth(u) /\ n + 1 \in Nat
    BY <1>1, <1>7, <1>4
  <2>2. ~(u = t /\ n + 1 = Depth(t) /\ Finalize(t))
    <3> SUFFICES ASSUME u = t, n + 1 = Depth(t), Finalize(t) PROVE FALSE
      OBVIOUS
    <3>1. stack[t] # <<>> /\ Top(t).at \in Results /\ Top(t) = FrameAt(t, n + 1)
      BY FinalizeEffect, TopFacts
    <3>2. ~TopLevel(t, Depth(t))
      BY <1>1 DEF TopLevel
    <3>3. fut'[q] = Top(t).at
      BY <3>1, <3>2, <1>7, FinalizeFacts
    <3> QED BY <3>1, <3>3 DEF Results
  <2>3. n + 1 \in 1..Depth(u)' /\ FrameAt(u, n + 1)'.pkg = q
    <3>1. PICK m \in Nat : m = n + 1
      OBVIOUS
    <3>2. m \in 1..Depth(u)
      BY <2>1, <3>1
    <3>3. m \in 1..Depth(u)' /\ FrameAt(u, m)'.pkg = FrameAt(u, m).pkg
      BY <3>1, <3>2, <2>2, FrameSteps
    <3> QED BY <3>1, <3>3, <1>7
  <2>4. n < Depth(u)'
    <3>1. Depth(u)' \in Nat
      BY DEF LoadTypeOK, Depth
    <3> QED BY <3>1, <2>3, <1>1
  <2>5. Waits(u, n, q)'
    BY <2>3, <2>4, <1>1, <1>6 DEF Waits
  <2> QED BY <2>5, <1>3 DEF HasParent
<1>8. CASE ~Sync /\ \E j \in 1..(Len(imps) - 1) : imps[j] = q
  <2>1. ~Sync' /\ NotLast(u, n, q)'
    BY <1>2, <1>3, <1>8 DEF Sync, Imports, NotLast
  <2>2. Waits(u, n, q)'
    BY <2>1, <1>1, <1>6 DEF Waits, NotLast
  <2> QED BY <2>2, <1>3 DEF HasParent
<1> QED BY <1>1, <1>7, <1>8 DEF Waits, NotLast

\* What load_dependency asks for is above it, or goes to the pool.
LEMMA ParentOfNew ==
  ASSUME Base, Base', NEW t \in Threads, LoadStep(t), AcquiresHere(t) \/ AcquiresToSubmit(t),
         NEW q \in Pkgs, q = Submitted(t)
  PROVE  HasParent(q)'
<1> USE DEF Base
<1> DEFINE imps == Imports(Top(t).pkg)
<1>1. Acquires(t)
  BY DEF AcquiresHere, AcquiresToSubmit
<1>2. /\ stack[t] # <<>> /\ Top(t).at \in {"mload", "bload"} /\ parent'[q] = OwnCell(t)
      /\ Top(t).i \in 1..Len(imps) /\ project' = project /\ imps[Top(t).i] = q
  BY <1>1, AcquireFacts DEF Acquires, LoadTypeOK, Submitted
<1>3. PICK n \in Nat : n = Depth(t)
  BY <1>2, TopFacts
<1>4. /\ n \in 1..Depth(t) /\ Top(t) = FrameAt(t, n) /\ Cell(t, n) = OwnCell(t)
      /\ Top(t).pkg \in Pkgs /\ Len(imps) \in Nat
  BY <1>2, <1>3, TopFacts, TopCells, ProjectFacts
<1>5. ASSUME FrameAt(t, n)'.pkg = Top(t).pkg, Loops(FrameAt(t, n).at, FrameAt(t, n)'.at),
             n \in 1..Depth(t)',
             \/ n < Depth(t)' /\ FrameAt(t, n + 1)'.pkg = q
             \/ ~Sync /\ Top(t).i < Len(imps)
      PROVE  HasParent(q)'
  <2>1. parent'[q] = Cell(t, n)' /\ FrameAt(t, n)'.at \in Metas \cup Imports1
    BY <1>2, <1>4, <1>5, SameCell
  <2>2. ~Sync /\ Top(t).i < Len(imps) => ~Sync' /\ NotLast(t, n, q)'
    <3> SUFFICES ASSUME ~Sync, Top(t).i < Len(imps) PROVE ~Sync' /\ NotLast(t, n, q)'
      OBVIOUS
    <3>1. Top(t).i \in 1..(Len(imps) - 1)
      BY <1>2, <1>4
    <3> QED BY <3>1, <1>2, <1>4, <1>5 DEF NotLast, Sync, Imports
  <2>3. Waits(t, n, q)'
    BY <2>1, <2>2, <1>5 DEF Waits
  <2> QED BY <2>3, <1>5 DEF HasParent
<1>6. CASE AcquiresHere(t)
  <2>1. /\ Depth(t)' = Depth(t) + 1 /\ FrameAt(t, Depth(t))' = Frame(q, "load")
        /\ FrameAt(t, n)' = [pkg |-> Top(t).pkg, at |-> Top(t).at, i |-> Top(t).i + 1]
    BY <1>3, <1>4, <1>6 DEF AcquiresHere, Pushes
  <2>2. FrameAt(t, n + 1)' = Frame(q, "load")
    BY <2>1, <1>3 DEF FrameAt
  <2>3. FrameAt(t, n + 1)'.pkg = q /\ FrameAt(t, n)'.pkg = Top(t).pkg
        /\ Loops(FrameAt(t, n).at, FrameAt(t, n)'.at)
    BY <2>1, <2>2, <1>2, <1>4 DEF Frame, Loops, Metas, Imports1
  <2>4. n < Depth(t)' /\ n \in 1..Depth(t)'
    BY <2>1, <1>3, <1>4
  <2> QED BY <2>3, <2>4, <1>5
<1>7. CASE AcquiresToSubmit(t)
  <2>1. PICK l \in Submitting : MovesTop(t, l, Top(t).i) /\ (Top(t).at = "mload" <=> l = "msubmit")
    BY <1>7 DEF AcquiresToSubmit
  <2>2. FrameAt(t, n)' = [pkg |-> Top(t).pkg, at |-> l, i |-> Top(t).i] /\ Depth(t)' = Depth(t)
    BY <2>1, <1>3, <1>4 DEF MovesTop
  <2>3. Loops(FrameAt(t, n).at, l) /\ FrameAt(t, n)'.pkg = Top(t).pkg /\ FrameAt(t, n)'.at = l
    BY <2>1, <2>2, <1>2, <1>4 DEF Loops, Metas, Imports1, Submitting
  <2>4. ~Sync /\ Top(t).i < Len(imps)
    BY <1>7 DEF AcquiresToSubmit
  <2> QED BY <2>2, <2>3, <2>4, <1>4, <1>5
<1> QED BY <1>6, <1>7

\* check_import_cycle finds every cell up to the top-level package.
LEMMA ChainAlive ==
  ASSUME Base, CellsOK, \A q \in Pkgs : fut[q] = "loading" => HasParent(q),
         NEW t \in Threads, stack[t] # <<>>, Top(t).at = "imports"
  PROVE  Chain(t) \subseteq alive
<1> USE DEF Base
<1>1. /\ Depth(t) \in 1..Depth(t) /\ Top(t) = FrameAt(t, Depth(t)) /\ Top(t).pkg \in Pkgs
      /\ Role(t, Depth(t)) /\ Cell(t, Depth(t)) = BuildCell(t)
  BY TopFacts, TopKnows, TopCells DEF Metas
<1>2. BuildCell(t) \in alive
  BY <1>1 DEF CellsOK, Open, OpenBuild
<1> DEFINE S == {q \in Pkgs : fut[q] = "loading"}
<1>3. ASSUME NEW q \in S
      PROVE  parent[q] \in alive /\ (parent[q][2] \in {"build", "meta"} => parent[q][1] \in S)
  <2>1. PICK u \in Threads, n \in Nat : n \in 1..Depth(u) /\ Waits(u, n, q)
    BY DepthFacts DEF HasParent
  <2>2. parent[q] = Cell(u, n) /\ FrameAt(u, n).at \in Metas \cup Imports1
    BY <2>1 DEF Waits
  <2>3. Role(u, n) /\ FrameAt(u, n).pkg \in Pkgs
    BY <2>1, FrameFacts DEF FramesOK
  <2>4. parent[q] \in alive
    BY <2>1, <2>2 DEF CellsOK, Open, OpenBuild
  <2>5. ASSUME parent[q][2] \in {"build", "meta"} PROVE parent[q][1] \in S
    <3>1. ~TopLevel(u, n) /\ parent[q][1] = FrameAt(u, n).pkg
      BY <2>2, <2>3, <2>5 DEF Cell, Role
    <3> QED BY <3>1, <2>3 DEF Role
  <2> QED BY <2>4, <2>5
<1>4. CASE IsRoot(t)
  BY <1>2, <1>4 DEF Chain
<1>5. CASE ~IsRoot(t)
  <2>1. Top(t).pkg \in S
    <3>1. ~TopLevel(t, Depth(t))
      BY <1>5 DEF IsRoot, TopLevel, Depth
    <3> QED BY <3>1, <1>1 DEF Role
  <2>2. S \in SUBSET Pkgs /\ \A q \in S : parent[q][2] \in {"build", "meta"} => parent[q][1] \in S
    BY <1>3
  <2> HIDE DEF S
  <2>3. Loads(t) \subseteq S
    BY <2>1, <2>2 DEF Loads
  <2> QED BY <2>3, <1>2, <1>3 DEF Chain
<1> QED BY <1>4, <1>5

LEMMA ParentStep ==
  ASSUME Base, Base', CellsOK, ParentOK, NEW t \in Threads, LoadStep(t)
  PROVE  ParentOK'
<1> USE DEF Base
<1>1. /\ project' = project
      /\ Walks(t) \/ AcquiresHere(t) \/ AcquiresToSubmit(t) \/ Hands(t) \/ Finalize(t) \/ Work(t)
  BY StepChanges, StepKinds
<1>2. Small' <=> Small
  BY <1>1 DEF Small, Sync, Imports
<1> SUFFICES ASSUME Small
             PROVE  (~dangling)' /\ \A q \in Pkgs : fut'[q] = "loading" => HasParent(q)'
  BY <1>2 DEF ParentOK
<1>3. ~dangling'
  <2>1. CASE ImportsChecked(t)
    <3>1. stack[t] # <<>> /\ Top(t).at = "imports"
          /\ dangling' = (dangling \/ \E c \in Chain(t) : c \notin alive)
      BY <2>1, ImportsCheckedEffect DEF Walks
    <3>2. Chain(t) \subseteq alive
      BY <3>1, ChainAlive DEF ParentOK
    <3> QED BY <3>1, <3>2 DEF ParentOK
  <2>2. CASE ~ImportsChecked(t)
    <3>1. dangling' = dangling
      BY <2>2, StepChanges
    <3> QED BY <3>1 DEF ParentOK
  <2> QED BY <2>1, <2>2
<1>4. ASSUME NEW q \in Pkgs, fut'[q] = "loading" PROVE HasParent(q)'
  <2>1. CASE fut[q] = "loading"
    <3>1. parent'[q] = parent[q]
      <4>1. CASE Acquires(t)
        <5>1. q # Submitted(t)
          BY <2>1, <4>1, AcquireFacts
        <5> QED BY <5>1, <4>1 DEF Acquires, LoadTypeOK
      <4>2. CASE Work(t)
        BY <4>2 DEF Work
      <4>3. CASE Finalize(t)
        BY <4>3 DEF Finalize
      <4> QED BY <4>1, <4>2, <4>3, <1>1 DEF Walks, AcquiresHere, AcquiresToSubmit, Hands
    <3> QED BY <3>1, <2>1, <1>4, ParentStays DEF ParentOK
  <2>2. CASE fut[q] # "loading"
    <3>1. ~Work(t) /\ ~Walks(t) /\ ~Hands(t)
      BY <2>2, <1>4, TakeFacts DEF Walks, Hands
    <3>2. ~Finalize(t)
      <4> SUFFICES ASSUME Finalize(t) PROVE FALSE
        OBVIOUS
      <4>1. Top(t).at \in Results
        BY FinalizeEffect
      <4> QED BY <4>1, <2>2, <1>4, FinalizeFacts DEF Results
    <3>3. AcquiresHere(t) \/ AcquiresToSubmit(t)
      BY <3>1, <3>2, <1>1
    <3>4. q = Submitted(t)
      BY <3>3, <2>2, <1>4, AcquireFacts DEF AcquiresHere, AcquiresToSubmit
    <3> QED BY <3>3, <3>4, ParentOfNew
  <2> QED BY <2>1, <2>2
<1> QED BY <1>3, <1>4

-----------------------------------------------------------------------------
(* The invariant, and what it implies.                                       *)

LoadInv == Base /\ BuiltOK /\ ParseOK /\ SuccessOK /\ CellsOK /\ ParentOK

LEMMA LoadInvInit == LoadInit => LoadInv
<1> SUFFICES ASSUME LoadInit PROVE LoadInv
  OBVIOUS
<1>1. Base
  BY BaseInit
<1>2. /\ Root \in Pkgs /\ Main \in Threads /\ \A p \in Pkgs : built[p] = 0 /\ fut[p] = "none"
      /\ queue = <<>> /\ exit = "running" /\ ~dangling /\ ~errcount
  BY <1>1, ProjectFacts DEF Base, LoadInit
<1>3. stack[Main] = <<Frame(Root, "build")>> /\ \A t \in Threads \ {Main} : stack[t] = <<>>
  BY <1>2 DEF LoadInit
<1>4. ASSUME NEW t \in Threads, stack[t] # <<>>
      PROVE  t = Main /\ Depth(t) = 1 /\ Top(t).at = "build" /\ FrameAt(t, 1).at = "build"
  <2>1. t = Main
    BY <1>3, <1>4
  <2>2. Depth(t) = 1 /\ FrameAt(t, 1) = Frame(Root, "build") /\ Top(t) = Frame(Root, "build")
    <3> DEFINE f == Frame(Root, "build")
    <3>1. stack[t] = <<f>>
      BY <1>3, <2>1
    <3> HIDE DEF f
    <3>2. Len(stack[t]) = 1 /\ stack[t][1] = f
      BY <3>1
    <3> QED BY <3>2 DEF Depth, FrameAt, Top, f
  <2> QED BY <2>1, <2>2 DEF Frame
<1>5. BuiltOK
  BY <1>2 DEF BuiltOK
<1>6. ParseOK
  <2>1. Len(queue) = 0
    BY <1>2
  <2>2. Jobs = {} /\ JobsDistinct
    BY <2>1 DEF Jobs, JobsDistinct
  <2> QED BY <2>2, <1>4 DEF ParseOK, Parses
<1>7. SuccessOK
  BY <1>2, <1>3, <1>4 DEF SuccessOK, Succeeding
<1>8. CellsOK
  <2>1. ASSUME NEW t \in Threads, NEW n \in 1..Depth(t) PROVE FrameAt(t, n).at \notin Open
    <3>1. stack[t] # <<>>
      BY <1>1, DepthFacts DEF Base
    <3>2. Depth(t) = 1 /\ FrameAt(t, 1).at = "build"
      BY <3>1, <1>4
    <3>3. n = 1
      BY <3>2
    <3> QED BY <3>2, <3>3 DEF Open, OpenBuild, Metas, Imports1
  <2> QED BY <2>1 DEF CellsOK
<1>9. ParentOK
  BY <1>2 DEF ParentOK
<1> QED BY <1>1, <1>5, <1>6, <1>7, <1>8, <1>9 DEF LoadInv

LEMMA LoadInvStutter ==
  ASSUME LoadInv, UNCHANGED loadVars
  PROVE  LoadInv'
<1> USE DEF LoadInv
<1>1. UNCHANGED <<project, fut, queue, stack, parent, alive, unparsed, built, errcount, dangling, exit>>
  BY DEF loadVars, given
<1>2. Base'
  BY BaseStutter
<1>3. \A u, n : Depth(u)' = Depth(u) /\ FrameAt(u, n)' = FrameAt(u, n) /\ Top(u)' = Top(u)
  BY <1>1 DEF Depth, FrameAt, Top
<1>4. \A p : Imports(p)' = Imports(p)
  BY <1>1 DEF Imports
<1>5. BuiltOK'
  <2>1. \A p \in Pkgs : Late(p) => Late(p)'
    BY <1>1, <1>3 DEF Late, TopLevel
  <2> QED BY <2>1, <1>1, <1>3 DEF BuiltOK
<1>6. ParseOK'
  <2>1. Jobs' = Jobs /\ (JobsDistinct' <=> JobsDistinct)
    BY <1>1 DEF Jobs, JobsDistinct
  <2>2. \A u, p : Parses(u, p)' <=> Parses(u, p)
    BY <1>1, <1>3 DEF Parses
  <2> QED BY <2>1, <2>2, <1>1, <1>3 DEF ParseOK
<1>7. SuccessOK'
  <2>1. Loaded1' = Loaded1 /\ Range(Imports(Root))' = Range(Imports(Root))
    BY <1>1 DEF Loaded1, Imports
  <2> QED BY <2>1, <1>1, <1>3 DEF SuccessOK, Succeeding
<1>8. \A u, n : Cell(u, n)' = Cell(u, n)
  BY <1>3 DEF Cell, TopLevel
<1>9. CellsOK'
  BY <1>1, <1>3, <1>8 DEF CellsOK
<1>10. ParentOK'
  <2>1. (Small' <=> Small) /\ (Sync' <=> Sync)
    BY <1>1, <1>4 DEF Small, Sync
  <2>2. \A u, n, q : NotLast(u, n, q)' <=> NotLast(u, n, q)
    BY <1>1 DEF NotLast, Imports, FrameAt
  <2>3. \A u, n, q : Waits(u, n, q)' <=> Waits(u, n, q)
    BY <2>1, <2>2, <1>1, <1>3, <1>8 DEF Waits
  <2>4. \A q : HasParent(q)' <=> HasParent(q)
    BY <2>3, <1>3 DEF HasParent
  <2> QED BY <2>1, <2>4, <1>1 DEF ParentOK
<1> QED BY <1>2, <1>5, <1>6, <1>7, <1>9, <1>10

LEMMA LoadInvStep == LoadInv /\ [LoadNext]_loadVars => LoadInv'
<1> SUFFICES ASSUME LoadInv, [LoadNext]_loadVars PROVE LoadInv'
  OBVIOUS
<1>1. CASE UNCHANGED loadVars
  BY <1>1, LoadInvStutter
<1>2. ASSUME exit = "running", NEW t \in Threads, LoadStep(t) PROVE LoadInv'
  <2>1. Base /\ Base'
    BY <1>2, BaseStep DEF LoadInv
  <2> QED BY <2>1, <1>2, BuiltStep, ParseStep, SuccessStep, CellsStep, ParentStep DEF LoadInv
<1> QED BY <1>1, <1>2 DEF LoadNext

LEMMA LoadInvAlways == LoadSpec => []LoadInv
BY LoadInvInit, LoadInvStep, PTL DEF LoadSpec

-----------------------------------------------------------------------------
\* The variables have their types.
THEOREM LoadTypes == LoadSpec => []LoadTypeOK
<1>1. LoadInv => LoadTypeOK
  BY DEF LoadInv, Base
<1> QED BY <1>1, LoadInvAlways, PTL

\* check_import_cycle: the cells up to the top-level package exist when they are read,
\* unless somebody has three imports and lets two of them be loaded by the pool.
THEOREM AlwaysParentsAlive == LoadSpec => []ParentsAlive
<1>1. LoadInv => ParentsAlive
  <2> SUFFICES ASSUME LoadInv, dangling PROVE ~Sync /\ \E p \in Pkgs : Len(Imports(p)) > 2
    BY DEF ParentsAlive
  <2>1. ~Small
    BY DEF LoadInv, ParentOK
  <2>2. \A p \in Pkgs : Len(Imports(p)) \in Nat
    BY ProjectFacts DEF LoadInv, Base
  <2> QED BY <2>1, <2>2 DEF Small
<1> QED BY <1>1, LoadInvAlways, PTL

\* pkgbuild_import and load_dependency1: a package is analysed, and counts as loaded, only
\* after everything that it imports.
THEOREM AlwaysImportsReady == LoadSpec => []ImportsReady
<1>1. LoadInv /\ ParentsAlive => ImportsReady
  <2> SUFFICES ASSUME LoadInv, ParentsAlive PROVE ImportsReady
    OBVIOUS
  <2> USE DEF LoadInv, Base
  <2>1. ASSUME NEW t \in Threads, At(t, "finish"), NEW d \in Range(Imports(Top(t).pkg))
        PROVE  fut[d] = "ok"
    <3>1. stack[t] # <<>> /\ Top(t).at = "finish"
      BY <2>1 DEF At
    <3>2. Top(t).pkg \in Pkgs /\ Knows(Top(t))
      BY <3>1, TopFacts, TopKnows
    <3> QED BY <3>1, <3>2, <2>1, RangeFacts DEF Knows, ImportsDone
  <2>2. ASSUME NEW p \in Pkgs, fut[p] = "ok", NEW d \in Range(Imports(p))
        PROVE  fut[d] = "ok"
    BY <2>2 DEF OkClosed, Closed, Loaded1
  <2> QED BY <2>1, <2>2 DEF ImportsReady
<1> QED BY <1>1, LoadInvAlways, AlwaysParentsAlive, PTL

\* future_acquire: no package is loaded by two threads, or built twice.
THEOREM AlwaysLoadedOnce == LoadSpec => []LoadedOnce
<1>1. LoadInv => LoadedOnce
  <2> SUFFICES ASSUME LoadInv PROVE LoadedOnce
    OBVIOUS
  <2> USE DEF LoadInv, Base
  <2>1. \A p \in Pkgs : built[p] <= 1
    BY DEF BuiltOK
  <2>2. ASSUME NEW t \in Threads, NEW u \in Threads, NEW i \in DOMAIN stack[t], NEW j \in DOMAIN stack[u],
               stack[t][i].pkg = stack[u][j].pkg, <<t, i>> # <<Main, 1>>, <<u, j>> # <<Main, 1>>
        PROVE  t = u /\ i = j
    <3>1. stack[t] \in Seq(Frames) /\ stack[u] \in Seq(Frames)
      BY DEF LoadTypeOK
    <3>2. i \in 1..Depth(t) /\ j \in 1..Depth(u)
      BY <3>1 DEF Depth
    <3>3. ~TopLevel(t, i) /\ ~TopLevel(u, j) /\ FrameAt(t, i).pkg = FrameAt(u, j).pkg
      BY <2>2 DEF TopLevel, FrameAt
    <3> QED BY <3>2, <3>3, OneFrame
  <2> QED BY <2>1, <2>2 DEF LoadedOnce
<1> QED BY <1>1, LoadInvAlways, PTL

\* "import cycle not allowed": a build that succeeds has loaded what is needed, without any
\* error, and it has no cycle.
THEOREM AlwaysSuccessMeansLoaded == LoadSpec => []SuccessMeansLoaded
<1>1. LoadInv => SuccessMeansLoaded
  <2> SUFFICES ASSUME LoadInv, exit = "ok"
               PROVE  /\ \A p \in Needed \ {Root} : fut[p] = "ok"
                      /\ ~errcount
                      /\ \A S \in SUBSET Needed : S # {} => \E p \in S : Range(Imports(p)) \cap S = {}
    BY DEF SuccessMeansLoaded
  <2> USE DEF LoadInv, Base
  <2>1. ~errcount /\ Range(Imports(Root)) \subseteq Loaded1
    BY DEF SuccessOK, Succeeding
  <2>2. /\ Closed(Loaded1) /\ Root \notin Loaded1 /\ Root \in Pkgs /\ Loaded1 \subseteq Pkgs
        /\ \A p \in Loaded1 : Range(Imports(p)) \subseteq Loaded1
    BY ProjectFacts DEF OkClosed, Loaded1, Closed
  <2>3. Needed \subseteq {Root} \cup Loaded1
    <3> DEFINE S == {Root} \cup Loaded1
    <3>1. S \in SUBSET Pkgs /\ Root \in S /\ Closed(S)
      BY <2>1, <2>2 DEF Closed
    <3> HIDE DEF S
    <3>2. Needed \subseteq S
      BY <3>1 DEF Needed
    <3> QED BY <3>2 DEF S
  <2>4. \A p \in Needed \ {Root} : fut[p] = "ok"
    BY <2>3 DEF Loaded1
  <2>5. ASSUME NEW S \in SUBSET Needed, S # {}
        PROVE  \E p \in S : Range(Imports(p)) \cap S = {}
    <3>1. CASE S \subseteq {Root}
      BY <3>1, <2>1, <2>2, <2>5
    <3>2. CASE ~(S \subseteq {Root})
      <4>1. (S \ {Root}) \in SUBSET Loaded1 /\ S \ {Root} # {}
        BY <3>2, <2>3
      <4>2. PICK p \in S \ {Root} : Range(Imports(p)) \cap (S \ {Root}) = {}
        BY <4>1 DEF OkClosed
      <4> QED BY <4>1, <4>2, <2>2
    <3> QED BY <3>1, <3>2
  <2> QED BY <2>1, <2>4, <2>5
<1> QED BY <1>1, LoadInvAlways, PTL
=============================================================================
