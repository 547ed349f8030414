--------------------------- MODULE SubprocProofs ----------------------------
(***************************************************************************)
(* Proofs about Subprocs for any builders, any libraries and packages and  *)
(* any number of places for compilers.                                     *)
(*                                                                         *)
(* Own(b) is about one builder: a compiler that it started is in a place   *)
(* of a promise that it still has to await, or was awaited, or was told    *)
(* to stop; and every promise it has to await has somebody to wait for.    *)
(* WholeOK is about several: what the compilers of a builder have written  *)
(* stays whole unless it began while others were still running.            *)
(***************************************************************************)
EXTENDS Subprocs, WellFoundedInduction, TLAPS

Place(b, i, s) == procs[b][i][s]
Held(b, j) == \E i \in Pools, s \in Slots : Place(b, i, s) = j
JobAt(i, k) == task.pools[i][k]
JobCount(i) == Len(task.pools[i])

\* A place holds a compiler that was not awaited, of a promise that was not; and a
\* compiler has one place.
PlacesOK(b) ==
  /\ \A i \in Pools, s \in Slots : Place(b, i, s) # Free =>
       i \in pending[b] /\ compiler[b][Place(b, i, s)] \notin {"none", "reaped"}
  /\ \A i, m \in Pools, s, u \in Slots :
       Place(b, i, s) = Place(b, m, u) /\ Place(b, i, s) # Free => i = m /\ s = u

\* A compiler that was not awaited has a place, or was told to stop.
JobsOK(b) ==
  \A j \in Jobs : \/ compiler[b][j] \in {"none", "reaped"} \/ Held(b, j)
                  \/ serr[b] /\ j \in interrupted[b]

\* Where the builder is, and what it has to await.
PhaseOK(b) ==
  /\ spc[b] \in {"idle", "create"} => pending[b] = 1..(spool[b] - 1) /\ sjob[b] = 1
  /\ spc[b] = "idle" => spool[b] = 1
  /\ spc[b] \in {"spawn", "cancel"} => pending[b] = 1..spool[b]
  /\ spc[b] = "spawn" => sjob[b] \in 1..(JobCount(spool[b]) + 1)
  /\ spc[b] = "await" => pending[b] \cap 1..(spool[b] - 1) = {}
  /\ spc[b] \in {"output", "end", "returned"} => pending[b] = {}
  /\ spc[b] \in {"idle", "create", "spawn", "output"} => ~serr[b]
  /\ spc[b] = "cancel" => serr[b]
  /\ spc[b] \notin {"end", "returned"} => output[b] = "none"
  /\ spc[b] \in {"end", "returned"} /\ ~serr[b] => output[b] # "none"

\* A promise that it has to await has somebody to wait for.
Occupied(b, i) == \E s \in Slots : Place(b, i, s) # Free
InUse(b) ==
  \A i \in pending[b] :
    \/ i # spool[b]
    \/ spc[b] = "spawn" /\ sjob[b] > JobCount(i)
    \/ spc[b] = "await" /\ sjob[b] = 0
    => Occupied(b, i)

\* Which compilers were started.
Begun(b, i, k) == i < spool[b] \/ (i = spool[b] /\ spc[b] = "spawn" /\ k < sjob[b])
BegunOK(b) ==
  \A i \in Pools : \A k \in 1..JobCount(i) :
    /\ spc[b] \in {"idle", "create", "spawn"} => (compiler[b][JobAt(i, k)] # "none" <=> Begun(b, i, k))
    /\ spc[b] \in {"await", "output", "end", "returned"} /\ ~serr[b] => compiler[b][JobAt(i, k)] # "none"

ErrOK(b) == serr[b] = trouble[b]

Own(b) == PlacesOK(b) /\ JobsOK(b) /\ PhaseOK(b) /\ InUse(b) /\ BegunOK(b) /\ ErrOK(b)

\* One builder at a time; while no compiler of another builder is left, what its own
\* have written is whole.
Alone == \A b, c \in Busy : b = c
WholeOK ==
  \A b \in Busy : ~strayed[b] =>
    /\ \A c \in Builders \ {b}, j \in Jobs : compiler[c][j] \notin Alive
    /\ ~serr[b] => \A j \in Jobs : compiler[b][j] \in {"exited", "reaped"} => objs[j] = "whole"

-----------------------------------------------------------------------------
(* The task and the places.                                                  *)

LEMMA SeqFacts ==
  ASSUME NEW S, NEW p \in Seq(S), p # <<>>
  PROVE  Len(p) \in Nat \ {0} /\ DOMAIN p = 1..Len(p) /\ \A i \in 1..Len(p) : p[i] \in S
OBVIOUS

LEMMA TaskFacts ==
  ASSUME SubTypeOK
  PROVE  /\ Len(task.pools) \in Nat \ {0} /\ task.maxproc \in Nat \ {0}
         /\ \A i \in Pools : JobCount(i) \in Nat \ {0}
         /\ \A i \in Pools : \A k \in 1..JobCount(i) : JobAt(i, k) \in Jobs
         /\ \A j \in Jobs : \E i \in Pools : \E k \in 1..JobCount(i) : JobAt(i, k) = j
         /\ Free \notin Jobs
         /\ \A i, m \in Pools : \A k \in 1..JobCount(i), n \in 1..JobCount(m) :
              JobAt(i, k) = JobAt(m, n) => i = m /\ k = n
<1> DEFINE p == task.pools
<1>1. p \in Libraries \cup Packages /\ task.maxproc \in Maxprocs
  BY DEF SubTypeOK, Tasks
<1>2. /\ p \in Seq(Seq(STRING)) /\ p # <<>> /\ Free \notin JobsOf(p)
      /\ \A i \in DOMAIN p : p[i] # <<>>
      /\ \A i, m \in DOMAIN p : \A k \in DOMAIN p[i], n \in DOMAIN p[m] :
           p[i][k] = p[m][n] => i = m /\ k = n
  BY <1>1, SubprocsAssumptions
<1> HIDE DEF p
<1>3. Len(p) \in Nat \ {0} /\ DOMAIN p = 1..Len(p) /\ \A i \in 1..Len(p) : p[i] \in Seq(STRING)
  BY <1>2, SeqFacts
<1>4. \A i \in 1..Len(p) : Len(p[i]) \in Nat \ {0} /\ DOMAIN p[i] = 1..Len(p[i])
  BY <1>2, <1>3, SeqFacts
<1>5. task.maxproc \in Nat \ {0}
  BY <1>1, SubprocsAssumptions
<1>6. Pools = 1..Len(p) /\ Jobs = JobsOf(p) /\ \A i, k : JobAt(i, k) = p[i][k] /\ JobCount(i) = Len(p[i])
  BY DEF Pools, Jobs, JobAt, JobCount, p
<1>7. \A i \in Pools : \A k \in 1..JobCount(i) : JobAt(i, k) \in Jobs
  BY <1>3, <1>4, <1>6 DEF JobsOf
<1>8. \A j \in Jobs : \E i \in Pools : \E k \in 1..JobCount(i) : JobAt(i, k) = j
  BY <1>3, <1>4, <1>6 DEF JobsOf
<1>9. \A i, m \in Pools : \A k \in 1..JobCount(i), n \in 1..JobCount(m) :
              JobAt(i, k) = JobAt(m, n) => i = m /\ k = n
  <2>1. ASSUME NEW i \in Pools, NEW m \in Pools, NEW k \in 1..JobCount(i), NEW n \in 1..JobCount(m),
               JobAt(i, k) = JobAt(m, n)
        PROVE  i = m /\ k = n
    <3>1. i \in DOMAIN p /\ m \in DOMAIN p /\ k \in DOMAIN p[i] /\ n \in DOMAIN p[m]
      BY <1>3, <1>4, <1>6
    <3>2. p[i][k] = p[m][n]
      BY <2>1, <1>6
    <3> QED BY <3>1, <3>2, <1>2
  <2> QED BY <2>1
<1> QED BY <1>2, <1>3, <1>4, <1>5, <1>6, <1>7, <1>8, <1>9 DEF p

\* Min picks one of them.
LEMMA MinSlot ==
  ASSUME SubTypeOK, NEW S \in SUBSET Slots, S # {}
  PROVE  Min(S) \in S
<1>1. S \subseteq Nat /\ \A x, y \in S : x \in Int /\ y \in Int
  BY TaskFacts DEF Slots
<1>2. \E x \in S : \A y \in S : ~(<<y, x>> \in OpToRel(<, Nat))
  BY <1>1, NatLessThanWellFounded, WFMin
<1>3. \E x \in S : \A y \in S : x =< y
  <2>1. PICK x \in S : \A y \in S : ~(<<y, x>> \in OpToRel(<, Nat))
    BY <1>2
  <2>2. ASSUME NEW y \in S PROVE x =< y
    <3>1. ~(y < x)
      BY <2>1, <1>1 DEF OpToRel
    <3> QED BY <3>1, <1>1
  <2> QED BY <2>2
<1> QED BY <1>3 DEF Min

LEMMA TakenFacts ==
  ASSUME SubTypeOK, NEW b \in Builders
  PROVE  /\ \A s \in Slots : Places(b)[s] = Place(b, spool[b], s)
         /\ Taken(b) \in SUBSET Slots /\ spool[b] \in Pools
         /\ \A s \in Taken(b) : Place(b, spool[b], s) \in Jobs
         /\ Taken(b) # {} => Min(Taken(b)) \in Taken(b)
         /\ Slots \ Taken(b) # {} => Min(Slots \ Taken(b)) \in Slots \ Taken(b)
<1>1. /\ \A s \in Slots : Places(b)[s] = Place(b, spool[b], s)
      /\ Taken(b) \in SUBSET Slots /\ spool[b] \in Pools
      /\ \A s \in Taken(b) : Place(b, spool[b], s) \in Jobs
  BY DEF SubTypeOK, Places, Place, Taken
<1> QED BY <1>1, MinSlot

-----------------------------------------------------------------------------
(* Types, and who changes what.                                              *)

Acts(b) == Begin(b) \/ BuilderStep(b) \/ \E j \in Jobs : Compile(b, j)

LEMMA SameTask ==
  ASSUME NEW b \in Builders, Acts(b)
  PROVE  /\ task' = task /\ Pools' = Pools /\ Slots' = Slots /\ Jobs' = Jobs
         /\ \A i, k : JobAt(i, k)' = JobAt(i, k) /\ JobCount(i)' = JobCount(i)
<1>1. task' = task
  BY DEF Acts, BuilderStep, Begin, Create, Spawn, AwaitOne, Started, Cancel, Await, Awaited, Output,
         Return, Compile
<1> QED BY <1>1 DEF Pools, Slots, Jobs, JobAt, JobCount

\* Where the actions begin, what they leave alone, and what they do.
LEMMA BeginEffect ==
  ASSUME SubTypeOK, NEW b \in Builders, Begin(b)
  PROVE  /\ SubTypeOK' /\ spc[b] = "idle" /\ Busy = {}
         /\ spc' = [spc EXCEPT ![b] = "create"]
         /\ strayed' = [strayed EXCEPT ![b] = Strangers(b)]
         /\ UNCHANGED <<task, spool, sjob, serr, procs, pending, compiler, interrupted, objs, output, trouble>>
<1>1. /\ task' = task /\ Pools' = Pools /\ Slots' = Slots /\ Jobs' = Jobs
  BY SameTask DEF Acts
<1>2. Strangers(b) \in BOOLEAN
  BY DEF Strangers
<1>3. /\ spc[b] = "idle" /\ Busy = {}
      /\ spc' = [spc EXCEPT ![b] = "create"]
      /\ strayed' = [strayed EXCEPT ![b] = Strangers(b)]
      /\ UNCHANGED <<task, spool, sjob, serr, procs, pending, compiler, interrupted, objs, output, trouble>>
  BY DEF Begin, Enter
<1>4. strayed' \in [Builders -> BOOLEAN]
  BY <1>2, <1>3 DEF SubTypeOK
<1>5. SubTypeOK'
  BY <1>1, <1>3, <1>4 DEF SubTypeOK, SubPCs
<1> QED BY <1>3, <1>5

LEMMA CreateEffect ==
  ASSUME SubTypeOK, NEW b \in Builders, Create(b)
  PROVE  /\ SubTypeOK' /\ spc[b] = "create"
         /\ \/ /\ spc' = [spc EXCEPT ![b] = "spawn"]
               /\ pending' = [pending EXCEPT ![b] = pending[b] \cup {spool[b]}]
               /\ UNCHANGED <<serr, spool, sjob, trouble>>
            \/ /\ spc' = [spc EXCEPT ![b] = "await"]
               /\ serr' = [serr EXCEPT ![b] = TRUE] /\ trouble' = [trouble EXCEPT ![b] = TRUE]
               /\ spool' = [spool EXCEPT ![b] = 1] /\ sjob' = [sjob EXCEPT ![b] = 0]
               /\ UNCHANGED pending
         /\ UNCHANGED <<task, procs, compiler, interrupted, objs, output, strayed>>
<1>1. /\ task' = task /\ Pools' = Pools /\ Slots' = Slots /\ Jobs' = Jobs
  BY SameTask DEF Acts, BuilderStep
<1>2. 1 \in Pools
  BY TaskFacts DEF Pools
<1>3. /\ spc[b] = "create" /\ UNCHANGED <<task, procs, compiler, interrupted, objs, output, strayed>>
  BY DEF Create
<1>4. CASE /\ spc' = [spc EXCEPT ![b] = "spawn"]
           /\ pending' = [pending EXCEPT ![b] = pending[b] \cup {spool[b]}]
           /\ UNCHANGED <<serr, spool, sjob, trouble>>
  BY <1>1, <1>3, <1>4 DEF SubTypeOK, SubPCs
<1>5. CASE /\ spc' = [spc EXCEPT ![b] = "await"]
           /\ serr' = [serr EXCEPT ![b] = TRUE] /\ trouble' = [trouble EXCEPT ![b] = TRUE]
           /\ spool' = [spool EXCEPT ![b] = 1] /\ sjob' = [sjob EXCEPT ![b] = 0]
           /\ UNCHANGED pending
  BY <1>1, <1>2, <1>3, <1>5 DEF SubTypeOK, SubPCs
<1> QED BY <1>3, <1>4, <1>5 DEF Create, Enter, Fail

\* One place, or one compiler, changes.
PlaceSet(b, i, p, j) ==
  \A c \in Builders, m \in Pools, s \in Slots :
    Place(c, m, s)' = IF c = b /\ m = i /\ s = p THEN j ELSE Place(c, m, s)
CompilerSet(b, j, l) ==
  \A c \in Builders, k \in Jobs : compiler'[c][k] = IF c = b /\ k = j THEN l ELSE compiler[c][k]

Lives == Alive \cup {"none", "exited", "failed", "reaped"}

LEMMA PlaceUpdate ==
  ASSUME SubTypeOK, NEW b \in Builders, NEW i \in Pools, NEW p \in Slots, NEW j \in Jobs \cup {Free},
         procs' = [procs EXCEPT ![b][i][p] = j]
  PROVE  /\ procs' \in [Builders -> [Pools -> [Slots -> Jobs \cup {Free}]]]
         /\ PlaceSet(b, i, p, j)
<1> DEFINE J == Jobs \cup {Free}
<1>1. procs \in [Builders -> [Pools -> [Slots -> J]]]
  BY DEF SubTypeOK
<1> HIDE DEF J
<1>2. j \in J
  BY DEF J
<1>3. procs' \in [Builders -> [Pools -> [Slots -> J]]]
  BY <1>1, <1>2
<1>4. ASSUME NEW c \in Builders, NEW m \in Pools, NEW s \in Slots
      PROVE  procs'[c][m][s] = IF c = b /\ m = i /\ s = p THEN j ELSE procs[c][m][s]
  BY <1>1
<1> QED BY <1>3, <1>4 DEF J, PlaceSet, Place

LEMMA CompilerUpdate ==
  ASSUME SubTypeOK, NEW b \in Builders, NEW j \in Jobs, NEW l \in Lives,
         compiler' = [compiler EXCEPT ![b][j] = l]
  PROVE  compiler' \in [Builders -> [Jobs -> Lives]] /\ CompilerSet(b, j, l)
<1>1. compiler \in [Builders -> [Jobs -> Lives]]
  BY DEF SubTypeOK, Lives
<1> HIDE DEF Lives
<1>2. compiler' \in [Builders -> [Jobs -> Lives]]
  BY <1>1
<1>3. ASSUME NEW c \in Builders, NEW k \in Jobs
      PROVE  compiler'[c][k] = IF c = b /\ k = j THEN l ELSE compiler[c][k]
  BY <1>1
<1> QED BY <1>2, <1>3 DEF CompilerSet

Errs(b) == serr' = [serr EXCEPT ![b] = TRUE] /\ trouble' = [trouble EXCEPT ![b] = TRUE]

LEMMA SpawnEffect ==
  ASSUME SubTypeOK, NEW b \in Builders, PhaseOK(b), Spawn(b)
  PROVE  /\ SubTypeOK' /\ spc[b] = "spawn" /\ sjob[b] \in 1..JobCount(spool[b])
         /\ \/ /\ \E p \in Slots \ Taken(b) : PlaceSet(b, spool[b], p, JobAt(spool[b], sjob[b]))
               /\ CompilerSet(b, JobAt(spool[b], sjob[b]), "running")
               /\ sjob' = [sjob EXCEPT ![b] = sjob[b] + 1]
               /\ UNCHANGED <<spc, serr, trouble>>
            \/ /\ Errs(b)
               /\ spc' = [spc EXCEPT ![b] = "cancel"]
               /\ UNCHANGED <<procs, compiler, sjob>>
         /\ UNCHANGED <<task, spool, pending, interrupted, objs, output, strayed>>
<1> DEFINE i == spool[b]
           j == JobAt(spool[b], sjob[b])
           p == Min(Slots \ Taken(b))
<1>1. /\ task' = task /\ Pools' = Pools /\ Slots' = Slots /\ Jobs' = Jobs
  BY SameTask DEF Acts, BuilderStep
<1>2. /\ spc[b] = "spawn" /\ sjob[b] <= JobCount(i) /\ Taken(b) # Slots
      /\ UNCHANGED <<task, spool, pending, interrupted, objs, output, strayed>>
  BY DEF Spawn, JobCount
<1>3. i \in Pools /\ p \in Slots \ Taken(b)
  <2>1. Slots \ Taken(b) # {}
    BY <1>2, TakenFacts
  <2> QED BY <2>1, TakenFacts
<1>4. sjob[b] \in 1..JobCount(i) /\ j \in Jobs /\ sjob[b] + 1 \in Nat
  <2>1. sjob[b] \in 1..(JobCount(i) + 1) /\ JobCount(i) \in Nat
    BY <1>2, <1>3, TaskFacts DEF PhaseOK
  <2>2. sjob[b] \in 1..JobCount(i)
    BY <2>1, <1>2
  <2> QED BY <2>1, <2>2, <1>3, TaskFacts
<1>5. \/ /\ procs' = [procs EXCEPT ![b][i][p] = j]
         /\ compiler' = [compiler EXCEPT ![b][j] = "running"]
         /\ sjob' = [sjob EXCEPT ![b] = sjob[b] + 1]
         /\ UNCHANGED <<spc, serr, trouble>>
      \/ /\ Errs(b)
         /\ spc' = [spc EXCEPT ![b] = "cancel"]
         /\ UNCHANGED <<procs, compiler, sjob>>
  BY DEF Spawn, JobAt, Fail, Enter, Errs
<1> HIDE DEF p, j, i
<1>6. CASE /\ procs' = [procs EXCEPT ![b][i][p] = j]
           /\ compiler' = [compiler EXCEPT ![b][j] = "running"]
           /\ sjob' = [sjob EXCEPT ![b] = sjob[b] + 1]
           /\ UNCHANGED <<spc, serr, trouble>>
  <2>1. /\ procs' \in [Builders -> [Pools -> [Slots -> Jobs \cup {Free}]]]
        /\ PlaceSet(b, i, p, j)
    BY <1>3, <1>4, <1>6, PlaceUpdate
  <2>2. compiler' \in [Builders -> [Jobs -> Lives]] /\ CompilerSet(b, j, "running")
    BY <1>4, <1>6, CompilerUpdate DEF Lives, Alive
  <2>3. SubTypeOK'
    BY <2>1, <2>2, <1>1, <1>2, <1>4, <1>6 DEF SubTypeOK, Lives
  <2> QED BY <2>1, <2>2, <2>3, <1>2, <1>3, <1>4, <1>6 DEF i, j
<1>7. CASE /\ Errs(b)
           /\ spc' = [spc EXCEPT ![b] = "cancel"]
           /\ UNCHANGED <<procs, compiler, sjob>>
  <2>1. SubTypeOK'
    BY <1>1, <1>2, <1>7 DEF SubTypeOK, SubPCs, Errs
  <2> QED BY <2>1, <1>2, <1>4, <1>7 DEF i
<1> QED BY <1>5, <1>6, <1>7

\* Await(b) and AwaitOne(b) take the compiler of one place away.
ReapsOne(b, p, j) ==
  /\ p \in Taken(b) /\ j \in Jobs /\ j = Place(b, spool[b], p)
  /\ compiler[b][j] \in {"exited", "failed"}
  /\ PlaceSet(b, spool[b], p, Free) /\ CompilerSet(b, j, "reaped")

LEMMA ReapEffect ==
  ASSUME SubTypeOK, NEW b \in Builders, Taken(b) # {}, NEW p, p = Min(Taken(b)), NEW j,
         j = Places(b)[p], Exited(b, j), Reaped(b, p), Jobs' = Jobs
  PROVE  /\ ReapsOne(b, p, j)
         /\ procs' \in [Builders -> [Pools -> [Slots -> Jobs \cup {Free}]]]
         /\ compiler' \in [Builders -> [Jobs -> Lives]]
<1>1. p \in Taken(b) /\ p \in Slots /\ spool[b] \in Pools /\ j \in Jobs /\ j = Place(b, spool[b], p)
  BY TakenFacts
<1>2. /\ procs' = [procs EXCEPT ![b][spool[b]][p] = Free]
      /\ compiler' = [compiler EXCEPT ![b][j] = "reaped"]
      /\ compiler[b][j] \in {"exited", "failed"}
  BY DEF Reaped, Exited
<1>3. /\ procs' \in [Builders -> [Pools -> [Slots -> Jobs \cup {Free}]]]
      /\ PlaceSet(b, spool[b], p, Free)
  BY <1>1, <1>2, PlaceUpdate
<1>4. compiler' \in [Builders -> [Jobs -> Lives]] /\ CompilerSet(b, j, "reaped")
  BY <1>1, <1>2, CompilerUpdate DEF Lives
<1> QED BY <1>1, <1>2, <1>3, <1>4 DEF ReapsOne

LEMMA AwaitOneEffect ==
  ASSUME SubTypeOK, NEW b \in Builders, AwaitOne(b)
  PROVE  /\ SubTypeOK' /\ spc[b] = "spawn" /\ sjob[b] <= JobCount(spool[b])
         /\ \E p, j : /\ ReapsOne(b, p, j)
                      /\ IF compiler[b][j] = "failed"
                         THEN Errs(b) /\ spc' = [spc EXCEPT ![b] = "cancel"]
                         ELSE UNCHANGED <<spc, serr, trouble>>
         /\ UNCHANGED <<task, spool, sjob, pending, interrupted, objs, output, strayed>>
<1> DEFINE p == Min(Taken(b))
           j == Places(b)[p]
<1>1. /\ task' = task /\ Pools' = Pools /\ Slots' = Slots /\ Jobs' = Jobs
  BY SameTask DEF Acts, BuilderStep
<1>2. /\ spc[b] = "spawn" /\ sjob[b] <= JobCount(spool[b]) /\ Taken(b) = Slots
      /\ Exited(b, j) /\ Reaped(b, p)
      /\ IF compiler[b][j] = "failed"
         THEN Errs(b) /\ spc' = [spc EXCEPT ![b] = "cancel"]
         ELSE UNCHANGED <<spc, serr, trouble>>
      /\ UNCHANGED <<task, spool, sjob, pending, interrupted, objs, output, strayed>>
  BY DEF AwaitOne, Fail, Enter, Errs, JobCount
<1>3. Taken(b) # {}
  BY <1>2, TaskFacts DEF Slots
<1>4. /\ ReapsOne(b, p, j)
      /\ procs' \in [Builders -> [Pools -> [Slots -> Jobs \cup {Free}]]]
      /\ compiler' \in [Builders -> [Jobs -> Lives]]
  BY <1>1, <1>2, <1>3, ReapEffect
<1> HIDE DEF p, j
<1>5. SubTypeOK'
  <2>1. serr' \in [Builders -> BOOLEAN] /\ trouble' \in [Builders -> BOOLEAN] /\ spc' \in [Builders -> SubPCs]
    BY <1>2 DEF SubTypeOK, SubPCs, Errs
  <2> QED BY <2>1, <1>1, <1>2, <1>4 DEF SubTypeOK, Lives
<1> QED BY <1>2, <1>4, <1>5

LEMMA AwaitEffect ==
  ASSUME SubTypeOK, NEW b \in Builders, Await(b)
  PROVE  /\ SubTypeOK' /\ spc[b] = "await" /\ spool[b] \in pending[b]
         /\ \E p, j : /\ ReapsOne(b, p, j)
                      /\ serr' = [serr EXCEPT ![b] = serr[b] \/ compiler[b][j] = "failed"]
                      /\ trouble' = [trouble EXCEPT ![b] = trouble[b] \/ compiler[b][j] = "failed"]
         /\ sjob' = [sjob EXCEPT ![b] = sjob[b] + 1]
         /\ UNCHANGED <<task, spc, spool, pending, interrupted, objs, output, strayed>>
<1> DEFINE p == Min(Taken(b))
           j == Places(b)[p]
<1>1. /\ task' = task /\ Pools' = Pools /\ Slots' = Slots /\ Jobs' = Jobs
  BY SameTask DEF Acts, BuilderStep
<1>2. /\ spc[b] = "await" /\ spool[b] \in pending[b] /\ Taken(b) # {}
      /\ Exited(b, j) /\ Reaped(b, p)
      /\ serr' = [serr EXCEPT ![b] = serr[b] \/ compiler[b][j] = "failed"]
      /\ trouble' = [trouble EXCEPT ![b] = trouble[b] \/ compiler[b][j] = "failed"]
      /\ sjob' = [sjob EXCEPT ![b] = sjob[b] + 1]
      /\ UNCHANGED <<task, spc, spool, pending, interrupted, objs, output, strayed>>
  BY DEF Await, AwaitErr
<1>3. /\ ReapsOne(b, p, j)
      /\ procs' \in [Builders -> [Pools -> [Slots -> Jobs \cup {Free}]]]
      /\ compiler' \in [Builders -> [Jobs -> Lives]]
  BY <1>1, <1>2, ReapEffect
<1> HIDE DEF p, j
<1>4. SubTypeOK'
  <2>1. serr' \in [Builders -> BOOLEAN] /\ trouble' \in [Builders -> BOOLEAN]
    <3>1. serr \in [Builders -> BOOLEAN] /\ trouble \in [Builders -> BOOLEAN]
      BY DEF SubTypeOK
    <3>2. (serr[b] \/ compiler[b][j] = "failed") \in BOOLEAN /\ (trouble[b] \/ compiler[b][j] = "failed") \in BOOLEAN
      OBVIOUS
    <3> QED BY <3>1, <3>2, <1>2
  <2>2. sjob' \in [Builders -> Nat]
    BY <1>2 DEF SubTypeOK
  <2> QED BY <2>1, <2>2, <1>1, <1>2, <1>3 DEF SubTypeOK, Lives
<1> QED BY <1>2, <1>3, <1>4

LEMMA StartedEffect ==
  ASSUME SubTypeOK, NEW b \in Builders, PhaseOK(b), Started(b)
  PROVE  /\ SubTypeOK' /\ spc[b] = "spawn" /\ sjob[b] = JobCount(spool[b]) + 1
         /\ \/ /\ spool[b] + 1 \in Pools
               /\ spc' = [spc EXCEPT ![b] = "create"]
               /\ spool' = [spool EXCEPT ![b] = spool[b] + 1] /\ sjob' = [sjob EXCEPT ![b] = 1]
            \/ /\ spool[b] = Len(task.pools)
               /\ spc' = [spc EXCEPT ![b] = "await"]
               /\ spool' = [spool EXCEPT ![b] = 1] /\ sjob' = [sjob EXCEPT ![b] = 0]
         /\ UNCHANGED <<task, serr, procs, pending, compiler, interrupted, objs, output, trouble, strayed>>
<1>1. /\ task' = task /\ Pools' = Pools /\ Slots' = Slots /\ Jobs' = Jobs
  BY SameTask DEF Acts, BuilderStep
<1>2. 1 \in Pools /\ spool[b] \in Pools /\ Len(task.pools) \in Nat /\ JobCount(spool[b]) \in Nat
  BY TaskFacts DEF Pools, SubTypeOK
<1>3. /\ spc[b] = "spawn" /\ sjob[b] > JobCount(spool[b])
      /\ UNCHANGED <<task, serr, procs, pending, compiler, interrupted, objs, output, trouble, strayed>>
  BY DEF Started, JobCount
<1>4. sjob[b] = JobCount(spool[b]) + 1
  BY <1>2, <1>3 DEF PhaseOK
<1>5. CASE spool[b] < Len(task.pools)
  <2>1. /\ spc' = [spc EXCEPT ![b] = "create"]
        /\ spool' = [spool EXCEPT ![b] = spool[b] + 1] /\ sjob' = [sjob EXCEPT ![b] = 1]
    BY <1>5 DEF Started, Enter
  <2>2. spool[b] + 1 \in Pools
    BY <1>2, <1>5 DEF Pools
  <2>3. SubTypeOK'
    BY <1>1, <1>3, <2>1, <2>2 DEF SubTypeOK, SubPCs
  <2> QED BY <1>3, <1>4, <2>1, <2>2, <2>3
<1>6. CASE ~(spool[b] < Len(task.pools))
  <2>1. /\ spc' = [spc EXCEPT ![b] = "await"]
        /\ spool' = [spool EXCEPT ![b] = 1] /\ sjob' = [sjob EXCEPT ![b] = 0]
    BY <1>6 DEF Started, Enter
  <2>2. spool[b] = Len(task.pools)
    BY <1>2, <1>6 DEF Pools
  <2>3. SubTypeOK'
    BY <1>1, <1>2, <1>3, <2>1 DEF SubTypeOK, SubPCs
  <2> QED BY <1>3, <1>4, <2>1, <2>2, <2>3
<1> QED BY <1>5, <1>6

\* What Cancel does to the places.
PlacesLeft(b, i) ==
  \A c \in Builders, m \in Pools, s \in Slots :
    Place(c, m, s)' = IF c = b /\ m = i THEN Free ELSE Place(c, m, s)
Told(b, i) ==
  \A j \in Jobs : (\E s \in Slots : Place(b, i, s) = j) => j \in interrupted'[b]

LEMMA CancelEffect ==
  ASSUME SubTypeOK, NEW b \in Builders, Cancel(b)
  PROVE  /\ SubTypeOK' /\ spc[b] = "cancel"
         /\ PlacesLeft(b, spool[b]) /\ Told(b, spool[b])
         /\ \E I : /\ interrupted[b] \subseteq I /\ interrupted' = [interrupted EXCEPT ![b] = I]
         /\ pending' = [pending EXCEPT ![b] = pending[b] \ {spool[b]}]
         /\ spool' = [spool EXCEPT ![b] = 1] /\ sjob' = [sjob EXCEPT ![b] = 0]
         /\ spc' = [spc EXCEPT ![b] = "await"]
         /\ UNCHANGED <<task, serr, compiler, objs, output, trouble, strayed>>
<1>1. /\ task' = task /\ Pools' = Pools /\ Slots' = Slots /\ Jobs' = Jobs
  BY SameTask DEF Acts, BuilderStep
<1>2. 1 \in Pools /\ spool[b] \in Pools
  BY TaskFacts DEF Pools, SubTypeOK
<1> DEFINE I == interrupted[b] \cup InProcess(b)
<1>3. /\ spc[b] = "cancel"
      /\ interrupted' = [interrupted EXCEPT ![b] = I]
      /\ procs' = [procs EXCEPT ![b][spool[b]] = [p \in Slots |-> Free]]
      /\ pending' = [pending EXCEPT ![b] = pending[b] \ {spool[b]}]
      /\ spool' = [spool EXCEPT ![b] = 1] /\ sjob' = [sjob EXCEPT ![b] = 0]
      /\ spc' = [spc EXCEPT ![b] = "await"]
      /\ UNCHANGED <<task, serr, compiler, objs, output, trouble, strayed>>
  BY DEF Cancel, Enter
<1>4. InProcess(b) \in SUBSET Jobs /\ I \in SUBSET Jobs
  <2>1. \A p \in Taken(b) : p \in Slots /\ Places(b)[p] \in Jobs
    BY TakenFacts
  <2>2. InProcess(b) \in SUBSET Jobs
    BY <2>1 DEF InProcess
  <2>3. interrupted[b] \in SUBSET Jobs
    BY DEF SubTypeOK
  <2> QED BY <2>2, <2>3
<1>5. \A s \in Slots : Place(b, spool[b], s) \in Jobs => Place(b, spool[b], s) \in InProcess(b)
  BY TakenFacts, TaskFacts DEF InProcess, Taken
<1>6. interrupted'[b] = I
  BY <1>3 DEF SubTypeOK
<1>7. Told(b, spool[b])
  BY <1>5, <1>6 DEF Told
<1>8. /\ procs' \in [Builders -> [Pools -> [Slots -> Jobs \cup {Free}]]]
      /\ PlacesLeft(b, spool[b])
  <2> DEFINE J == Jobs \cup {Free}
             F == [p \in Slots |-> Free]
  <2>1. procs \in [Builders -> [Pools -> [Slots -> J]]]
    BY DEF SubTypeOK
  <2>2. F \in [Slots -> J] /\ \A s \in Slots : F[s] = Free
    OBVIOUS
  <2>3. procs' = [procs EXCEPT ![b][spool[b]] = F]
    BY <1>3
  <2> HIDE DEF J, F
  <2>4. procs' \in [Builders -> [Pools -> [Slots -> J]]]
    BY <2>1, <2>2, <2>3, <1>2
  <2>5. ASSUME NEW c \in Builders, NEW m \in Pools, NEW s \in Slots
        PROVE  procs'[c][m][s] = IF c = b /\ m = spool[b] THEN Free ELSE procs[c][m][s]
    BY <2>1, <2>2, <2>3, <1>2
  <2> QED BY <2>4, <2>5 DEF J, PlacesLeft, Place
<1> HIDE DEF I
<1>9. SubTypeOK'
  BY <1>1, <1>2, <1>3, <1>4, <1>8 DEF SubTypeOK, SubPCs
<1>10. interrupted[b] \subseteq I
  BY DEF I
<1> QED BY <1>3, <1>7, <1>8, <1>9, <1>10

LEMMA AwaitedEffect ==
  ASSUME SubTypeOK, NEW b \in Builders, Awaited(b)
  PROVE  /\ SubTypeOK' /\ spc[b] = "await" /\ (spool[b] \notin pending[b] \/ Taken(b) = {})
         /\ pending' = [pending EXCEPT ![b] = pending[b] \ {spool[b]}]
         /\ serr' = [serr EXCEPT ![b] = serr[b] \/ (spool[b] \in pending[b] /\ sjob[b] = 0)]
         /\ sjob' = [sjob EXCEPT ![b] = 0]
         /\ \/ /\ spool[b] + 1 \in Pools
               /\ spool' = [spool EXCEPT ![b] = spool[b] + 1] /\ UNCHANGED spc
            \/ /\ spool[b] = Len(task.pools) /\ UNCHANGED spool
               /\ spc' = [spc EXCEPT ![b] = IF serr'[b] THEN "end" ELSE "output"]
         /\ UNCHANGED <<task, procs, compiler, interrupted, objs, output, trouble, strayed>>
<1>1. /\ task' = task /\ Pools' = Pools /\ Slots' = Slots /\ Jobs' = Jobs
  BY SameTask DEF Acts, BuilderStep
<1>2. spool[b] \in Pools /\ Len(task.pools) \in Nat
  BY TaskFacts DEF Pools, SubTypeOK
<1> DEFINE e == serr[b] \/ (spool[b] \in pending[b] /\ sjob[b] = 0)
<1>3. /\ spc[b] = "await" /\ (spool[b] \notin pending[b] \/ Taken(b) = {})
      /\ pending' = [pending EXCEPT ![b] = pending[b] \ {spool[b]}]
      /\ serr' = [serr EXCEPT ![b] = e]
      /\ sjob' = [sjob EXCEPT ![b] = 0]
      /\ UNCHANGED <<task, procs, compiler, interrupted, objs, output, trouble, strayed>>
  BY DEF Awaited
<1>4. \/ /\ spool[b] + 1 \in Pools
         /\ spool' = [spool EXCEPT ![b] = spool[b] + 1] /\ UNCHANGED spc
      \/ /\ spool[b] = Len(task.pools) /\ UNCHANGED spool
         /\ spc' = [spc EXCEPT ![b] = IF serr'[b] THEN "end" ELSE "output"]
  <2>1. CASE spool[b] < Len(task.pools)
    <3>1. spool[b] + 1 \in Pools
      BY <1>2, <2>1 DEF Pools
    <3> QED BY <3>1, <2>1 DEF Awaited
  <2>2. CASE ~(spool[b] < Len(task.pools))
    <3>1. spool[b] = Len(task.pools)
      BY <1>2, <2>2 DEF Pools
    <3> QED BY <3>1, <2>2 DEF Awaited, Enter
  <2> QED BY <2>1, <2>2
<1>5. serr' \in [Builders -> BOOLEAN]
  <2>1. serr \in [Builders -> BOOLEAN] /\ e \in BOOLEAN
    BY DEF SubTypeOK
  <2> HIDE DEF e
  <2> QED BY <2>1, <1>3
<1> HIDE DEF e
<1>6. spc' \in [Builders -> SubPCs] /\ spool' \in [Builders -> Pools]
  <2>1. "end" \in SubPCs /\ "output" \in SubPCs /\ spc \in [Builders -> SubPCs] /\ spool \in [Builders -> Pools]
    BY DEF SubPCs, SubTypeOK
  <2>2. CASE /\ spool[b] + 1 \in Pools
             /\ spool' = [spool EXCEPT ![b] = spool[b] + 1] /\ UNCHANGED spc
    BY <2>1, <2>2
  <2>3. CASE /\ spool[b] = Len(task.pools) /\ UNCHANGED spool
             /\ spc' = [spc EXCEPT ![b] = IF serr'[b] THEN "end" ELSE "output"]
    BY <2>1, <2>3
  <2> QED BY <1>4, <2>2, <2>3
<1>7. pending' \in [Builders -> SUBSET Pools] /\ sjob' \in [Builders -> Nat]
  BY <1>3 DEF SubTypeOK
<1>8. SubTypeOK'
  BY <1>1, <1>3, <1>5, <1>6, <1>7 DEF SubTypeOK
<1> QED BY <1>3, <1>4, <1>8 DEF e

LEMMA OutputEffect ==
  ASSUME SubTypeOK, NEW b \in Builders, Output(b)
  PROVE  /\ SubTypeOK' /\ spc[b] = "output" /\ spc' = [spc EXCEPT ![b] = "end"]
         /\ \/ /\ output' = [output EXCEPT ![b] = "good"]
               /\ UNCHANGED <<serr, trouble>>
            \/ /\ output' = [output EXCEPT ![b] = "bad"] /\ \E j \in Jobs : objs[j] # "whole"
               /\ UNCHANGED <<serr, trouble>>
            \/ /\ Errs(b) /\ UNCHANGED output
         /\ UNCHANGED <<task, spool, sjob, procs, pending, compiler, interrupted, objs, strayed>>
<1>1. /\ task' = task /\ Pools' = Pools /\ Slots' = Slots /\ Jobs' = Jobs
  BY SameTask DEF Acts, BuilderStep
<1>2. /\ spc[b] = "output" /\ spc' = [spc EXCEPT ![b] = "end"]
      /\ UNCHANGED <<task, spool, sjob, procs, pending, compiler, interrupted, objs, strayed>>
  BY DEF Output, Enter
<1>3. \/ /\ output' = [output EXCEPT ![b] = "good"]
         /\ UNCHANGED <<serr, trouble>>
      \/ /\ output' = [output EXCEPT ![b] = "bad"] /\ \E j \in Jobs : objs[j] # "whole"
         /\ UNCHANGED <<serr, trouble>>
      \/ /\ Errs(b) /\ UNCHANGED output
  <2>1. CASE \A j \in Jobs : objs[j] = "whole"
    BY <2>1 DEF Output, Fail, Errs
  <2>2. CASE ~\A j \in Jobs : objs[j] = "whole"
    BY <2>2 DEF Output, Fail, Errs
  <2> QED BY <2>1, <2>2
<1>4. spc' \in [Builders -> SubPCs]
  BY <1>2 DEF SubTypeOK, SubPCs
<1>5. output' \in [Builders -> {"none", "good", "bad"}]
  BY <1>3 DEF SubTypeOK
<1>6. serr' \in [Builders -> BOOLEAN] /\ trouble' \in [Builders -> BOOLEAN]
  BY <1>3 DEF SubTypeOK, Errs
<1>7. SubTypeOK'
  BY <1>1, <1>2, <1>4, <1>5, <1>6 DEF SubTypeOK
<1> QED BY <1>2, <1>3, <1>7

LEMMA ReturnEffect ==
  ASSUME SubTypeOK, NEW b \in Builders, Return(b)
  PROVE  /\ SubTypeOK' /\ spc[b] = "end" /\ spc' = [spc EXCEPT ![b] = "returned"]
         /\ UNCHANGED <<task, spool, sjob, serr, procs, pending, compiler, interrupted, output, trouble, strayed>>
<1>1. /\ task' = task /\ Pools' = Pools /\ Slots' = Slots /\ Jobs' = Jobs
  BY SameTask DEF Acts, BuilderStep
<1>2. /\ spc[b] = "end" /\ spc' = [spc EXCEPT ![b] = "returned"]
      /\ UNCHANGED <<task, spool, sjob, serr, procs, pending, compiler, interrupted, output, trouble, strayed>>
  BY DEF Return, Enter
<1>3. objs' \in [Jobs -> {"absent", "partial", "whole"}]
  BY DEF Return, SubTypeOK
<1>4. spc' \in [Builders -> SubPCs]
  BY <1>2 DEF SubTypeOK, SubPCs
<1>5. SubTypeOK'
  BY <1>1, <1>2, <1>3, <1>4 DEF SubTypeOK
<1> QED BY <1>2, <1>5

LEMMA CompileEffect ==
  ASSUME SubTypeOK, NEW b \in Builders, NEW j \in Jobs, Compile(b, j)
  PROVE  /\ SubTypeOK' /\ compiler[b][j] \in Alive
         /\ \E l \in {"writing", "exited", "failed"}, o \in {"absent", "partial", "whole"} :
              /\ CompilerSet(b, j, l) /\ objs' = [objs EXCEPT ![j] = o]
              /\ l = "exited" => o = "whole"
         /\ UNCHANGED <<task, spc, spool, sjob, serr, procs, pending, interrupted, output, trouble, strayed>>
<1>1. /\ task' = task /\ Pools' = Pools /\ Slots' = Slots /\ Jobs' = Jobs
  BY SameTask DEF Acts
<1>2. /\ compiler[b][j] \in Alive
      /\ UNCHANGED <<task, spc, spool, sjob, serr, procs, pending, interrupted, output, trouble, strayed>>
  BY DEF Compile
<1>3. PICK l \in {"writing", "exited", "failed"}, o \in {"absent", "partial", "whole"} :
        /\ compiler' = [compiler EXCEPT ![b][j] = l] /\ objs' = [objs EXCEPT ![j] = o]
        /\ l = "exited" => o = "whole"
  BY DEF Compile
<1>4. l \in Lives
  BY <1>3 DEF Lives, Alive
<1>5. compiler' \in [Builders -> [Jobs -> Lives]] /\ CompilerSet(b, j, l)
  BY <1>3, <1>4, CompilerUpdate
<1>6. objs' \in [Jobs -> {"absent", "partial", "whole"}]
  BY <1>3 DEF SubTypeOK
<1>7. SubTypeOK'
  BY <1>1, <1>2, <1>5, <1>6 DEF SubTypeOK, Lives
<1> QED BY <1>2, <1>3, <1>5, <1>7

-----------------------------------------------------------------------------
(* What an action does to its own builder.                                   *)

Fixed ==
  /\ task' = task /\ Pools' = Pools /\ Slots' = Slots /\ Jobs' = Jobs
  /\ \A i, k : JobAt(i, k)' = JobAt(i, k) /\ JobCount(i)' = JobCount(i)
Still(b) ==
  /\ \A i \in Pools, s \in Slots : Place(b, i, s)' = Place(b, i, s)
  /\ \A j \in Jobs : compiler'[b][j] = compiler[b][j]

LEMMA AlwaysFixed ==
  ASSUME NEW b \in Builders, Acts(b)
  PROVE  Fixed
BY SameTask DEF Fixed

LEMMA StillPlaces ==
  ASSUME Fixed, NEW b \in Builders, Still(b), PlacesOK(b),
         \A i \in Pools, s \in Slots : Place(b, i, s) # Free /\ i \in pending[b] => i \in pending'[b],
         \A i \in Pools, s \in Slots : Place(b, i, s) # Free => Place(b, i, s) \in Jobs
  PROVE  PlacesOK(b)'
<1>1. ASSUME NEW i \in Pools, NEW s \in Slots, Place(b, i, s)' # Free
      PROVE  i \in pending'[b] /\ compiler'[b][Place(b, i, s)'] \notin {"none", "reaped"}
  BY <1>1 DEF Still, PlacesOK
<1>2. ASSUME NEW i \in Pools, NEW m \in Pools, NEW s \in Slots, NEW u \in Slots,
             Place(b, i, s)' = Place(b, m, u)', Place(b, i, s)' # Free
      PROVE  i = m /\ s = u
  BY <1>2 DEF Still, PlacesOK
<1> QED BY <1>1, <1>2 DEF PlacesOK, Fixed

LEMMA StillJobs ==
  ASSUME Fixed, NEW b \in Builders, Still(b), JobsOK(b), serr[b] => serr'[b],
         interrupted[b] \subseteq interrupted'[b]
  PROVE  JobsOK(b)'
<1>1. ASSUME NEW j \in Jobs
      PROVE  \/ compiler'[b][j] \in {"none", "reaped"}
             \/ \E i \in Pools, s \in Slots : Place(b, i, s)' = j
             \/ serr'[b] /\ j \in interrupted'[b]
  BY DEF Still, JobsOK, Held
<1> QED BY <1>1 DEF JobsOK, Held, Fixed

\* Nothing but the types is needed for this.
LEMMA PlaceTypes ==
  ASSUME SubTypeOK, NEW b \in Builders
  PROVE  /\ \A i \in Pools, s \in Slots : Place(b, i, s) # Free => Place(b, i, s) \in Jobs
         /\ spool[b] \in Pools /\ spool[b] \in Nat \ {0} /\ sjob[b] \in Nat
         /\ pending[b] \in SUBSET Pools /\ serr[b] \in BOOLEAN /\ trouble[b] \in BOOLEAN
         /\ spc[b] \in SubPCs /\ 1 \in Pools /\ Pools = 1..Len(task.pools)
         /\ Len(task.pools) \in Nat \ {0} /\ Pools \subseteq Nat \ {0}
         /\ \A i \in Pools : JobCount(i) \in Nat \ {0}
<1>1. /\ Pools = 1..Len(task.pools) /\ Len(task.pools) \in Nat \ {0}
      /\ \A i \in Pools : JobCount(i) \in Nat \ {0}
  BY TaskFacts DEF Pools
<1>2. /\ spool[b] \in Pools /\ sjob[b] \in Nat
      /\ pending[b] \in SUBSET Pools /\ serr[b] \in BOOLEAN /\ trouble[b] \in BOOLEAN
      /\ spc[b] \in SubPCs
  BY DEF SubTypeOK
<1>3. \A i \in Pools, s \in Slots : Place(b, i, s) # Free => Place(b, i, s) \in Jobs
  BY DEF SubTypeOK, Place
<1> QED BY <1>1, <1>2, <1>3

LEMMA BeginOwn ==
  ASSUME SubTypeOK, NEW b \in Builders, Own(b), Begin(b)
  PROVE  Own(b)'
<1>1. Fixed
  BY AlwaysFixed DEF Acts
<1>2. /\ spc[b] = "idle" /\ spc'[b] = "create"
      /\ UNCHANGED <<task, spool, sjob, serr, procs, pending, compiler, interrupted, objs, output, trouble>>
  BY BeginEffect DEF SubTypeOK
<1>3. Still(b)
  BY <1>2 DEF Still, Place
<1>4. PlacesOK(b)' /\ JobsOK(b)'
  BY <1>1, <1>2, <1>3, StillPlaces, StillJobs, PlaceTypes DEF Own
<1>5. PhaseOK(b)'
  BY <1>1, <1>2 DEF Own, PhaseOK
<1>6. InUse(b)'
  BY <1>1, <1>2, <1>3 DEF Own, InUse, Occupied, Still, Fixed, Place
<1>7. BegunOK(b)'
  BY <1>1, <1>2, <1>3 DEF Own, BegunOK, Begun, Still, Fixed
<1>8. ErrOK(b)'
  BY <1>2 DEF Own, ErrOK
<1> QED BY <1>4, <1>5, <1>6, <1>7, <1>8 DEF Own

LEMMA CreateOwn ==
  ASSUME SubTypeOK, NEW b \in Builders, Own(b), Create(b)
  PROVE  Own(b)'
<1>1. Fixed
  BY AlwaysFixed DEF Acts, BuilderStep
<1>2. /\ spc[b] = "create" /\ ~serr[b] /\ pending[b] = 1..(spool[b] - 1) /\ sjob[b] = 1
      /\ output[b] = "none"
      /\ UNCHANGED <<task, procs, compiler, interrupted, objs, output, strayed>>
  BY CreateEffect DEF Own, PhaseOK
<1>3. Still(b)
  BY <1>2 DEF Still, Place
<1>4. PlacesOK(b) /\ JobsOK(b) /\ PhaseOK(b) /\ InUse(b) /\ BegunOK(b) /\ ErrOK(b)
  BY DEF Own
<1>5. CASE /\ spc' = [spc EXCEPT ![b] = "spawn"]
           /\ pending' = [pending EXCEPT ![b] = pending[b] \cup {spool[b]}]
           /\ UNCHANGED <<serr, spool, sjob, trouble>>
  <2>1. spc'[b] = "spawn" /\ pending'[b] = pending[b] \cup {spool[b]} /\ pending'[b] = 1..spool[b]
    <3>1. spc'[b] = "spawn" /\ pending'[b] = pending[b] \cup {spool[b]}
      BY <1>5 DEF SubTypeOK
    <3>2. (1..(spool[b] - 1)) \cup {spool[b]} = 1..spool[b]
      BY PlaceTypes
    <3> QED BY <3>1, <3>2, <1>2
  <2>2. PlacesOK(b)' /\ JobsOK(b)'
    BY <1>1, <1>2, <1>3, <1>4, <1>5, <2>1, StillPlaces, StillJobs, PlaceTypes
  <2>3. PhaseOK(b)'
    BY <1>1, <1>2, <1>5, <2>1, PlaceTypes DEF PhaseOK, Fixed
  <2>4. InUse(b)'
    <3>1. ASSUME NEW i \in pending'[b], i # spool[b] \/ sjob[b] > JobCount(i)
          PROVE  \E s \in Slots : Place(b, i, s)' # Free
      <4>1. i \in pending[b] /\ i # spool[b] /\ i \in Pools
        BY <1>2, <2>1, <3>1, PlaceTypes
      <4> QED BY <1>3, <1>4, <4>1 DEF InUse, Occupied, Still
    <3> QED BY <3>1, <1>1, <1>5, <2>1 DEF InUse, Occupied, Fixed
  <2>5. BegunOK(b)'
    BY <1>1, <1>2, <1>3, <1>4, <1>5, <2>1, TaskFacts DEF BegunOK, Begun, Still, Fixed
  <2> QED BY <1>4, <1>5, <2>2, <2>3, <2>4, <2>5 DEF Own, ErrOK
<1>6. CASE /\ spc' = [spc EXCEPT ![b] = "await"]
           /\ serr' = [serr EXCEPT ![b] = TRUE] /\ trouble' = [trouble EXCEPT ![b] = TRUE]
           /\ spool' = [spool EXCEPT ![b] = 1] /\ sjob' = [sjob EXCEPT ![b] = 0]
           /\ UNCHANGED pending
  <2>1. spc'[b] = "await" /\ serr'[b] = TRUE /\ trouble'[b] = TRUE /\ spool'[b] = 1 /\ sjob'[b] = 0
    BY <1>6 DEF SubTypeOK
  <2>2. PlacesOK(b)' /\ JobsOK(b)'
    BY <1>1, <1>2, <1>3, <1>4, <1>6, <2>1, StillPlaces, StillJobs, PlaceTypes
  <2>3. PhaseOK(b)'
    BY <1>1, <1>2, <1>6, <2>1 DEF PhaseOK, Fixed
  <2>4. InUse(b)'
    <3>1. ASSUME NEW i \in pending[b]
          PROVE  \E s \in Slots : Place(b, i, s)' # Free
      <4>1. i # spool[b] /\ i \in Pools
        BY <1>2, PlaceTypes
      <4> QED BY <1>3, <1>4, <4>1 DEF InUse, Occupied, Still
    <3> QED BY <3>1, <1>1, <1>6 DEF InUse, Occupied, Fixed
  <2>5. BegunOK(b)'
    BY <2>1 DEF BegunOK
  <2> QED BY <2>1, <2>2, <2>3, <2>4, <2>5 DEF Own, ErrOK
<1> QED BY <1>5, <1>6, CreateEffect

LEMMA StartedOwn ==
  ASSUME SubTypeOK, NEW b \in Builders, Own(b), Started(b)
  PROVE  Own(b)'
<1>1. Fixed
  BY AlwaysFixed DEF Acts, BuilderStep
<1>2. PlacesOK(b) /\ JobsOK(b) /\ PhaseOK(b) /\ InUse(b) /\ BegunOK(b) /\ ErrOK(b)
  BY DEF Own
<1>3. /\ spc[b] = "spawn" /\ sjob[b] = JobCount(spool[b]) + 1
      /\ ~serr[b] /\ pending[b] = 1..spool[b] /\ output[b] = "none"
      /\ UNCHANGED <<task, serr, procs, pending, compiler, interrupted, objs, output, trouble, strayed>>
  BY <1>2, StartedEffect DEF PhaseOK
<1>4. Still(b)
  BY <1>3 DEF Still, Place
<1>5. PlacesOK(b)' /\ JobsOK(b)'
  BY <1>1, <1>2, <1>3, <1>4, StillPlaces, StillJobs, PlaceTypes
<1>6. InUse(b)'
  <2>1. ASSUME NEW i \in pending[b]
        PROVE  \E s \in Slots : Place(b, i, s)' # Free
    <3>1. i \in Pools /\ (i # spool[b] \/ sjob[b] > JobCount(i))
      BY <1>3, PlaceTypes
    <3> QED BY <1>2, <1>3, <1>4, <3>1 DEF InUse, Occupied, Still
  <2> QED BY <2>1, <1>1, <1>3 DEF InUse, Occupied, Fixed
<1>7. ErrOK(b)'
  BY <1>2, <1>3 DEF ErrOK
<1>8. CASE /\ spool[b] + 1 \in Pools
           /\ spc' = [spc EXCEPT ![b] = "create"]
           /\ spool' = [spool EXCEPT ![b] = spool[b] + 1] /\ sjob' = [sjob EXCEPT ![b] = 1]
  <2>1. spc'[b] = "create" /\ spool'[b] = spool[b] + 1 /\ sjob'[b] = 1
    BY <1>8 DEF SubTypeOK
  <2>2. PhaseOK(b)'
    BY <1>1, <1>3, <2>1, PlaceTypes DEF PhaseOK
  <2>3. BegunOK(b)'
    <3>1. ASSUME NEW i \in Pools, NEW k \in 1..JobCount(i)
          PROVE  compiler'[b][JobAt(i, k)] # "none" <=> i < spool'[b]
      <4>1. JobAt(i, k) \in Jobs /\ compiler'[b][JobAt(i, k)] = compiler[b][JobAt(i, k)]
        BY <1>4, TaskFacts DEF Still
      <4>2. compiler[b][JobAt(i, k)] # "none" <=> Begun(b, i, k)
        BY <1>2, <1>3 DEF BegunOK
      <4>3. Begun(b, i, k) <=> i < spool[b] + 1
        BY <1>3, PlaceTypes DEF Begun
      <4> QED BY <4>1, <4>2, <4>3, <2>1
    <3> QED BY <3>1, <1>1, <2>1 DEF BegunOK, Begun, Fixed
  <2> QED BY <1>5, <1>6, <1>7, <2>2, <2>3 DEF Own
<1>9. CASE /\ spool[b] = Len(task.pools)
           /\ spc' = [spc EXCEPT ![b] = "await"]
           /\ spool' = [spool EXCEPT ![b] = 1] /\ sjob' = [sjob EXCEPT ![b] = 0]
  <2>1. spc'[b] = "await" /\ spool'[b] = 1 /\ sjob'[b] = 0
    BY <1>9 DEF SubTypeOK
  <2>2. PhaseOK(b)'
    BY <1>1, <1>3, <2>1 DEF PhaseOK
  <2>3. BegunOK(b)'
    <3>1. ASSUME NEW i \in Pools, NEW k \in 1..JobCount(i)
          PROVE  compiler'[b][JobAt(i, k)] # "none"
      <4>1. JobAt(i, k) \in Jobs /\ compiler'[b][JobAt(i, k)] = compiler[b][JobAt(i, k)]
        BY <1>4, TaskFacts DEF Still
      <4>2. compiler[b][JobAt(i, k)] # "none" <=> Begun(b, i, k)
        BY <1>2, <1>3 DEF BegunOK
      <4>3. Begun(b, i, k)
        BY <1>3, <1>9, PlaceTypes DEF Begun
      <4> QED BY <4>1, <4>2, <4>3
    <3> QED BY <3>1, <1>1, <2>1 DEF BegunOK, Fixed
  <2> QED BY <1>5, <1>6, <1>7, <2>2, <2>3 DEF Own
<1> QED BY <1>8, <1>9, <1>2, StartedEffect

LEMMA AwaitedOwn ==
  ASSUME SubTypeOK, NEW b \in Builders, Own(b), Awaited(b)
  PROVE  Own(b)'
<1>1. Fixed
  BY AlwaysFixed DEF Acts, BuilderStep
<1>2. PlacesOK(b) /\ JobsOK(b) /\ PhaseOK(b) /\ InUse(b) /\ BegunOK(b) /\ ErrOK(b)
  BY DEF Own
<1>3. /\ spc[b] = "await" /\ (spool[b] \notin pending[b] \/ Taken(b) = {})
      /\ pending[b] \cap 1..(spool[b] - 1) = {} /\ output[b] = "none"
      /\ UNCHANGED <<task, procs, compiler, interrupted, objs, output, trouble, strayed>>
  BY <1>2, AwaitedEffect DEF PhaseOK
<1>4. Still(b)
  BY <1>3 DEF Still, Place
<1>5. \A s \in Slots : Place(b, spool[b], s) = Free
  BY <1>2, <1>3, TakenFacts DEF PlacesOK, Taken
<1>6. ~(spool[b] \in pending[b] /\ sjob[b] = 0)
  BY <1>2, <1>3, <1>5 DEF InUse, Occupied
<1>7. pending'[b] = pending[b] \ {spool[b]} /\ sjob'[b] = 0 /\ serr'[b] = serr[b]
  <2>1. pending' = [pending EXCEPT ![b] = pending[b] \ {spool[b]}] /\ sjob' = [sjob EXCEPT ![b] = 0]
    BY AwaitedEffect
  <2>2. serr' = [serr EXCEPT ![b] = serr[b] \/ (spool[b] \in pending[b] /\ sjob[b] = 0)]
    BY AwaitedEffect
  <2>3. serr \in [Builders -> BOOLEAN] /\ (serr[b] \/ (spool[b] \in pending[b] /\ sjob[b] = 0)) = serr[b]
    BY <1>6 DEF SubTypeOK
  <2>4. serr'[b] = serr[b]
    BY <2>2, <2>3, Zenon
  <2> QED BY <2>1, <2>4 DEF SubTypeOK
<1>8. PlacesOK(b)' /\ JobsOK(b)'
  BY <1>1, <1>2, <1>3, <1>4, <1>5, <1>7, StillPlaces, StillJobs, PlaceTypes
<1>9. InUse(b)'
  <2>1. ASSUME NEW i \in pending'[b]
        PROVE  \E s \in Slots : Place(b, i, s)' # Free
    <3>1. i \in Pools /\ i \in pending[b] /\ i # spool[b]
      BY <1>7, PlaceTypes
    <3> QED BY <1>2, <1>4, <3>1 DEF InUse, Occupied, Still
  <2> QED BY <2>1, <1>1 DEF InUse, Occupied, Fixed
<1>10. ErrOK(b)'
  BY <1>2, <1>3, <1>7 DEF ErrOK
<1>11. CASE spool' = [spool EXCEPT ![b] = spool[b] + 1] /\ UNCHANGED spc
  <2>1. spool'[b] = spool[b] + 1 /\ spc'[b] = "await"
    BY <1>3, <1>11 DEF SubTypeOK
  <2>2. PhaseOK(b)'
    <3>1. pending'[b] \cap 1..(spool'[b] - 1) = {}
      <4>1. ASSUME NEW x \in pending'[b], x \in 1..(spool'[b] - 1) PROVE FALSE
        <5>1. x \in pending[b] /\ x # spool[b] /\ x \in 1..spool[b]
          BY <1>7, <2>1, <4>1, PlaceTypes
        <5>2. x \in 1..(spool[b] - 1)
          BY <5>1, PlaceTypes
        <5> QED BY <5>1, <5>2, <1>3
      <4> QED BY <4>1
    <3> QED BY <3>1, <1>3, <2>1 DEF PhaseOK
  <2>3. BegunOK(b)'
    BY <1>1, <1>2, <1>3, <1>4, <1>7, <2>1, TaskFacts DEF BegunOK, Still, Fixed
  <2> QED BY <1>8, <1>9, <1>10, <2>2, <2>3 DEF Own
<1>12. CASE /\ spool[b] = Len(task.pools)
            /\ spc' = [spc EXCEPT ![b] = IF serr'[b] THEN "end" ELSE "output"]
  <2>1. spc'[b] = IF serr'[b] THEN "end" ELSE "output"
    BY <1>12 DEF SubTypeOK
  <2>2. pending'[b] = {}
    <3>1. ASSUME NEW x \in pending'[b] PROVE FALSE
      <4>1. x \in pending[b] /\ x # spool[b] /\ x \in 1..spool[b]
        BY <1>7, <1>12, PlaceTypes
      <4>2. x \in 1..(spool[b] - 1)
        BY <4>1, PlaceTypes
      <4> QED BY <4>1, <4>2, <1>3
    <3> QED BY <3>1
  <2>3. PhaseOK(b)'
    BY <1>3, <2>1, <2>2 DEF PhaseOK
  <2>4. BegunOK(b)'
    BY <1>1, <1>2, <1>3, <1>4, <1>7, <2>1, TaskFacts DEF BegunOK, Still, Fixed
  <2> QED BY <1>8, <1>9, <1>10, <2>3, <2>4 DEF Own
<1> QED BY <1>11, <1>12, AwaitedEffect

LEMMA OutputOwn ==
  ASSUME SubTypeOK, NEW b \in Builders, Own(b), Output(b)
  PROVE  Own(b)'
<1>1. Fixed
  BY AlwaysFixed DEF Acts, BuilderStep
<1>2. PlacesOK(b) /\ JobsOK(b) /\ PhaseOK(b) /\ InUse(b) /\ BegunOK(b) /\ ErrOK(b)
  BY DEF Own
<1>3. /\ spc[b] = "output" /\ spc'[b] = "end" /\ pending[b] = {} /\ ~serr[b]
      /\ UNCHANGED <<task, spool, sjob, procs, pending, compiler, interrupted, objs, strayed>>
  BY <1>2, OutputEffect DEF PhaseOK, SubTypeOK
<1>4. Still(b)
  BY <1>3 DEF Still, Place
<1>5. PlacesOK(b)' /\ JobsOK(b)'
  BY <1>1, <1>2, <1>3, <1>4, StillPlaces, StillJobs, PlaceTypes
<1>6. InUse(b)'
  BY <1>3 DEF InUse
<1>7. \/ output'[b] # "none" /\ UNCHANGED <<serr, trouble>>
      \/ serr'[b] = TRUE /\ trouble'[b] = TRUE
  BY OutputEffect DEF SubTypeOK, Errs
<1>8. PhaseOK(b)' /\ ErrOK(b)'
  BY <1>2, <1>3, <1>7 DEF PhaseOK, ErrOK
<1>9. BegunOK(b)'
  BY <1>1, <1>2, <1>3, <1>4, TaskFacts DEF BegunOK, Still, Fixed
<1> QED BY <1>5, <1>6, <1>8, <1>9 DEF Own

LEMMA ReturnOwn ==
  ASSUME SubTypeOK, NEW b \in Builders, Own(b), Return(b)
  PROVE  Own(b)'
<1>1. Fixed
  BY AlwaysFixed DEF Acts, BuilderStep
<1>2. PlacesOK(b) /\ JobsOK(b) /\ PhaseOK(b) /\ InUse(b) /\ BegunOK(b) /\ ErrOK(b)
  BY DEF Own
<1>3. /\ spc[b] = "end" /\ spc'[b] = "returned" /\ pending[b] = {}
      /\ UNCHANGED <<task, spool, sjob, serr, procs, pending, compiler, interrupted, output, trouble, strayed>>
  BY <1>2, ReturnEffect DEF PhaseOK, SubTypeOK
<1>4. Still(b)
  BY <1>3 DEF Still, Place
<1>5. PlacesOK(b)' /\ JobsOK(b)'
  BY <1>1, <1>2, <1>3, <1>4, StillPlaces, StillJobs, PlaceTypes
<1>6. InUse(b)'
  BY <1>3 DEF InUse
<1>7. PhaseOK(b)' /\ ErrOK(b)'
  BY <1>2, <1>3 DEF PhaseOK, ErrOK
<1>8. BegunOK(b)'
  BY <1>1, <1>2, <1>3, <1>4, TaskFacts DEF BegunOK, Still, Fixed
<1> QED BY <1>5, <1>6, <1>7, <1>8 DEF Own

LEMMA ReapOk ==
  ASSUME SubTypeOK, Fixed, NEW b \in Builders, PlacesOK(b), JobsOK(b), NEW p, NEW j, ReapsOne(b, p, j),
         serr[b] => serr'[b], UNCHANGED <<pending, interrupted>>
  PROVE  PlacesOK(b)' /\ JobsOK(b)'
<1>1. /\ p \in Slots /\ spool[b] \in Pools /\ j \in Jobs /\ j = Place(b, spool[b], p) /\ j # Free
  BY TakenFacts, TaskFacts DEF ReapsOne
<1>2. /\ \A m \in Pools, s \in Slots :
           Place(b, m, s)' = IF m = spool[b] /\ s = p THEN Free ELSE Place(b, m, s)
      /\ \A k \in Jobs : compiler'[b][k] = IF k = j THEN "reaped" ELSE compiler[b][k]
  BY DEF ReapsOne, PlaceSet, CompilerSet
<1>3. ASSUME NEW i \in Pools, NEW s \in Slots, Place(b, i, s)' # Free
      PROVE  /\ Place(b, i, s)' = Place(b, i, s) /\ Place(b, i, s) # Free
             /\ i \in pending'[b] /\ compiler'[b][Place(b, i, s)'] \notin {"none", "reaped"}
  <2>1. Place(b, i, s)' = Place(b, i, s) /\ ~(i = spool[b] /\ s = p)
    BY <1>2, <1>3
  <2>2. Place(b, i, s) # j
    BY <1>1, <1>3, <2>1 DEF PlacesOK
  <2>3. i \in pending[b] /\ compiler[b][Place(b, i, s)] \notin {"none", "reaped"} /\ Place(b, i, s) \in Jobs
    BY <1>3, <2>1, PlaceTypes DEF PlacesOK
  <2> QED BY <1>2, <1>3, <2>1, <2>2, <2>3
<1>4. ASSUME NEW i \in Pools, NEW m \in Pools, NEW s \in Slots, NEW u \in Slots,
             Place(b, i, s)' = Place(b, m, u)', Place(b, i, s)' # Free
      PROVE  i = m /\ s = u
  BY <1>3, <1>4 DEF PlacesOK
<1>5. PlacesOK(b)'
  BY <1>3, <1>4 DEF PlacesOK, Fixed
<1>6. ASSUME NEW k \in Jobs
      PROVE  \/ compiler'[b][k] \in {"none", "reaped"}
             \/ \E i \in Pools, s \in Slots : Place(b, i, s)' = k
             \/ serr'[b] /\ k \in interrupted'[b]
  <2>1. CASE k = j
    BY <1>2, <2>1
  <2>2. CASE k # j
    <3>1. compiler'[b][k] = compiler[b][k]
      BY <1>2, <2>2
    <3>2. ASSUME NEW i \in Pools, NEW s \in Slots, Place(b, i, s) = k
          PROVE  Place(b, i, s)' = k
      BY <1>1, <1>2, <2>2, <3>2
    <3> QED BY <3>1, <3>2 DEF JobsOK, Held
  <2> QED BY <2>1, <2>2
<1>7. JobsOK(b)'
  BY <1>6 DEF JobsOK, Held, Fixed
<1> QED BY <1>5, <1>7

\* Other promises are left alone, and who was started stays so.
LEMMA ReapRest ==
  ASSUME SubTypeOK, Fixed, NEW b \in Builders, NEW p, NEW j, ReapsOne(b, p, j)
  PROVE  /\ \A i \in Pools : i # spool[b] /\ Occupied(b, i) => \E s \in Slots : Place(b, i, s)' # Free
         /\ \A k \in Jobs : compiler'[b][k] # "none" <=> compiler[b][k] # "none"
BY DEF ReapsOne, PlaceSet, CompilerSet, Occupied

LEMMA SpawnOk ==
  ASSUME SubTypeOK, Fixed, NEW b \in Builders, PlacesOK(b), JobsOK(b),
         NEW p \in Slots \ Taken(b), NEW j \in Jobs,
         PlaceSet(b, spool[b], p, j), CompilerSet(b, j, "running"), compiler[b][j] = "none",
         spool[b] \in pending[b], UNCHANGED <<pending, interrupted, serr>>
  PROVE  PlacesOK(b)' /\ JobsOK(b)'
<1>1. p \in Slots /\ spool[b] \in Pools /\ Place(b, spool[b], p) = Free /\ j # Free
  BY TakenFacts, TaskFacts DEF Taken
<1>2. /\ \A m \in Pools, s \in Slots :
           Place(b, m, s)' = IF m = spool[b] /\ s = p THEN j ELSE Place(b, m, s)
      /\ \A k \in Jobs : compiler'[b][k] = IF k = j THEN "running" ELSE compiler[b][k]
  BY DEF PlaceSet, CompilerSet
<1>3. \A m \in Pools, s \in Slots : Place(b, m, s) # j
  BY <1>1 DEF PlacesOK
<1>4. ASSUME NEW i \in Pools, NEW s \in Slots, Place(b, i, s)' # Free
      PROVE  i \in pending'[b] /\ compiler'[b][Place(b, i, s)'] \notin {"none", "reaped"}
  <2>1. CASE i = spool[b] /\ s = p
    BY <1>2, <2>1
  <2>2. CASE ~(i = spool[b] /\ s = p)
    <3>1. Place(b, i, s)' = Place(b, i, s) /\ Place(b, i, s) # j
      BY <1>2, <1>3, <2>2
    <3>2. i \in pending[b] /\ compiler[b][Place(b, i, s)] \notin {"none", "reaped"} /\ Place(b, i, s) \in Jobs
      BY <1>4, <3>1, PlaceTypes DEF PlacesOK
    <3> QED BY <1>2, <3>1, <3>2
  <2> QED BY <2>1, <2>2
<1>5. ASSUME NEW i \in Pools, NEW m \in Pools, NEW s \in Slots, NEW u \in Slots,
             Place(b, i, s)' = Place(b, m, u)', Place(b, i, s)' # Free
      PROVE  i = m /\ s = u
  BY <1>2, <1>3, <1>5 DEF PlacesOK
<1>6. PlacesOK(b)'
  BY <1>4, <1>5 DEF PlacesOK, Fixed
<1>7. ASSUME NEW k \in Jobs
      PROVE  \/ compiler'[b][k] \in {"none", "reaped"}
             \/ \E i \in Pools, s \in Slots : Place(b, i, s)' = k
             \/ serr'[b] /\ k \in interrupted'[b]
  <2>1. CASE k = j
    BY <1>1, <1>2, <2>1
  <2>2. CASE k # j
    <3>1. compiler'[b][k] = compiler[b][k] /\ k # Free
      BY <1>2, <2>2, TaskFacts
    <3>2. ASSUME NEW i \in Pools, NEW s \in Slots, Place(b, i, s) = k
          PROVE  Place(b, i, s)' = k
      BY <1>1, <1>2, <3>1, <3>2
    <3> QED BY <3>1, <3>2 DEF JobsOK, Held
  <2> QED BY <2>1, <2>2
<1>8. JobsOK(b)'
  BY <1>7 DEF JobsOK, Held, Fixed
<1> QED BY <1>6, <1>8

LEMMA SpawnOwn ==
  ASSUME SubTypeOK, NEW b \in Builders, Own(b), Spawn(b)
  PROVE  Own(b)'
<1>1. Fixed
  BY AlwaysFixed DEF Acts, BuilderStep
<1>2. PlacesOK(b) /\ JobsOK(b) /\ PhaseOK(b) /\ InUse(b) /\ BegunOK(b) /\ ErrOK(b)
  BY DEF Own
<1>3. /\ spc[b] = "spawn" /\ ~serr[b] /\ pending[b] = 1..spool[b] /\ output[b] = "none"
      /\ sjob[b] \in 1..JobCount(spool[b]) /\ spool[b] \in Pools /\ spool[b] \in pending[b]
      /\ UNCHANGED <<task, spool, pending, interrupted, objs, output, strayed>>
  <2>1. /\ spc[b] = "spawn" /\ sjob[b] \in 1..JobCount(spool[b])
        /\ UNCHANGED <<task, spool, pending, interrupted, objs, output, strayed>>
    BY <1>2, SpawnEffect
  <2>2. ~serr[b] /\ pending[b] = 1..spool[b] /\ output[b] = "none"
    BY <1>2, <2>1 DEF PhaseOK
  <2>3. spool[b] \in Pools /\ spool[b] \in 1..spool[b]
    BY PlaceTypes
  <2> QED BY <2>1, <2>2, <2>3
<1> DEFINE j == JobAt(spool[b], sjob[b])
<1>4. j \in Jobs /\ compiler[b][j] = "none"
  <2>1. ~Begun(b, spool[b], sjob[b])
    BY <1>3, PlaceTypes DEF Begun
  <2> QED BY <2>1, <1>2, <1>3, TaskFacts DEF BegunOK
<1>5. CASE /\ \E p \in Slots \ Taken(b) : PlaceSet(b, spool[b], p, j)
           /\ CompilerSet(b, j, "running")
           /\ sjob' = [sjob EXCEPT ![b] = sjob[b] + 1]
           /\ UNCHANGED <<spc, serr, trouble>>
  <2>1. PICK p \in Slots \ Taken(b) : PlaceSet(b, spool[b], p, j)
    BY <1>5
  <2>2. sjob'[b] = sjob[b] + 1 /\ CompilerSet(b, j, "running") /\ UNCHANGED <<spc, serr, trouble>>
    BY <1>5 DEF SubTypeOK
  <2> HIDE DEF j
  <2>3. PlacesOK(b)' /\ JobsOK(b)'
    BY <1>1, <1>2, <1>3, <1>4, <2>1, <2>2, SpawnOk
  <2>4. PhaseOK(b)'
    <3>1. sjob'[b] \in 1..(JobCount(spool[b]) + 1)
      BY <1>3, <2>2, PlaceTypes
    <3> QED BY <1>1, <1>3, <2>2, <3>1 DEF PhaseOK, Fixed
  <2>5. InUse(b)'
    <3>1. ASSUME NEW i \in pending[b], i # spool[b] \/ sjob'[b] > JobCount(i)
          PROVE  \E s \in Slots : Place(b, i, s)' # Free
      <4>1. i \in Pools
        BY PlaceTypes
      <4>2. CASE i # spool[b]
        BY <1>2, <2>1, <4>1, <4>2 DEF PlaceSet, InUse, Occupied
      <4>3. CASE i = spool[b]
        BY <1>4, <2>1, <4>1, <4>3, TaskFacts DEF PlaceSet
      <4> QED BY <4>2, <4>3
    <3> QED BY <3>1, <1>1, <1>3, <2>2 DEF InUse, Occupied, Fixed
  <2>6. BegunOK(b)'
    <3>1. ASSUME NEW i \in Pools, NEW k \in 1..JobCount(i)
          PROVE  compiler'[b][JobAt(i, k)] # "none" <=> i < spool[b] \/ (i = spool[b] /\ k < sjob'[b])
      <4>1. JobAt(i, k) \in Jobs
        BY TaskFacts
      <4>2. compiler[b][JobAt(i, k)] # "none" <=> i < spool[b] \/ (i = spool[b] /\ k < sjob[b])
        BY <1>2, <1>3 DEF BegunOK, Begun
      <4>3. CASE i = spool[b] /\ k = sjob[b]
        <5>1. JobAt(i, k) = j
          BY <4>3 DEF j
        <5> QED BY <5>1, <4>1, <2>2, <4>3, PlaceTypes DEF CompilerSet
      <4>4. CASE ~(i = spool[b] /\ k = sjob[b])
        <5>1. JobAt(i, k) # j
          BY <4>4, <1>3, TaskFacts DEF j
        <5>2. compiler'[b][JobAt(i, k)] = compiler[b][JobAt(i, k)]
          BY <5>1, <4>1, <2>2 DEF CompilerSet
        <5>3. i = spool[b] => (k < sjob[b] <=> k < sjob[b] + 1)
          BY <4>4, <1>3, PlaceTypes
        <5> QED BY <4>2, <5>2, <5>3, <2>2
      <4> QED BY <4>3, <4>4
    <3> QED BY <3>1, <1>1, <1>3, <2>2 DEF BegunOK, Begun, Fixed
  <2> QED BY <1>2, <2>2, <2>3, <2>4, <2>5, <2>6 DEF Own, ErrOK
<1>6. CASE /\ Errs(b)
           /\ spc' = [spc EXCEPT ![b] = "cancel"]
           /\ UNCHANGED <<procs, compiler, sjob>>
  <2>1. serr'[b] = TRUE /\ trouble'[b] = TRUE /\ spc'[b] = "cancel" /\ Still(b)
    BY <1>6 DEF Errs, SubTypeOK, Still, Place
  <2>2. PlacesOK(b)' /\ JobsOK(b)'
    BY <1>1, <1>2, <1>3, <2>1, StillPlaces, StillJobs, PlaceTypes
  <2>3. PhaseOK(b)'
    BY <1>3, <2>1 DEF PhaseOK
  <2>4. InUse(b)'
    <3>1. ASSUME NEW i \in pending[b], i # spool[b]
          PROVE  \E s \in Slots : Place(b, i, s)' # Free
      BY <1>2, <2>1, <3>1, PlaceTypes DEF InUse, Occupied, Still
    <3> QED BY <3>1, <1>1, <1>3, <2>1 DEF InUse, Occupied, Fixed
  <2>5. BegunOK(b)'
    BY <2>1 DEF BegunOK
  <2> QED BY <2>1, <2>2, <2>3, <2>4, <2>5 DEF Own, ErrOK
<1> QED BY <1>2, <1>5, <1>6, SpawnEffect

LEMMA AwaitOneOwn ==
  ASSUME SubTypeOK, NEW b \in Builders, Own(b), AwaitOne(b)
  PROVE  Own(b)'
<1>1. Fixed
  BY AlwaysFixed DEF Acts, BuilderStep
<1>2. PlacesOK(b) /\ JobsOK(b) /\ PhaseOK(b) /\ InUse(b) /\ BegunOK(b) /\ ErrOK(b)
  BY DEF Own
<1>3. /\ spc[b] = "spawn" /\ ~serr[b] /\ pending[b] = 1..spool[b] /\ output[b] = "none"
      /\ sjob[b] <= JobCount(spool[b]) /\ sjob[b] \in 1..(JobCount(spool[b]) + 1)
      /\ UNCHANGED <<task, spool, sjob, pending, interrupted, objs, output, strayed>>
  BY <1>2, AwaitOneEffect DEF PhaseOK
<1>4. PICK p, j : /\ ReapsOne(b, p, j)
                  /\ IF compiler[b][j] = "failed"
                     THEN Errs(b) /\ spc' = [spc EXCEPT ![b] = "cancel"]
                     ELSE UNCHANGED <<spc, serr, trouble>>
  BY AwaitOneEffect
<1>5. \/ serr'[b] = TRUE /\ trouble'[b] = TRUE /\ spc'[b] = "cancel"
      \/ serr'[b] = serr[b] /\ trouble'[b] = trouble[b] /\ spc'[b] = "spawn"
  <2>1. CASE compiler[b][j] = "failed"
    BY <1>4, <2>1 DEF Errs, SubTypeOK
  <2>2. CASE compiler[b][j] # "failed"
    BY <1>3, <1>4, <2>2
  <2> QED BY <2>1, <2>2
<1>6. PlacesOK(b)' /\ JobsOK(b)'
  <2>1. serr[b] => serr'[b]
    BY <1>3
  <2> QED BY <1>1, <1>2, <1>3, <1>4, <2>1, ReapOk
<1>7. /\ \A i \in Pools : i # spool[b] /\ Occupied(b, i) => \E s \in Slots : Place(b, i, s)' # Free
      /\ \A k \in Jobs : compiler'[b][k] # "none" <=> compiler[b][k] # "none"
  BY <1>1, <1>4, ReapRest
<1>8. PhaseOK(b)'
  BY <1>1, <1>3, <1>5 DEF PhaseOK, Fixed
<1>9. InUse(b)'
  <2>1. ASSUME NEW i \in pending[b], i # spool[b]
        PROVE  \E s \in Slots : Place(b, i, s)' # Free
    BY <1>2, <1>7, <2>1, PlaceTypes DEF InUse
  <2>2. ~(sjob[b] > JobCount(spool[b]))
    BY <1>3, PlaceTypes
  <2> QED BY <2>1, <2>2, <1>1, <1>3, <1>5 DEF InUse, Occupied, Fixed
<1>10. BegunOK(b)'
  <2>1. CASE serr'[b] = TRUE /\ spc'[b] = "cancel"
    BY <2>1 DEF BegunOK
  <2>2. CASE spc'[b] = "spawn"
    BY <1>1, <1>2, <1>3, <1>7, <2>2, TaskFacts DEF BegunOK, Begun, Fixed
  <2> QED BY <1>5, <2>1, <2>2
<1> QED BY <1>2, <1>5, <1>6, <1>8, <1>9, <1>10 DEF Own, ErrOK

LEMMA AwaitOwn ==
  ASSUME SubTypeOK, NEW b \in Builders, Own(b), Await(b)
  PROVE  Own(b)'
<1>1. Fixed
  BY AlwaysFixed DEF Acts, BuilderStep
<1>2. PlacesOK(b) /\ JobsOK(b) /\ PhaseOK(b) /\ InUse(b) /\ BegunOK(b) /\ ErrOK(b)
  BY DEF Own
<1>3. /\ spc[b] = "await" /\ sjob' = [sjob EXCEPT ![b] = sjob[b] + 1]
      /\ UNCHANGED <<task, spc, spool, pending, interrupted, objs, output, strayed>>
  BY AwaitEffect
<1>4. PICK p, j : /\ ReapsOne(b, p, j)
                  /\ serr' = [serr EXCEPT ![b] = serr[b] \/ compiler[b][j] = "failed"]
                  /\ trouble' = [trouble EXCEPT ![b] = trouble[b] \/ compiler[b][j] = "failed"]
  BY AwaitEffect
<1>5. (serr[b] => serr'[b]) /\ serr'[b] = trouble'[b]
  <2>1. serr \in [Builders -> BOOLEAN] /\ trouble \in [Builders -> BOOLEAN] /\ serr[b] = trouble[b]
    BY <1>2 DEF SubTypeOK, ErrOK
  <2>2. /\ serr'[b] = (serr[b] \/ compiler[b][j] = "failed")
        /\ trouble'[b] = (trouble[b] \/ compiler[b][j] = "failed")
    BY <1>4, <2>1
  <2> QED BY <2>1, <2>2, Zenon
<1>6. PlacesOK(b)' /\ JobsOK(b)'
  BY <1>1, <1>2, <1>3, <1>4, <1>5, ReapOk
<1>7. /\ \A i \in Pools : i # spool[b] /\ Occupied(b, i) => \E s \in Slots : Place(b, i, s)' # Free
      /\ \A k \in Jobs : compiler'[b][k] # "none" <=> compiler[b][k] # "none"
  BY <1>1, <1>4, ReapRest
<1>8. PhaseOK(b)'
  BY <1>2, <1>3 DEF PhaseOK
<1>9. InUse(b)'
  <2>1. ASSUME NEW i \in pending[b], i # spool[b]
        PROVE  \E s \in Slots : Place(b, i, s)' # Free
    BY <1>2, <1>7, <2>1, PlaceTypes DEF InUse
  <2>2. sjob'[b] # 0
    <3>1. sjob'[b] = sjob[b] + 1 /\ sjob[b] \in Nat
      BY <1>3 DEF SubTypeOK
    <3> QED BY <3>1
  <2> QED BY <2>1, <2>2, <1>1, <1>3 DEF InUse, Occupied, Fixed
<1>10. BegunOK(b)'
  BY <1>1, <1>2, <1>3, <1>5, <1>7, TaskFacts DEF BegunOK, Fixed
<1> QED BY <1>5, <1>6, <1>8, <1>9, <1>10 DEF Own, ErrOK

LEMMA CancelOwn ==
  ASSUME SubTypeOK, NEW b \in Builders, Own(b), Cancel(b)
  PROVE  Own(b)'
<1>1. Fixed
  BY AlwaysFixed DEF Acts, BuilderStep
<1>2. PlacesOK(b) /\ JobsOK(b) /\ PhaseOK(b) /\ InUse(b) /\ BegunOK(b) /\ ErrOK(b)
  BY DEF Own
<1>3. /\ spc[b] = "cancel" /\ serr[b] /\ pending[b] = 1..spool[b] /\ output[b] = "none"
      /\ PlacesLeft(b, spool[b]) /\ Told(b, spool[b])
      /\ UNCHANGED <<task, serr, compiler, objs, output, trouble, strayed>>
  BY <1>2, CancelEffect DEF PhaseOK
<1>4. /\ interrupted[b] \subseteq interrupted'[b] /\ pending'[b] = pending[b] \ {spool[b]}
      /\ spool'[b] = 1 /\ sjob'[b] = 0 /\ spc'[b] = "await"
  <2>1. PICK I : /\ interrupted[b] \subseteq I /\ interrupted' = [interrupted EXCEPT ![b] = I]
    BY CancelEffect
  <2>2. /\ pending' = [pending EXCEPT ![b] = pending[b] \ {spool[b]}]
        /\ spool' = [spool EXCEPT ![b] = 1] /\ sjob' = [sjob EXCEPT ![b] = 0]
        /\ spc' = [spc EXCEPT ![b] = "await"]
    BY CancelEffect
  <2> QED BY <2>1, <2>2 DEF SubTypeOK
<1>5. \A m \in Pools, s \in Slots : Place(b, m, s)' = IF m = spool[b] THEN Free ELSE Place(b, m, s)
  BY <1>3 DEF PlacesLeft
<1>6. PlacesOK(b)'
  <2>1. ASSUME NEW i \in Pools, NEW s \in Slots, Place(b, i, s)' # Free
        PROVE  /\ Place(b, i, s)' = Place(b, i, s)
               /\ i \in pending'[b] /\ compiler'[b][Place(b, i, s)'] \notin {"none", "reaped"}
    BY <1>2, <1>3, <1>4, <1>5, <2>1 DEF PlacesOK
  <2>2. ASSUME NEW i \in Pools, NEW m \in Pools, NEW s \in Slots, NEW u \in Slots,
               Place(b, i, s)' = Place(b, m, u)', Place(b, i, s)' # Free
        PROVE  i = m /\ s = u
    BY <1>2, <2>1, <2>2 DEF PlacesOK
  <2> QED BY <2>1, <2>2, <1>1 DEF PlacesOK, Fixed
<1>7. JobsOK(b)'
  <2>1. ASSUME NEW k \in Jobs
        PROVE  \/ compiler'[b][k] \in {"none", "reaped"}
               \/ \E i \in Pools, s \in Slots : Place(b, i, s)' = k
               \/ serr'[b] /\ k \in interrupted'[b]
    <3>1. CASE \E s \in Slots : Place(b, spool[b], s) = k
      BY <1>3, <3>1 DEF Told
    <3>2. CASE ~\E s \in Slots : Place(b, spool[b], s) = k
      BY <1>2, <1>3, <1>4, <1>5, <3>2 DEF JobsOK, Held
    <3> QED BY <3>1, <3>2
  <2> QED BY <2>1, <1>1 DEF JobsOK, Held, Fixed
<1>8. PhaseOK(b)' /\ BegunOK(b)' /\ ErrOK(b)'
  <2>1. serr'[b] /\ serr'[b] = serr[b] /\ trouble'[b] = trouble[b] /\ output'[b] = "none"
    BY <1>3
  <2>2. pending'[b] \cap 1..(spool'[b] - 1) = {}
    BY <1>4
  <2>3. PhaseOK(b)'
    BY <2>1, <2>2, <1>4 DEF PhaseOK
  <2>4. BegunOK(b)' /\ ErrOK(b)'
    BY <2>1, <1>2, <1>4 DEF BegunOK, ErrOK
  <2> QED BY <2>3, <2>4
<1>9. InUse(b)'
  <2>1. ASSUME NEW i \in pending'[b]
        PROVE  \E s \in Slots : Place(b, i, s)' # Free
    <3>1. i \in Pools /\ i \in pending[b] /\ i # spool[b]
      BY <1>4, PlaceTypes
    <3> QED BY <1>2, <1>5, <3>1 DEF InUse, Occupied
  <2> QED BY <2>1, <1>1 DEF InUse, Occupied, Fixed
<1> QED BY <1>6, <1>7, <1>8, <1>9 DEF Own

LEMMA CompileOwn ==
  ASSUME SubTypeOK, NEW b \in Builders, Own(b), NEW j \in Jobs, Compile(b, j)
  PROVE  Own(b)'
<1>1. Fixed
  BY AlwaysFixed DEF Acts
<1>2. PlacesOK(b) /\ JobsOK(b) /\ PhaseOK(b) /\ InUse(b) /\ BegunOK(b) /\ ErrOK(b)
  BY DEF Own
<1>3. /\ compiler[b][j] \in Alive
      /\ UNCHANGED <<task, spc, spool, sjob, serr, procs, pending, interrupted, output, trouble, strayed>>
  BY CompileEffect
<1>4. PICK l \in {"writing", "exited", "failed"} : CompilerSet(b, j, l)
  BY CompileEffect
<1>5. /\ \A k \in Jobs : compiler'[b][k] # "none" <=> compiler[b][k] # "none"
      /\ \A k \in Jobs : compiler'[b][k] \in {"none", "reaped"} <=> compiler[b][k] \in {"none", "reaped"}
  BY <1>3, <1>4 DEF CompilerSet, Alive
<1>6. \A m \in Pools, s \in Slots : Place(b, m, s)' = Place(b, m, s)
  BY <1>3 DEF Place
<1>7. PlacesOK(b)'
  <2>1. ASSUME NEW i \in Pools, NEW s \in Slots, Place(b, i, s) # Free
        PROVE  i \in pending'[b] /\ compiler'[b][Place(b, i, s)] \notin {"none", "reaped"}
    BY <1>2, <1>3, <1>5, <2>1, PlaceTypes DEF PlacesOK
  <2>2. ASSUME NEW i \in Pools, NEW m \in Pools, NEW s \in Slots, NEW u \in Slots,
               Place(b, i, s)' = Place(b, m, u)', Place(b, i, s)' # Free
        PROVE  i = m /\ s = u
    BY <1>2, <1>6, <2>2 DEF PlacesOK
  <2> QED BY <2>1, <2>2, <1>1, <1>6 DEF PlacesOK, Fixed
<1>8. JobsOK(b)'
  BY <1>1, <1>2, <1>3, <1>5, <1>6 DEF JobsOK, Held, Fixed
<1>9. PhaseOK(b)' /\ ErrOK(b)'
  BY <1>1, <1>2, <1>3 DEF PhaseOK, ErrOK, Fixed
<1>10. InUse(b)'
  <2>1. ASSUME NEW i \in pending[b], Occupied(b, i)
        PROVE  \E s \in Slots : Place(b, i, s)' # Free
    BY <1>6, <2>1, PlaceTypes DEF Occupied
  <2> QED BY <2>1, <1>1, <1>2, <1>3 DEF InUse, Occupied, Fixed
<1>11. BegunOK(b)'
  BY <1>1, <1>2, <1>3, <1>5, TaskFacts DEF BegunOK, Begun, Fixed
<1> QED BY <1>7, <1>8, <1>9, <1>10, <1>11 DEF Own

-----------------------------------------------------------------------------
(* What it does to the others: nothing.                                      *)

Same(c) ==
  /\ Still(c)
  /\ spc'[c] = spc[c] /\ spool'[c] = spool[c] /\ sjob'[c] = sjob[c] /\ serr'[c] = serr[c]
  /\ pending'[c] = pending[c] /\ interrupted'[c] = interrupted[c]
  /\ output'[c] = output[c] /\ trouble'[c] = trouble[c] /\ strayed'[c] = strayed[c]

LEMMA OthersSame ==
  ASSUME SubTypeOK, NEW b \in Builders, PhaseOK(b), Acts(b), NEW c \in Builders, c # b
  PROVE  SubTypeOK' /\ Same(c)
<1> USE DEF Same, Still
<1>1. CASE Begin(b)
  BY <1>1, BeginEffect DEF SubTypeOK, Place
<1>2. CASE Create(b)
  <2>1. SubTypeOK' /\ UNCHANGED <<task, procs, compiler, interrupted, objs, output, strayed>>
    BY <1>2, CreateEffect
  <2>2. CASE /\ spc' = [spc EXCEPT ![b] = "spawn"]
             /\ pending' = [pending EXCEPT ![b] = pending[b] \cup {spool[b]}]
             /\ UNCHANGED <<serr, spool, sjob, trouble>>
    BY <2>1, <2>2 DEF SubTypeOK, Place
  <2>3. CASE /\ spc' = [spc EXCEPT ![b] = "await"]
             /\ serr' = [serr EXCEPT ![b] = TRUE] /\ trouble' = [trouble EXCEPT ![b] = TRUE]
             /\ spool' = [spool EXCEPT ![b] = 1] /\ sjob' = [sjob EXCEPT ![b] = 0]
             /\ UNCHANGED pending
    BY <2>1, <2>3 DEF SubTypeOK, Place
  <2> QED BY <1>2, <2>2, <2>3, CreateEffect
<1>3. CASE Spawn(b)
  <2>1. /\ \A i \in Pools, s \in Slots : Place(c, i, s)' = Place(c, i, s)
        /\ \A j \in Jobs : compiler'[c][j] = compiler[c][j]
    BY <1>3, SpawnEffect DEF PlaceSet, CompilerSet, Place
  <2>2. /\ SubTypeOK'
        /\ spc'[c] = spc[c] /\ sjob'[c] = sjob[c] /\ serr'[c] = serr[c] /\ trouble'[c] = trouble[c]
        /\ UNCHANGED <<task, spool, pending, interrupted, objs, output, strayed>>
    <3>1. /\ \/ /\ sjob' = [sjob EXCEPT ![b] = sjob[b] + 1]
                /\ UNCHANGED <<spc, serr, trouble>>
             \/ /\ Errs(b)
                /\ spc' = [spc EXCEPT ![b] = "cancel"]
                /\ UNCHANGED sjob
          /\ SubTypeOK' /\ UNCHANGED <<task, spool, pending, interrupted, objs, output, strayed>>
      BY <1>3, SpawnEffect
    <3> QED BY <3>1 DEF SubTypeOK, Errs
  <2> QED BY <2>1, <2>2
<1>4. CASE AwaitOne(b)
  <2>1. PICK p, j : /\ ReapsOne(b, p, j)
                    /\ IF compiler[b][j] = "failed"
                       THEN Errs(b) /\ spc' = [spc EXCEPT ![b] = "cancel"]
                       ELSE UNCHANGED <<spc, serr, trouble>>
    BY <1>4, AwaitOneEffect
  <2>2. /\ \A i \in Pools, s \in Slots : Place(c, i, s)' = Place(c, i, s)
        /\ \A k \in Jobs : compiler'[c][k] = compiler[c][k]
    BY <2>1 DEF ReapsOne, PlaceSet, CompilerSet
  <2>3. spc'[c] = spc[c] /\ serr'[c] = serr[c] /\ trouble'[c] = trouble[c]
    BY <2>1 DEF SubTypeOK, Errs
  <2>4. SubTypeOK' /\ UNCHANGED <<task, spool, sjob, pending, interrupted, objs, output, strayed>>
    BY <1>4, AwaitOneEffect
  <2> QED BY <2>2, <2>3, <2>4
<1>5. CASE Started(b)
  BY <1>5, StartedEffect DEF SubTypeOK, Place
<1>6. CASE Cancel(b)
  <2>1. PICK I : interrupted' = [interrupted EXCEPT ![b] = I]
    BY <1>6, CancelEffect
  <2>2. /\ \A i \in Pools, s \in Slots : Place(c, i, s)' = Place(c, i, s)
        /\ \A k \in Jobs : compiler'[c][k] = compiler[c][k]
    BY <1>6, CancelEffect DEF PlacesLeft
  <2>3. /\ SubTypeOK'
        /\ spc'[c] = spc[c] /\ spool'[c] = spool[c] /\ sjob'[c] = sjob[c] /\ pending'[c] = pending[c]
        /\ UNCHANGED <<task, serr, compiler, objs, output, trouble, strayed>>
    BY <1>6, CancelEffect DEF SubTypeOK
  <2>4. interrupted'[c] = interrupted[c]
    BY <2>1 DEF SubTypeOK
  <2> QED BY <2>2, <2>3, <2>4
<1>7. CASE Await(b)
  <2>1. PICK p, j : /\ ReapsOne(b, p, j)
                    /\ serr' = [serr EXCEPT ![b] = serr[b] \/ compiler[b][j] = "failed"]
                    /\ trouble' = [trouble EXCEPT ![b] = trouble[b] \/ compiler[b][j] = "failed"]
    BY <1>7, AwaitEffect
  <2>2. /\ \A i \in Pools, s \in Slots : Place(c, i, s)' = Place(c, i, s)
        /\ \A k \in Jobs : compiler'[c][k] = compiler[c][k]
    BY <2>1 DEF ReapsOne, PlaceSet, CompilerSet
  <2>3. serr'[c] = serr[c] /\ trouble'[c] = trouble[c]
    BY <2>1 DEF SubTypeOK
  <2>4. /\ SubTypeOK' /\ sjob'[c] = sjob[c]
        /\ UNCHANGED <<task, spc, spool, pending, interrupted, objs, output, strayed>>
    BY <1>7, AwaitEffect DEF SubTypeOK
  <2> QED BY <2>2, <2>3, <2>4
<1>8. CASE Awaited(b)
  <2>1. serr'[c] = serr[c]
    BY <1>8, AwaitedEffect DEF SubTypeOK
  <2>2. pending'[c] = pending[c] /\ sjob'[c] = sjob[c]
    BY <1>8, AwaitedEffect DEF SubTypeOK
  <2>3. spc'[c] = spc[c] /\ spool'[c] = spool[c]
    <3>1. spc \in [Builders -> SubPCs] /\ spool \in [Builders -> Pools]
      BY DEF SubTypeOK
    <3>2. CASE spool' = [spool EXCEPT ![b] = spool[b] + 1] /\ UNCHANGED spc
      BY <3>1, <3>2
    <3>3. CASE /\ UNCHANGED spool
               /\ spc' = [spc EXCEPT ![b] = IF serr'[b] THEN "end" ELSE "output"]
      BY <3>1, <3>3
    <3> QED BY <3>2, <3>3, <1>8, AwaitedEffect
  <2>4. SubTypeOK' /\ UNCHANGED <<task, procs, compiler, interrupted, objs, output, trouble, strayed>>
    BY <1>8, AwaitedEffect
  <2> QED BY <2>1, <2>2, <2>3, <2>4 DEF Place
<1>9. CASE Output(b)
  BY <1>9, OutputEffect DEF SubTypeOK, Place, Errs
<1>10. CASE Return(b)
  BY <1>10, ReturnEffect DEF SubTypeOK, Place
<1>11. CASE \E j \in Jobs : Compile(b, j)
  <2>1. PICK j \in Jobs : Compile(b, j)
    BY <1>11
  <2>2. \A k \in Jobs : compiler'[c][k] = compiler[c][k]
    BY <2>1, CompileEffect DEF CompilerSet
  <2>3. /\ SubTypeOK'
        /\ UNCHANGED <<task, spc, spool, sjob, serr, procs, pending, interrupted, output, trouble, strayed>>
    BY <2>1, CompileEffect
  <2> QED BY <2>2, <2>3 DEF Place
<1> QED BY <1>1, <1>2, <1>3, <1>4, <1>5, <1>6, <1>7, <1>8, <1>9, <1>10, <1>11 DEF Acts, BuilderStep

LEMMA SameOwn ==
  ASSUME SubTypeOK, Fixed, NEW c \in Builders, Same(c), Own(c)
  PROVE  Own(c)'
<1>1. PlacesOK(c) /\ JobsOK(c) /\ PhaseOK(c) /\ InUse(c) /\ BegunOK(c) /\ ErrOK(c) /\ Still(c)
  BY DEF Own, Same
<1>2. /\ spc'[c] = spc[c] /\ spool'[c] = spool[c] /\ sjob'[c] = sjob[c] /\ serr'[c] = serr[c]
      /\ pending'[c] = pending[c] /\ interrupted'[c] = interrupted[c]
      /\ output'[c] = output[c] /\ trouble'[c] = trouble[c]
  BY DEF Same
<1>3. PlacesOK(c)' /\ JobsOK(c)'
  BY <1>1, <1>2, StillPlaces, StillJobs, PlaceTypes
<1>4. PhaseOK(c)' /\ ErrOK(c)'
  BY <1>1, <1>2 DEF PhaseOK, ErrOK, Fixed
<1>5. InUse(c)'
  <2>1. ASSUME NEW i \in pending[c], Occupied(c, i)
        PROVE  \E s \in Slots : Place(c, i, s)' # Free
    BY <1>1, <2>1, PlaceTypes DEF Occupied, Still
  <2> QED BY <2>1, <1>1, <1>2 DEF InUse, Occupied, Fixed
<1>6. BegunOK(c)'
  BY <1>1, <1>2, TaskFacts DEF BegunOK, Begun, Fixed, Still
<1> QED BY <1>3, <1>4, <1>5, <1>6 DEF Own

LEMMA OwnStep ==
  ASSUME SubTypeOK, \A c \in Builders : Own(c), NEW b \in Builders, Acts(b)
  PROVE  \A c \in Builders : Own(c)'
<1>1. Own(b)'
  <2>1. CASE \E j \in Jobs : Compile(b, j)
    BY <2>1, CompileOwn
  <2>2. CASE Begin(b) \/ BuilderStep(b)
    BY <2>2, BeginOwn, CreateOwn, SpawnOwn, AwaitOneOwn, StartedOwn, CancelOwn, AwaitOwn, AwaitedOwn,
       OutputOwn, ReturnOwn DEF BuilderStep
  <2> QED BY <2>1, <2>2 DEF Acts
<1>2. ASSUME NEW c \in Builders, c # b PROVE Own(c)'
  <2>1. Same(c) /\ Fixed
    BY <1>2, OthersSame, AlwaysFixed DEF Own
  <2> QED BY <2>1, SameOwn
<1> QED BY <1>1, <1>2

LEMMA TypeStep ==
  ASSUME SubTypeOK, NEW b \in Builders, PhaseOK(b), Acts(b)
  PROVE  SubTypeOK'
<1>1. CASE \E j \in Jobs : Compile(b, j)
  BY <1>1, CompileEffect
<1>2. CASE Begin(b) \/ BuilderStep(b)
  BY <1>2, BeginEffect, CreateEffect, SpawnEffect, AwaitOneEffect, StartedEffect, CancelEffect, AwaitEffect,
     AwaitedEffect, OutputEffect, ReturnEffect DEF BuilderStep
<1> QED BY <1>1, <1>2 DEF Acts

-----------------------------------------------------------------------------
(* Several builders, and the object files.                                   *)

LEMMA AloneStep ==
  ASSUME SubTypeOK, Alone, NEW b \in Builders, PhaseOK(b), Acts(b)
  PROVE  Alone'
<1>1. \A c \in Builders : c # b => (c \in Busy' <=> c \in Busy)
  BY OthersSame DEF Busy, Same
<1>2. Busy' \subseteq Builders /\ Busy \subseteq Builders
  BY DEF Busy
<1>3. b \in Busy' => Busy = {} \/ b \in Busy
  <2>1. CASE Begin(b)
    BY <2>1, BeginEffect
  <2>2. CASE BuilderStep(b)
    <3>1. spc[b] \notin {"idle", "returned"}
      BY <2>2 DEF BuilderStep, Create, Spawn, AwaitOne, Started, Cancel, Await, Awaited, Output, Return
    <3> QED BY <3>1 DEF Busy
  <2>3. CASE \E j \in Jobs : Compile(b, j)
    BY <2>3, CompileEffect DEF Busy
  <2> QED BY <2>1, <2>2, <2>3 DEF Acts
<1> QED BY <1>1, <1>2, <1>3 DEF Alone

\* A compiler starts only when its builder is busy; while nobody strays, an object file
\* changes only by the compilers of the one that is.
WholeHere(b) ==
  ~serr[b] => \A j \in Jobs : compiler[b][j] \in {"exited", "reaped"} => objs[j] = "whole"
OthersGone(b) == \A c \in Builders \ {b}, j \in Jobs : compiler[c][j] \notin Alive

LEMMA BeginWhole ==
  ASSUME SubTypeOK, NEW b \in Builders, Own(b), Begin(b), ~strayed'[b]
  PROVE  OthersGone(b)' /\ WholeHere(b)'
<1>1. /\ spc[b] = "idle" /\ strayed'[b] = Strangers(b) /\ Jobs' = Jobs
      /\ UNCHANGED <<serr, compiler, objs>>
  BY BeginEffect, SameTask DEF SubTypeOK, Acts
<1>2. OthersGone(b)'
  BY <1>1 DEF OthersGone, Strangers
<1>3. \A j \in Jobs : compiler[b][j] = "none"
  <2>1. spool[b] = 1
    BY <1>1 DEF Own, PhaseOK
  <2>2. ASSUME NEW i \in Pools, NEW k \in 1..JobCount(i)
        PROVE  compiler[b][JobAt(i, k)] = "none"
    <3>1. ~Begun(b, i, k)
      BY <1>1, <2>1, PlaceTypes DEF Begun
    <3> QED BY <3>1, <1>1 DEF Own, BegunOK
  <2> QED BY <2>2, TaskFacts
<1> QED BY <1>1, <1>2, <1>3 DEF WholeHere

LEMMA OwnWhole ==
  ASSUME SubTypeOK, NEW b \in Builders, Own(b), OthersGone(b), WholeHere(b), b \in Busy', Acts(b), ~Begin(b)
  PROVE  OthersGone(b)' /\ WholeHere(b)'
<1>1. Jobs' = Jobs
  BY SameTask
<1>2. OthersGone(b)'
  BY <1>1, OthersSame DEF OthersGone, Same, Still, Own
<1>3. CASE Create(b) \/ Started(b) \/ Cancel(b) \/ Output(b)
  <2>1. UNCHANGED <<compiler, objs>>
    BY <1>3, CreateEffect, StartedEffect, CancelEffect, OutputEffect DEF Own
  <2>2. serr[b] => serr'[b]
    BY <1>3, CreateEffect, StartedEffect, CancelEffect, OutputEffect DEF Own, SubTypeOK, Errs
  <2> QED BY <1>1, <1>2, <2>1, <2>2 DEF WholeHere
<1>4. CASE Awaited(b)
  <2>1. UNCHANGED <<compiler, objs>>
    BY <1>4, AwaitedEffect
  <2>2. serr[b] => serr'[b]
    <3>1. serr' = [serr EXCEPT ![b] = serr[b] \/ (spool[b] \in pending[b] /\ sjob[b] = 0)]
      BY <1>4, AwaitedEffect
    <3> QED BY <3>1 DEF SubTypeOK
  <2> QED BY <1>1, <1>2, <2>1, <2>2 DEF WholeHere
<1>5. CASE Spawn(b)
  <2>1. objs' = objs /\ (serr[b] => serr'[b])
    BY <1>5, SpawnEffect DEF Own, SubTypeOK, Errs
  <2>2. \A j \in Jobs : compiler'[b][j] = compiler[b][j] \/ compiler'[b][j] = "running"
    BY <1>5, SpawnEffect DEF Own, CompilerSet
  <2> QED BY <1>1, <1>2, <2>1, <2>2 DEF WholeHere
<1>6. CASE AwaitOne(b)
  <2>1. PICK p, j : /\ ReapsOne(b, p, j)
                    /\ IF compiler[b][j] = "failed"
                       THEN Errs(b) /\ spc' = [spc EXCEPT ![b] = "cancel"]
                       ELSE UNCHANGED <<spc, serr, trouble>>
    BY <1>6, AwaitOneEffect
  <2>2. objs' = objs
    BY <1>6, AwaitOneEffect
  <2>3. serr'[b] = TRUE \/ (serr'[b] = serr[b] /\ compiler[b][j] = "exited")
    BY <2>1 DEF ReapsOne, Errs, SubTypeOK
  <2>4. \A k \in Jobs : compiler'[b][k] = IF k = j THEN "reaped" ELSE compiler[b][k]
    BY <2>1 DEF ReapsOne, CompilerSet
  <2> QED BY <1>1, <1>2, <2>2, <2>3, <2>4 DEF WholeHere
<1>7. CASE Await(b)
  <2>1. PICK p, j : /\ ReapsOne(b, p, j)
                    /\ serr' = [serr EXCEPT ![b] = serr[b] \/ compiler[b][j] = "failed"]
    BY <1>7, AwaitEffect
  <2>2. objs' = objs
    BY <1>7, AwaitEffect
  <2>3. ~serr'[b] => ~serr[b] /\ compiler[b][j] = "exited"
    <3>1. serr'[b] = (serr[b] \/ compiler[b][j] = "failed")
      BY <2>1 DEF SubTypeOK
    <3> QED BY <2>1, <3>1 DEF ReapsOne
  <2>4. \A k \in Jobs : compiler'[b][k] = IF k = j THEN "reaped" ELSE compiler[b][k]
    BY <2>1 DEF ReapsOne, CompilerSet
  <2> QED BY <1>1, <1>2, <2>2, <2>3, <2>4 DEF WholeHere
<1>8. CASE Return(b)
  BY <1>8, ReturnEffect DEF Busy, SubTypeOK
<1>9. CASE \E j \in Jobs : Compile(b, j)
  <2>1. PICK j \in Jobs : Compile(b, j)
    BY <1>9
  <2>2. PICK l \in {"writing", "exited", "failed"}, o \in {"absent", "partial", "whole"} :
              /\ CompilerSet(b, j, l) /\ objs' = [objs EXCEPT ![j] = o]
              /\ l = "exited" => o = "whole"
    BY <2>1, CompileEffect
  <2>3. serr'[b] = serr[b]
    BY <2>1, CompileEffect
  <2>4. \A k \in Jobs : objs'[k] = IF k = j THEN o ELSE objs[k]
    BY <2>2 DEF SubTypeOK
  <2>5. \A k \in Jobs : compiler'[b][k] = IF k = j THEN l ELSE compiler[b][k]
    BY <2>2 DEF CompilerSet
  <2> QED BY <1>1, <1>2, <2>2, <2>3, <2>4, <2>5 DEF WholeHere
<1> QED BY <1>3, <1>4, <1>5, <1>6, <1>7, <1>8, <1>9 DEF Acts, BuilderStep

\* The compiler of another: there is none while b does not stray.
LEMMA OtherWhole ==
  ASSUME SubTypeOK, Alone, NEW b \in Builders, Own(b), Acts(b), NEW c \in Builders, c # b, c \in Busy,
         OthersGone(c), WholeHere(c)
  PROVE  OthersGone(c)' /\ WholeHere(c)'
<1>1. Jobs' = Jobs
  BY SameTask
<1>2. ~(\E j \in Jobs : Compile(b, j))
  BY CompileEffect DEF OthersGone
<1>3. b \notin Busy
  BY DEF Alone
<1>4. ~BuilderStep(b)
  <2>1. SUFFICES ASSUME BuilderStep(b) PROVE FALSE
    OBVIOUS
  <2>2. spc[b] \notin {"idle", "returned"}
    BY <2>1 DEF BuilderStep, Create, Spawn, AwaitOne, Started, Cancel, Await, Awaited, Output, Return
  <2> QED BY <2>2, <1>3 DEF Busy
<1>5. ~Begin(b)
  BY BeginEffect
<1> QED BY <1>2, <1>4, <1>5 DEF Acts

LEMMA WholeStep ==
  ASSUME SubTypeOK, Alone, WholeOK, NEW b \in Builders, Own(b), Acts(b)
  PROVE  WholeOK'
<1>1. ASSUME NEW c \in Builders, c \in Busy', ~strayed'[c]
      PROVE  OthersGone(c)' /\ WholeHere(c)'
  <2>1. CASE c = b /\ Begin(b)
    BY <1>1, <2>1, BeginWhole
  <2>2. CASE c = b /\ ~Begin(b)
    <3>1. b \in Busy
      <4>1. CASE BuilderStep(b)
        BY <4>1 DEF Busy, BuilderStep, Create, Spawn, AwaitOne, Started, Cancel, Await, Awaited, Output, Return
      <4>2. CASE \E j \in Jobs : Compile(b, j)
        BY <1>1, <2>2, <4>2, CompileEffect DEF Busy
      <4> QED BY <2>2, <4>1, <4>2 DEF Acts
    <3>2. strayed' = strayed
      BY <2>2 DEF Acts, BuilderStep, Create, Spawn, AwaitOne, Started, Cancel, Await, Awaited, Output,
         Return, Compile
    <3>3. OthersGone(b) /\ WholeHere(b)
      BY <1>1, <2>2, <3>1, <3>2 DEF WholeOK, OthersGone, WholeHere
    <3> QED BY <1>1, <2>2, <3>3, OwnWhole
  <2>3. CASE c # b
    <3>1. Same(c)
      BY <2>3, OthersSame DEF Own
    <3>2. c \in Busy /\ ~strayed[c]
      BY <1>1, <3>1 DEF Same, Busy
    <3>3. OthersGone(c) /\ WholeHere(c)
      BY <3>2 DEF WholeOK, OthersGone, WholeHere
    <3> QED BY <2>3, <3>2, <3>3, OtherWhole
  <2> QED BY <2>1, <2>2, <2>3
<1>2. \A c \in Busy' : c \in Builders
  BY DEF Busy
<1> QED BY <1>1, <1>2 DEF WholeOK, OthersGone, WholeHere

LEMMA GoodStep ==
  ASSUME SubTypeOK, WholeOK, OutputGood, NEW b \in Builders, Own(b), Acts(b)
  PROVE  OutputGood'
<1>1. ASSUME NEW c \in Builders, output'[c] = "bad" PROVE strayed'[c]
  <2>1. CASE c # b
    BY <1>1, <2>1, OthersSame DEF Own, Same, OutputGood
  <2>2. CASE c = b /\ Output(b)
    <3>1. spc[b] = "output" /\ output[b] = "none" /\ ~serr[b] /\ pending[b] = {} /\ strayed' = strayed
      BY <2>2, OutputEffect DEF Own, PhaseOK
    <3>2. PICK j \in Jobs : objs[j] # "whole"
      <4>1. output \in [Builders -> {"none", "good", "bad"}] /\ output'[b] = "bad"
        BY <1>1, <2>2 DEF SubTypeOK
      <4>2. ~(output' = [output EXCEPT ![b] = "good"]) /\ ~(output' = output)
        BY <3>1, <4>1
      <4> QED BY <2>2, <4>2, OutputEffect
    <3>3. compiler[b][j] # "none"
      BY <3>1, TaskFacts DEF Own, BegunOK
    <3>4. ~Held(b, j)
      BY <3>1, TaskFacts DEF Own, PlacesOK, Held
    <3>5. compiler[b][j] = "reaped"
      BY <3>1, <3>3, <3>4 DEF Own, JobsOK
    <3>6. b \in Busy
      BY <3>1 DEF Busy
    <3> QED BY <3>1, <3>2, <3>5, <3>6, <2>2 DEF WholeOK
  <2>3. CASE c = b /\ Begin(b)
    BY <1>1, <2>3, BeginEffect DEF Own, PhaseOK
  <2>4. CASE c = b /\ ~Output(b) /\ ~Begin(b)
    <3>1. output' = output /\ strayed' = strayed
      BY <2>4 DEF Acts, BuilderStep, Create, Spawn, AwaitOne, Started, Cancel, Await, Awaited, Return, Compile
    <3> QED BY <1>1, <3>1 DEF OutputGood
  <2> QED BY <2>1, <2>2, <2>3, <2>4
<1> QED BY <1>1 DEF OutputGood

-----------------------------------------------------------------------------
Inv == SubTypeOK /\ (\A b \in Builders : Own(b)) /\ Alone /\ WholeOK /\ OutputGood

LEMMA InitInv ==
  ASSUME SubInit
  PROVE  Inv
<1>1. SubTypeOK
  <2>1. task \in Tasks
    BY DEF SubInit
  <2>2. 1 \in Pools
    <3>1. PICK p : p \in Libraries \cup Packages /\ task.pools = p
      BY <2>1 DEF Tasks
    <3>2. p \in Seq(Seq(STRING)) /\ p # <<>>
      BY <3>1, SubprocsAssumptions
    <3>3. Len(p) \in Nat \ {0}
      BY <3>2, SeqFacts
    <3> QED BY <3>1, <3>3 DEF Pools
  <2> QED BY <2>1, <2>2 DEF SubInit, SubTypeOK, SubPCs
<1>2. ASSUME NEW b \in Builders PROVE Own(b)
  <2>1. /\ spc[b] = "idle" /\ spool[b] = 1 /\ sjob[b] = 1 /\ pending[b] = {} /\ serr[b] = FALSE
        /\ trouble[b] = FALSE /\ output[b] = "none"
        /\ \A i \in Pools, s \in Slots : Place(b, i, s) = Free
        /\ \A j \in Jobs : compiler[b][j] = "none"
    BY DEF SubInit, Place
  <2>2. PlacesOK(b) /\ JobsOK(b) /\ InUse(b) /\ ErrOK(b)
    BY <2>1 DEF PlacesOK, JobsOK, InUse, ErrOK
  <2>3. PhaseOK(b)
    BY <2>1 DEF PhaseOK
  <2>4. BegunOK(b)
    <3>1. ASSUME NEW i \in Pools, NEW k \in 1..JobCount(i)
          PROVE  compiler[b][JobAt(i, k)] = "none" /\ ~Begun(b, i, k)
      BY <1>1, <2>1, TaskFacts, PlaceTypes DEF Begun
    <3> QED BY <3>1, <2>1 DEF BegunOK
  <2> QED BY <2>2, <2>3, <2>4 DEF Own
<1>3. Busy = {}
  BY DEF SubInit, Busy
<1>4. OutputGood
  BY DEF SubInit, OutputGood
<1> QED BY <1>1, <1>2, <1>3, <1>4 DEF Inv, Alone, WholeOK

LEMMA InvStep ==
  ASSUME Inv, [SubNext]_subVars
  PROVE  Inv'
<1>1. CASE UNCHANGED subVars
  <2>1. /\ Pools' = Pools /\ Slots' = Slots /\ Jobs' = Jobs /\ Busy' = Busy
        /\ \A i, k : JobAt(i, k)' = JobAt(i, k) /\ JobCount(i)' = JobCount(i)
        /\ \A b, i, s : Place(b, i, s)' = Place(b, i, s)
    BY <1>1 DEF subVars, Pools, Slots, Jobs, Busy, JobAt, JobCount, Place
  <2>2. SubTypeOK' /\ Alone' /\ WholeOK' /\ OutputGood'
    BY <1>1, <2>1 DEF Inv, subVars, SubTypeOK, Tasks, Alone, WholeOK, OutputGood
  <2>3. ASSUME NEW b \in Builders PROVE Own(b)'
    <3>1. Fixed /\ Same(b)
      BY <1>1, <2>1 DEF Fixed, Same, Still, subVars
    <3> QED BY <3>1, SameOwn DEF Inv
  <2> QED BY <2>2, <2>3 DEF Inv
<1>2. CASE SubNext
  <2>1. PICK b \in Builders : Acts(b)
    BY <1>2 DEF SubNext, Acts
  <2>2. SubTypeOK' /\ Alone' /\ WholeOK' /\ OutputGood'
    BY <2>1, TypeStep, AloneStep, WholeStep, GoodStep DEF Inv, Own
  <2>3. \A c \in Builders : Own(c)'
    BY <2>1, OwnStep DEF Inv
  <2> QED BY <2>2, <2>3 DEF Inv
<1> QED BY <1>1, <1>2

LEMMA AlwaysInv == SubSpec => []Inv
<1>1. SubInit => Inv
  BY InitInv
<1>2. Inv /\ [SubNext]_subVars => Inv'
  BY InvStep
<1> QED BY <1>1, <1>2, PTL DEF SubSpec

-----------------------------------------------------------------------------
(* The theorems.                                                             *)

\* The state has the shape of the code's: pids of jobs in places, promises of the
\* task's subprocs_t.
THEOREM SubTypes == SubSpec => []SubTypeOK
BY AlwaysInv, PTL DEF Inv

\* cbuild_build and build_pkg tell success and failure as they are: serr is trouble,
\* and when there is none every compiler was started, has exited and was awaited.
THEOREM AlwaysResultExact == SubSpec => []ResultExact
<1>1. Inv => ResultExact
  <2>1. ASSUME Inv, NEW b \in Builders, spc[b] = "returned"
        PROVE  /\ serr[b] = trouble[b]
               /\ ~serr[b] => /\ \A j \in Jobs : compiler[b][j] = "reaped"
                              /\ output[b] # "none"
    <3>1. SubTypeOK /\ PlacesOK(b) /\ JobsOK(b) /\ PhaseOK(b) /\ BegunOK(b) /\ ErrOK(b)
      BY <2>1 DEF Inv, Own
    <3>2. pending[b] = {} /\ (~serr[b] => output[b] # "none")
      BY <2>1, <3>1 DEF PhaseOK
    <3>3. ASSUME ~serr[b], NEW j \in Jobs PROVE compiler[b][j] = "reaped"
      <4>1. compiler[b][j] # "none"
        BY <2>1, <3>1, <3>3, TaskFacts DEF BegunOK
      <4>2. ~Held(b, j)
        BY <3>1, <3>2, TaskFacts DEF PlacesOK, Held
      <4> QED BY <3>1, <3>3, <4>1, <4>2 DEF JobsOK
    <3> QED BY <3>1, <3>2, <3>3 DEF ErrOK
  <2> QED BY <2>1 DEF ResultExact
<1> QED BY <1>1, AlwaysInv, PTL

\* What cbuild_create_archive or pkgbuild_link reads is whole, unless a compiler of
\* another builder was at work when this one began.
THEOREM AlwaysOutputGood == SubSpec => []OutputGood
BY AlwaysInv, PTL DEF Inv

\* subprocs_cancel is the only way to leave a compiler behind.
THEOREM AlwaysLeftAreInterrupted == SubSpec => []LeftAreInterrupted
<1>1. Inv => LeftAreInterrupted
  <2>1. ASSUME Inv, NEW b \in Builders, spc[b] \in {"output", "end", "returned"},
               NEW j \in Jobs, compiler[b][j] \in Alive
        PROVE  j \in interrupted[b] /\ serr[b]
    <3>1. SubTypeOK /\ PlacesOK(b) /\ JobsOK(b) /\ PhaseOK(b)
      BY <2>1 DEF Inv, Own
    <3>2. pending[b] = {}
      BY <2>1, <3>1 DEF PhaseOK
    <3>3. ~Held(b, j)
      BY <3>1, <3>2, TaskFacts DEF PlacesOK, Held
    <3> QED BY <2>1, <3>1, <3>3 DEF JobsOK, Alive
  <2> QED BY <2>1 DEF LeftAreInterrupted
<1> QED BY <1>1, AlwaysInv, PTL
=============================================================================
