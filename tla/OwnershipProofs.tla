--------------------------- MODULE OwnershipProofs --------------------------
(***************************************************************************)
(* The ownership analysis decides where the objects of a function end, for *)
(* a body of any length with blocks and branches nested to any depth.      *)
(*                                                                         *)
(* The inductive invariant Inv says of the point where code is added, and  *)
(* of each that ifexpr and blockexpr have saved, which objects every run   *)
(* has alive there (AliveOK), which the generated code has (CAliveOK) and  *)
(* what the liveness variables say (LiveOK); the rest relates the scopes,  *)
(* the frames and the deadsets.  A statement is one of three kinds (a move *)
(* or a definition, a return, a block's beginning); the end of a block or  *)
(* branch keeps Inv because of what the frame has saved.                   *)
(***************************************************************************)
EXTENDS Ownership, FiniteSetTheorems, TLAPS

\* Values are numbered in the order in which they are made; an object has the
\* number of the value that owned it first.
ValuesOK ==
  /\ \A v \in Values : IF v <= nvals THEN obj[v] <= v ELSE obj[v] = v
  /\ deadset \subseteq 1 .. nvals

ScopesOK ==
  /\ Len(scopes) = Len(frames) + 1
  /\ \A i \in DOMAIN scopes :
       /\ scopes[i].owners \subseteq scopes[i].vars /\ scopes[i].vars \subseteq 1 .. nvals
       /\ \A j \in DOMAIN scopes : i # j => scopes[i].vars \cap scopes[j].vars = {}
  /\ ~pt.ret => Top.vars \subseteq Top.owners \cup deadset

\* What was dead at the beginning of a block still is, and is not of that block;
\* the variables that are not dead are owned.
FramesOK ==
  \A i \in DOMAIN frames :
    LET f == frames[i] IN
    /\ ~f.entry.ret
    /\ f.entry_deadset \subseteq deadset
    /\ \A j \in DOMAIN scopes :
         IF j <= i THEN scopes[j].vars \subseteq scopes[j].owners \cup f.entry_deadset
                   ELSE scopes[j].vars \cap f.entry_deadset = {}
    /\ f.kind = "else" => f.entry_deadset \subseteq f.then_deadset /\ f.then_deadset \subseteq 1 .. nvals
    /\ \A j \in DOMAIN frames : i < j => f.entry_deadset \subseteq frames[j].entry_deadset

Injective(A) == \A v, w \in A : obj[v] = obj[w] => v = w
RunsAre(p, A) == \A r \in p.runs : r = Objs(A)
Alive == Owners \ deadset
AliveAt(i) == OwnersTo(i) \ frames[i].entry_deadset
AliveThen(i) == OwnersTo(i) \ frames[i].then_deadset

FramesAliveOK ==
  \A i \in DOMAIN frames :
    /\ Injective(AliveAt(i))
    /\ RunsAre(frames[i].entry, AliveAt(i))
    /\ frames[i].kind = "else" /\ ~frames[i].then.ret => RunsAre(frames[i].then, AliveThen(i))

AliveOK ==
  /\ Injective(Alive)
  /\ ~pt.ret => RunsAre(pt, Alive)
  /\ FramesAliveOK

CRunsAre(p, S) == \A r \in p.cruns : r \ ghost.lost = S \ ghost.lost
Lost(s) == ToSet(s.drops) \subseteq ghost.lost
OnceOutside(d) == \A i, j \in DOMAIN d : d[i] = d[j] /\ d[i] \notin ghost.lost => i = j

FramesCAliveOK ==
  \A i \in DOMAIN frames :
    /\ CRunsAre(frames[i].entry, Objs(AliveAt(i)))
    /\ frames[i].kind = "else" /\ ~frames[i].then.ret => CRunsAre(frames[i].then, Objs(AliveThen(i)))

CAliveOK ==
  /\ \A i \in 1 .. Len(scopes) - 1 : Lost(scopes[i])
  /\ ~pt.ret => Lost(Top) /\ CRunsAre(pt, Objs(Alive))
  /\ pt.ret /\ status = "building" =>
       \/ Top.owners = {} /\ CRunsAre(pt, ToSet(Top.drops)) /\ OnceOutside(Top.drops)
       \/ pt.cruns = {} /\ Lost(Top)
  /\ FramesCAliveOK

\* Liveness variables.
Untouched(p) == \A v \in Values : v > nvals => p.live[v] = "none"
Decided(p, A, dead) ==
  \A v \in A : p.live[v] # "phi" /\ (v \in dead => p.live[v] # "live")
Follows(p, dead, i) ==
  \A v \in OwnersTo(i) :
    p.live[v] = IF v \in dead \ frames[i].entry_deadset THEN "dead" ELSE frames[i].entry.live[v]
\* Only a variable made in a branch is written "live".
MadeInBranch(p, n) ==
  \A i \in 1 .. n : \A v \in scopes[i].owners :
    p.live[v] = "live" => \E k \in 1 .. i - 1 : frames[k].kind # "block"

LiveOK ==
  /\ Untouched(pt) /\ Decided(pt, Owners, deadset) /\ MadeInBranch(pt, Len(scopes))
  /\ \A i \in DOMAIN frames :
       /\ Untouched(frames[i].entry)
       /\ Decided(frames[i].entry, OwnersTo(i), frames[i].entry_deadset)
       /\ MadeInBranch(frames[i].entry, i)
       /\ frames[i].kind = "else" => Untouched(frames[i].then)
       /\ frames[i].kind # "block" =>
            /\ Follows(pt, deadset, i)
            /\ \A j \in DOMAIN frames :
                 /\ j > i => Follows(frames[j].entry, frames[j].entry_deadset, i)
                 /\ j >= i /\ frames[j].kind = "else" => Follows(frames[j].then, frames[j].then_deadset, i)

-----------------------------------------------------------------------------
(***************************************************************************)
(* What the operators of the model return.                                 *)
(***************************************************************************)

\* Sets of values are finite.
LEMMA FiniteValues ==
  ASSUME NEW S \in SUBSET Values
  PROVE  IsFiniteSet(S) /\ Cardinality(S) \in Nat
<1>1. MaxValues \in Int /\ IsFiniteSet(Values)
  BY FS_Interval, OwnershipAssumptions DEF Values
<1> QED BY <1>1, FS_Subset, FS_CardinalityType

\* A value that comes later has the lower rank: the ranks of S are the numbers
\* up to its size, each once.
LEMMA RankFacts ==
  ASSUME NEW S \in SUBSET Values
  PROVE  /\ \A v \in S : Rank(S, v) \in 1 .. Cardinality(S)
         /\ \A v, w \in S : Rank(S, v) = Rank(S, w) => v = w
         /\ \A i \in 1 .. Cardinality(S) : \E v \in S : Rank(S, v) = i
<1> DEFINE From(v) == {w \in S : w >= v}
           f == [v \in S |-> Rank(S, v)]
<1>0. IsFiniteSet(S) /\ Cardinality(S) \in Nat /\ S \subseteq Nat
  BY FiniteValues, OwnershipAssumptions DEF Values
<1>1. ASSUME NEW v \in S
      PROVE  /\ IsFiniteSet(From(v)) /\ Cardinality(From(v)) <= Cardinality(S)
             /\ Cardinality(From(v)) \in Nat /\ Cardinality(From(v)) # 0
  <2>1. From(v) \in SUBSET S /\ v \in From(v)
    BY <1>0
  <2>2. IsFiniteSet(From(v)) /\ Cardinality(From(v)) <= Cardinality(S)
    BY <2>1, <1>0, FS_Subset
  <2> QED BY <2>1, <2>2, FS_CardinalityType, FS_EmptySet
<1>2. ASSUME NEW v \in S, NEW w \in S, v < w
      PROVE  Rank(S, v) # Rank(S, w)
  <2>0. v \in Nat /\ w \in Nat /\ \A u \in S : u \in Nat
    BY <1>0
  <2>1. From(w) \in SUBSET From(v) /\ v \in From(v) /\ v \notin From(w)
    <3>1. \A u \in S : u >= w => u >= v
      BY <2>0, <1>2
    <3>2. v >= v /\ ~(v >= w)
      BY <2>0, <1>2
    <3> QED BY <3>1, <3>2
  <2>2. IsFiniteSet(From(v)) /\ (Cardinality(From(v)) = Cardinality(From(w)) => From(v) = From(w))
    BY <2>1, <1>1, FS_Subset
  <2> QED BY <2>1, <2>2 DEF Rank
<1>3. \A v \in S : Rank(S, v) \in 1 .. Cardinality(S)
  BY <1>0, <1>1 DEF Rank
<1>4. \A v, w \in S : Rank(S, v) = Rank(S, w) => v = w
  <2> SUFFICES ASSUME NEW v \in S, NEW w \in S, v # w
               PROVE  Rank(S, v) # Rank(S, w)
    OBVIOUS
  <2>1. v < w \/ w < v
    BY <1>0
  <2> QED BY <2>1, <1>2
<1>5. f \in Injection(S, 1 .. Cardinality(S))
  BY <1>3, <1>4 DEF Injection, IsInjective
<1>6. IsFiniteSet(1 .. Cardinality(S)) /\ Cardinality(1 .. Cardinality(S)) = Cardinality(S)
  BY <1>0, FS_Interval
<1>7. f \in Surjection(S, 1 .. Cardinality(S))
  BY <1>5, <1>6, FS_Injection
<1>8. \A i \in 1 .. Cardinality(S) : \E v \in S : Rank(S, v) = i
  BY <1>7 DEF Surjection
<1> QED BY <1>3, <1>4, <1>8

LEMMA DescendingFacts ==
  ASSUME NEW S \in SUBSET Values
  PROVE  /\ Cardinality(S) \in Nat
         /\ Descending(S) \in Seq(Values) /\ Len(Descending(S)) = Cardinality(S)
         /\ \A i \in 1 .. Cardinality(S) : Descending(S)[i] \in S
         /\ \A i, j \in 1 .. Cardinality(S) : Descending(S)[i] = Descending(S)[j] => i = j
         /\ \A v \in S : \E i \in 1 .. Cardinality(S) : Descending(S)[i] = v
<1>0. Cardinality(S) \in Nat
  BY FiniteValues
<1>1. \A i \in 1 .. Cardinality(S) : Descending(S)[i] \in S /\ Rank(S, Descending(S)[i]) = i
  <2> TAKE i \in 1 .. Cardinality(S)
  <2>1. Descending(S)[i] = CHOOSE v \in S : Rank(S, v) = i
    BY DEF Descending
  <2>2. \E v \in S : Rank(S, v) = i
    BY RankFacts
  <2> QED BY <2>1, <2>2
<1>2. Descending(S) = [i \in 1 .. Cardinality(S) |-> Descending(S)[i]]
  BY DEF Descending
<1>3. Descending(S) \in Seq(Values) /\ Len(Descending(S)) = Cardinality(S)
  BY <1>0, <1>1, <1>2
<1>4. \A v \in S : \E i \in 1 .. Cardinality(S) : Descending(S)[i] = v
  <2> TAKE v \in S
  <2>1. Rank(S, v) \in 1 .. Cardinality(S)
    BY RankFacts
  <2>2. Rank(S, Descending(S)[Rank(S, v)]) = Rank(S, v) /\ Descending(S)[Rank(S, v)] \in S
    BY <2>1, <1>1
  <2>3. Descending(S)[Rank(S, v)] = v
    BY <2>2, RankFacts
  <2> QED BY <2>1, <2>3
<1> QED BY <1>0, <1>1, <1>3, <1>4

LEMMA LiveFacts ==
  ASSUME NEW live \in [Values -> Lives], NEW more \in [Values -> Lives], NEW S, NEW l \in Lives
  PROVE  /\ Written(live, S, l) \in [Values -> Lives]
         /\ Created(live, S, l) \in [Values -> Lives]
         /\ Joined(live, more) \in [Values -> Lives]
         /\ \A v \in Values :
              /\ Written(live, S, l)[v] = IF v \in S THEN l ELSE live[v]
              /\ Created(live, S, l)[v] = IF v \in S /\ live[v] = "none" THEN l ELSE live[v]
              /\ Joined(live, more)[v] = IF live[v] = more[v] THEN live[v] ELSE "phi"
BY DEF Written, Created, Joined, Lives

LEMMA ObjsFacts ==
  ASSUME TypeOK, NEW S \in SUBSET Values
  PROVE  Objs(S) \in SUBSET Values
BY DEF TypeOK, Objs

\* No frame is conditional if and only if condnest is 0.
LEMMA CondNestFacts ==
  ASSUME TypeOK
  PROVE  condnest = 0 <=> \A i \in DOMAIN frames : frames[i].kind = "block"
<1> DEFINE C == {i \in DOMAIN frames : frames[i].kind # "block"}
<1>1. IsFiniteSet(DOMAIN frames)
  <2>1. DOMAIN frames = 1 .. Len(frames) /\ Len(frames) \in Nat
    BY DEF TypeOK
  <2> QED BY <2>1, FS_Interval
<1>2. IsFiniteSet(C)
  BY <1>1, FS_Subset
<1>3. condnest = 0 <=> C = {}
  BY <1>2, FS_EmptySet DEF condnest
<1> QED BY <1>3

LEMMA WithoutFacts ==
  ASSUME NEW rs \in SUBSET SUBSET Values, NEW gone
  PROVE  Without(rs, gone) \in SUBSET SUBSET Values
BY DEF Without

LEMMA DropFacts ==
  ASSUME NEW p \in Points, NEW S
  PROVE  /\ drop(p, S) \in Points
         /\ drop(p, S).runs = Without(p.runs, Objs(S)) /\ drop(p, S).cruns = p.cruns
         /\ drop(p, S).ret = p.ret /\ drop(p, S).live = p.live
<1>1. Without(p.runs, Objs(S)) \in SUBSET SUBSET Values
  BY WithoutFacts DEF Points
<1> QED BY <1>1 DEF drop, Points

LEMMA GenDropsFacts ==
  ASSUME NEW p \in Points, NEW scope
  PROVE  /\ gen_drops(p, scope) \in Points
         /\ gen_drops(p, scope).runs = p.runs
         /\ gen_drops(p, scope).cruns = Without(p.cruns, ToSet(scope.drops))
         /\ gen_drops(p, scope).ret = p.ret /\ gen_drops(p, scope).live = p.live
<1>1. /\ Without(p.cruns, ToSet(scope.drops)) \in SUBSET SUBSET Values
      /\ Without(p.cfell, ToSet(scope.drops)) \in SUBSET SUBSET Values
  BY WithoutFacts DEF Points
<1> QED BY <1>1 DEF gen_drops, Points

\* Runs that have gone on behind a return are those of no other set.
LEMMA BehindFacts ==
  ASSUME NEW p \in Points, NEW q \in Points
  PROVE  /\ Behind(p, q) \in Points
         /\ Behind(p, q).runs = p.runs /\ Behind(p, q).cruns = p.cruns
         /\ Behind(p, q).ret = p.ret /\ Behind(p, q).live = p.live
BY DEF Behind, Points

LEMMA GoneFacts ==
  ASSUME NEW p \in Points
  PROVE  /\ Gone(p) \in Points /\ Gone(p).cruns = {}
         /\ Gone(p).runs = p.runs /\ Gone(p).ret = p.ret /\ Gone(p).live = p.live
<1> DEFINE fell == IF result = "void" THEN p.cfell \cup p.cruns ELSE {}
<1>1. fell \in SUBSET SUBSET Values
  BY DEF Points
<1>2. Gone(p) = [p EXCEPT !.cruns = {}, !.cfell = fell]
  BY DEF Gone
<1> HIDE DEF fell
<1> QED BY <1>1, <1>2 DEF Points

\* The drops of S are added at the end, each object once if no two of S have one.
LEMMA BackpropagateFacts ==
  ASSUME TypeOK, NEW scope \in Scopes, NEW S \in SUBSET Values
  PROVE  LET after == backpropagate_drop_to_ast(scope, S)
         IN  /\ after \in Scopes /\ after.vars = scope.vars /\ after.owners = scope.owners
             /\ ToSet(after.drops) = ToSet(scope.drops) \cup Objs(S)
             /\ Injective(S) =>
                  \A i, j \in DOMAIN after.drops :
                    /\ after.drops[i] = after.drops[j] /\ after.drops[i] \notin ToSet(scope.drops)
                    => i = j
<1> DEFINE n == Cardinality(S)
           more == [i \in 1 .. n |-> obj[Descending(S)[i]]]
           d == scope.drops
           all == d \o more
           after == backpropagate_drop_to_ast(scope, S)
<1>1. /\ n \in Nat /\ \A i \in 1 .. n : Descending(S)[i] \in S
      /\ \A i, j \in 1 .. n : Descending(S)[i] = Descending(S)[j] => i = j
      /\ \A v \in S : \E i \in 1 .. n : Descending(S)[i] = v
  BY DescendingFacts
<1>2. obj \in [Values -> Values] /\ d \in Seq(Values)
  BY DEF TypeOK, Scopes
<1>3. more \in Seq(Values) /\ Len(more) = n /\ \A i \in 1 .. n : more[i] = obj[Descending(S)[i]]
  BY <1>1, <1>2
<1>4. after = [scope EXCEPT !.drops = all]
  BY DEF backpropagate_drop_to_ast
<1> HIDE DEF more, n
<1>5. /\ all \in Seq(Values) /\ Len(all) = Len(d) + n
      /\ \A i \in 1 .. Len(d) : all[i] = d[i]
      /\ \A i \in 1 .. n : all[Len(d) + i] = more[i]
      /\ DOMAIN all = 1 .. (Len(d) + n) /\ DOMAIN d = 1 .. Len(d) /\ Len(d) \in Nat
  BY <1>1, <1>2, <1>3
<1> HIDE DEF all
<1>6. after \in Scopes /\ after.drops = all /\ after.vars = scope.vars /\ after.owners = scope.owners
  BY <1>4, <1>5 DEF Scopes
<1>7. \A k \in DOMAIN all : k <= Len(d) \/ \E i \in 1 .. n : k = Len(d) + i
  <2> TAKE k \in DOMAIN all
  <2>1. CASE k > Len(d)
    <3>1. k - Len(d) \in 1 .. n /\ k = Len(d) + (k - Len(d))
      BY <2>1, <1>1, <1>5
    <3> QED BY <3>1
  <2>2. CASE ~(k > Len(d))
    BY <2>2, <1>5
  <2> QED BY <2>1, <2>2
<1>8. ToSet(all) = ToSet(d) \cup Objs(S)
  <2>1. ASSUME NEW k \in DOMAIN all
        PROVE  all[k] \in ToSet(d) \cup Objs(S)
    <3>1. CASE k <= Len(d)
      BY <3>1, <1>5 DEF ToSet
    <3>2. CASE \E i \in 1 .. n : k = Len(d) + i
      <4>1. PICK i \in 1 .. n : k = Len(d) + i
        BY <3>2
      <4>2. all[k] = obj[Descending(S)[i]] /\ Descending(S)[i] \in S
        BY <4>1, <1>1, <1>3, <1>5
      <4> QED BY <4>2 DEF Objs
    <3> QED BY <1>7, <3>1, <3>2
  <2>2. ASSUME NEW k \in DOMAIN d
        PROVE  d[k] \in ToSet(all)
    <3>1. k \in DOMAIN all /\ all[k] = d[k]
      BY <1>5, <1>1
    <3> QED BY <3>1 DEF ToSet
  <2>3. ASSUME NEW v \in S
        PROVE  obj[v] \in ToSet(all)
    <3>1. PICK i \in 1 .. n : Descending(S)[i] = v
      BY <1>1
    <3>2. Len(d) + i \in DOMAIN all /\ all[Len(d) + i] = obj[v]
      BY <3>1, <1>1, <1>3, <1>5
    <3> QED BY <3>2 DEF ToSet
  <2> QED BY <2>1, <2>2, <2>3 DEF ToSet, Objs
<1>9. ASSUME Injective(S), NEW i \in DOMAIN all, NEW j \in DOMAIN all,
             all[i] = all[j], all[i] \notin ToSet(d)
      PROVE  i = j
  <2>1. ~(i <= Len(d)) /\ ~(j <= Len(d))
    BY <1>5, <1>9 DEF ToSet
  <2>2. PICK a \in 1 .. n, b \in 1 .. n : i = Len(d) + a /\ j = Len(d) + b
    BY <1>7, <2>1
  <2>3. obj[Descending(S)[a]] = obj[Descending(S)[b]]
    BY <1>3, <1>5, <1>9, <2>2
  <2> QED BY <1>1, <1>9, <2>2, <2>3 DEF Injective
<1> QED BY <1>6, <1>8, <1>9

\* The innermost scope and the others.
LEMMA ScopeFacts ==
  ASSUME TypeOK, ScopesOK
  PROVE  /\ Len(scopes) \in Nat \ {0} /\ Len(frames) = Len(scopes) - 1 /\ Len(frames) \in Nat
         /\ DOMAIN scopes = 1 .. Len(scopes) /\ DOMAIN frames = 1 .. Len(frames)
         /\ Top \in Scopes /\ Top = scopes[Len(scopes)]
         /\ \A i \in 1 .. Len(scopes) : scopes[i] \in Scopes
         /\ \A i \in 1 .. Len(frames) : frames[i] \in Frames
BY DEF TypeOK, ScopesOK, Top, Last

\* OwnersTo, by its members, and what separates the innermost scope.
LEMMA OwnersFacts ==
  ASSUME TypeOK, ScopesOK
  PROVE  /\ \A n \in Nat : \A v : v \in OwnersTo(n) <=> \E i \in 1 .. n : v \in scopes[i].owners
         /\ \A n \in 0 .. Len(scopes) : OwnersTo(n) \subseteq 1 .. nvals /\ OwnersTo(n) \subseteq Values
         /\ Owners = OuterOwners \cup Top.owners
         /\ OuterOwners \cap Top.owners = {}
         /\ Top.owners \subseteq 1 .. nvals
<1>1. \A n \in Nat : \A v : v \in OwnersTo(n) <=> \E i \in 1 .. n : v \in scopes[i].owners
  BY DEF OwnersTo
<1>2. 1 .. nvals \subseteq Values
  BY OwnershipAssumptions DEF TypeOK, Values
<1>3. \A n \in 0 .. Len(scopes) : OwnersTo(n) \subseteq 1 .. nvals
  <2> SUFFICES ASSUME NEW n \in 0 .. Len(scopes), NEW v \in OwnersTo(n)
               PROVE  v \in 1 .. nvals
    OBVIOUS
  <2>1. PICK i \in 1 .. n : v \in scopes[i].owners
    BY <1>1, ScopeFacts
  <2>2. i \in DOMAIN scopes
    BY ScopeFacts
  <2> QED BY <2>1, <2>2 DEF ScopesOK
<1>4. Owners = OuterOwners \cup Top.owners
  <2>1. \A i \in 1 .. Len(scopes) : i = Len(scopes) \/ i \in 1 .. Len(scopes) - 1
    BY ScopeFacts
  <2>2. Len(scopes) \in Nat /\ Len(scopes) - 1 \in Nat /\ Top = scopes[Len(scopes)]
        /\ Len(scopes) \in 1 .. Len(scopes) /\ 1 .. Len(scopes) - 1 \subseteq 1 .. Len(scopes)
    BY ScopeFacts
  <2>3. \A v : v \in Owners <=> v \in OuterOwners \/ v \in Top.owners
    BY <1>1, <2>1, <2>2 DEF Owners, OuterOwners
  <2> QED BY <2>3
<1>5. OuterOwners \cap Top.owners = {}
  <2> SUFFICES ASSUME NEW v \in OuterOwners, v \in Top.owners
               PROVE  FALSE
    OBVIOUS
  <2>1. PICK i \in 1 .. Len(scopes) - 1 : v \in scopes[i].owners
    BY <1>1, ScopeFacts DEF OuterOwners
  <2>2. i \in DOMAIN scopes /\ Len(scopes) \in DOMAIN scopes /\ i # Len(scopes)
    BY ScopeFacts
  <2>3. v \in scopes[i].vars /\ v \in scopes[Len(scopes)].vars
    BY <2>1, <2>2, ScopeFacts DEF ScopesOK
  <2> QED BY <2>2, <2>3 DEF ScopesOK
<1>6. Top.owners \subseteq 1 .. nvals
  BY ScopeFacts DEF ScopesOK
<1> QED BY <1>1, <1>2, <1>3, <1>4, <1>5, <1>6

\* The end of a block that drops S, with what is in the drop list already.
LEMMA LeftFacts ==
  ASSUME TypeOK, ScopesOK, NEW S \in SUBSET Values
  PROVE  LET D == ToSet(Top.drops) \cup Objs(S)
         IN  /\ Left(S) \in Points
             /\ Left(S).runs = Without(pt.runs, Objs(S))
             /\ Left(S).cruns = IF pt.ret THEN {} ELSE Without(pt.cruns, D)
             /\ Left(S).ret = pt.ret /\ Left(S).live = pt.live
             /\ ToSet(Unwound(S).drops) = D
             /\ gen_drops(pt, Unwound(S)).cruns = Without(pt.cruns, D)
<1> DEFINE D == ToSet(Top.drops) \cup Objs(S)
           p == drop(pt, S)
           q == gen_drops(p, Unwound(S))
<1>1. p \in Points /\ p.runs = Without(pt.runs, Objs(S)) /\ p.cruns = pt.cruns
      /\ p.ret = pt.ret /\ p.live = pt.live /\ pt \in Points
  BY DropFacts DEF TypeOK
<1>2. ToSet(Unwound(S).drops) = D
  BY BackpropagateFacts, ScopeFacts DEF Unwound
<1> HIDE DEF p
<1>3. /\ q \in Points /\ q.runs = p.runs /\ q.ret = p.ret /\ q.live = p.live
      /\ q.cruns = Without(p.cruns, D)
  BY <1>1, <1>2, GenDropsFacts
<1>4. gen_drops(pt, Unwound(S)).cruns = Without(pt.cruns, D)
  BY <1>1, <1>2, GenDropsFacts
<1>5. Left(S) = IF pt.ret THEN Gone(q) ELSE q
  BY DEF Left, p
<1> HIDE DEF q
<1>6. CASE pt.ret
  <2>1. Left(S) = Gone(q)
    BY <1>5, <1>6
  <2>2. /\ Left(S) \in Points /\ Left(S).cruns = {} /\ Left(S).runs = q.runs
        /\ Left(S).ret = q.ret /\ Left(S).live = q.live
    BY <1>3, <2>1, GoneFacts
  <2> QED BY <1>1, <1>2, <1>3, <1>4, <1>6, <2>2
<1>7. CASE ~pt.ret
  BY <1>1, <1>2, <1>3, <1>4, <1>5, <1>7
<1> QED BY <1>6, <1>7

-----------------------------------------------------------------------------
(***************************************************************************)
(* Drops of the owners of a set with no two owners of one object.          *)
(***************************************************************************)

LEMMA ObjsMinus ==
  ASSUME NEW A, NEW S \in SUBSET A, Injective(A)
  PROVE  Objs(A) \ Objs(S) = Objs(A \ S)
BY DEF Objs, Injective

\* A drop of owners that a run has alive doubles nothing.
LEMMA DropExact ==
  ASSUME NEW p \in Points, NEW A \in SUBSET Values, NEW S \in SUBSET A,
         Injective(A), RunsAre(p, A)
  PROVE  DropDoubled(p, S) = {} /\ RunsAre(drop(p, S), A \ S)
<1>1. Missing(p.runs, Objs(S)) = {}
  BY DEF Missing, RunsAre, Objs
<1>2. {obj[v] : v \in {w \in S : \E u \in S \ {w} : obj[u] = obj[w]}} = {}
  BY DEF Injective
<1>3. \A r \in drop(p, S).runs : r = Objs(A \ S)
  <2>1. drop(p, S).runs = {r \ Objs(S) : r \in p.runs}
    BY DropFacts DEF Without
  <2>2. Objs(A) \ Objs(S) = Objs(A \ S)
    BY ObjsMinus
  <2>3. \A r \in p.runs : r = Objs(A)
    BY DEF RunsAre
  <2> QED BY <2>1, <2>2, <2>3
<1> QED BY <1>1, <1>2, <1>3 DEF DropDoubled, RunsAre

LEMMA DoubledInValues ==
  ASSUME TypeOK, NEW p, NEW S \in SUBSET Values
  PROVE  DropDoubled(p, S) \in SUBSET Values
<1>1. Missing(p.runs, Objs(S)) \subseteq Values
  BY ObjsFacts DEF Missing
<1>2. {obj[v] : v \in {w \in S : \E u \in S \ {w} : obj[u] = obj[w]}} \subseteq Values
  BY DEF TypeOK
<1> QED BY <1>1, <1>2 DEF DropDoubled

\* Only a drop in a block that has not returned counts.
LEMMA DoublingFacts ==
  ASSUME TypeOK, NEW g \in Ghosts, NEW p \in Points, NEW S \in SUBSET Values,
         p.ret \/ DropDoubled(p, S) = {}
  PROVE  LET h == Doubling(g, p, S)
         IN  /\ h \in Ghosts /\ h.doubled = g.doubled /\ h.leaked = g.leaked
             /\ h.cdoubled = g.cdoubled /\ h.cleaked = g.cleaked /\ h.lost = g.lost
             /\ h.misused = g.misused
<1>1. DropDoubled(p, S) \in SUBSET Values
  BY DoubledInValues
<1>2. CASE p.ret
  <2>1. Doubling(g, p, S) = [g EXCEPT !.late = @ \cup DropDoubled(p, S)]
    BY <1>2 DEF Doubling
  <2> QED BY <1>1, <2>1 DEF Ghosts
<1>3. CASE ~p.ret
  <2>1. Doubling(g, p, S) = [g EXCEPT !.doubled = @ \cup DropDoubled(p, S)] /\ DropDoubled(p, S) = {}
    BY <1>3 DEF Doubling
  <2> QED BY <2>1 DEF Ghosts
<1> QED BY <1>2, <1>3

LEMMA CDoubledInValues ==
  ASSUME NEW p, NEW scope \in Scopes
  PROVE  CDoubled(p, scope) \in SUBSET Values
<1>1. scope.drops \in Seq(Values)
  BY DEF Scopes
<1>2. ToSet(scope.drops) \subseteq Values
  BY <1>1 DEF ToSet
<1> QED BY <1>1, <1>2 DEF CDoubled, Missing

LEMMA CFellInValues ==
  ASSUME NEW p, NEW scope \in Scopes
  PROVE  CFell(p, scope) \in SUBSET Values
<1>1. scope.drops \in Seq(Values)
  BY DEF Scopes
<1>2. ToSet(scope.drops) \subseteq Values
  BY <1>1 DEF ToSet
<1> QED BY <1>2 DEF CFell, Missing

\* The drop list of a block doubles nothing but what is lost.
LEMMA CDoubledLost ==
  ASSUME NEW p, NEW scope \in Scopes, OnceOutside(scope.drops),
         \A r \in p.cruns : ToSet(scope.drops) \ ghost.lost \subseteq r
  PROVE  CDoubled(p, scope) \subseteq ghost.lost
<1>1. Missing(p.cruns, ToSet(scope.drops)) \subseteq ghost.lost
  BY DEF Missing
<1>0. DOMAIN scope.drops = 1 .. Len(scope.drops) /\ Len(scope.drops) \in Nat
  BY DEF Scopes
<1>2. ASSUME NEW j \in DOMAIN scope.drops, NEW k \in 1 .. j - 1, scope.drops[k] = scope.drops[j],
             scope.drops[j] \notin ghost.lost
      PROVE  FALSE
  <2>1. k \in DOMAIN scope.drops /\ k # j
    BY <1>0
  <2> QED BY <1>2, <2>1 DEF OnceOutside
<1> QED BY <1>1, <1>2 DEF CDoubled

-----------------------------------------------------------------------------
(***************************************************************************)
(* Statements.                                                             *)
(***************************************************************************)

\* A variable that is not dead is owned.
LEMMA VisibleAlive ==
  ASSUME TypeOK, ScopesOK, FramesOK, ~pt.ret, NEW x \in Visible, x \notin deadset
  PROVE  x \in Alive /\ x \in 1 .. nvals /\ x \in Values
<1>1. PICK i \in DOMAIN scopes : x \in scopes[i].vars
  BY DEF Visible
<1>2. x \in 1 .. nvals
  BY <1>1 DEF ScopesOK
<1>3. x \in scopes[i].owners
  <2>1. CASE i = Len(scopes)
    BY <1>1, <2>1, ScopeFacts DEF ScopesOK
  <2>2. CASE i # Len(scopes)
    <3>1. i \in DOMAIN frames
      BY <2>2, ScopeFacts
    <3>2. scopes[i].vars \subseteq scopes[i].owners \cup frames[i].entry_deadset
          /\ frames[i].entry_deadset \subseteq deadset
      <4>1. i <= i
        BY ScopeFacts
      <4> QED BY <3>1, <4>1 DEF FramesOK
    <3> QED BY <1>1, <3>2
  <2> QED BY <2>1, <2>2
<1>4. x \in Owners
  BY <1>1, <1>3, OwnersFacts, ScopeFacts DEF Owners
<1>5. x \in Values
  BY <1>2, OwnershipAssumptions DEF TypeOK, Values
<1> QED BY <1>2, <1>4, <1>5 DEF Alive

\* q is p after a statement that moves from the owners in X.
MovedFrom(p, q, X) ==
  /\ q.runs = p.runs /\ q.cruns = p.cruns /\ q.ret = p.ret
  /\ \A v \in Values :
       q.live[v] = IF condnest # 0 /\ v \in X /\ p.live[v] = "none" THEN "dead" ELSE p.live[v]

FrameMovedFrom(f, g, X) ==
  /\ g.kind = f.kind /\ g.entry_deadset = f.entry_deadset /\ g.then_deadset = f.then_deadset
  /\ MovedFrom(f.entry, g.entry, X) /\ MovedFrom(f.then, g.then, X)

LEMMA SameFrames ==
  ASSUME TypeOK, NEW i \in DOMAIN frames
  PROVE  FrameMovedFrom(frames[i], frames[i], {})
BY DEF FrameMovedFrom, MovedFrom

LEMMA FramesOfMoveFacts ==
  ASSUME TypeOK, NEW x \in Values
  PROVE  LET F == FramesOfMove(x)
         IN  /\ F \in Seq(Frames) /\ Len(F) = Len(frames) /\ DOMAIN F = DOMAIN frames
             /\ \A i \in DOMAIN frames : FrameMovedFrom(frames[i], F[i], {x})
<1> DEFINE C(l) == Created(l, {x}, "dead")
           G(f) == [f EXCEPT !.entry.live = C(@), !.then.live = C(@)]
           F == [i \in DOMAIN frames |-> G(frames[i])]
<1>1. CASE condnest = 0
  <2>1. FramesOfMove(x) = frames /\ \A i \in DOMAIN frames : FrameMovedFrom(frames[i], frames[i], {x})
    BY <1>1 DEF FramesOfMove, FrameMovedFrom, MovedFrom
  <2> QED BY <2>1 DEF TypeOK
<1>2. CASE condnest # 0
  <2>1. FramesOfMove(x) = F
    BY <1>2 DEF FramesOfMove, CreatedInFrames
  <2>2. ASSUME NEW f \in Frames
        PROVE  G(f) \in Frames /\ FrameMovedFrom(f, G(f), {x})
    <3>1. f.entry \in Points /\ f.then \in Points
      BY DEF Frames
    <3>2. f.entry.live \in [Values -> Lives] /\ f.then.live \in [Values -> Lives] /\ "dead" \in Lives
      BY <3>1 DEF Points, Lives
    <3>3. /\ C(f.entry.live) \in [Values -> Lives] /\ C(f.then.live) \in [Values -> Lives]
          /\ \A v \in Values :
               /\ C(f.entry.live)[v] = IF v \in {x} /\ f.entry.live[v] = "none" THEN "dead" ELSE f.entry.live[v]
               /\ C(f.then.live)[v] = IF v \in {x} /\ f.then.live[v] = "none" THEN "dead" ELSE f.then.live[v]
      BY <3>2, LiveFacts
    <3> HIDE DEF C
    <3>4. /\ G(f).entry = [f.entry EXCEPT !.live = C(@)] /\ G(f).then = [f.then EXCEPT !.live = C(@)]
          /\ G(f).kind = f.kind /\ G(f).entry_deadset = f.entry_deadset
          /\ G(f).then_deadset = f.then_deadset
      BY DEF Frames
    <3>5. [f.entry EXCEPT !.live = C(@)] \in Points /\ [f.then EXCEPT !.live = C(@)] \in Points
      BY <3>1, <3>3 DEF Points
    <3>6. G(f) \in Frames
      BY <3>4, <3>5 DEF Frames
    <3>7. MovedFrom(f.entry, G(f).entry, {x}) /\ MovedFrom(f.then, G(f).then, {x})
      BY <1>2, <3>1, <3>3, <3>4 DEF MovedFrom, Points
    <3> QED BY <3>4, <3>6, <3>7 DEF FrameMovedFrom
  <2>3. \A i \in DOMAIN frames : frames[i] \in Frames
    BY DEF TypeOK
  <2> HIDE DEF G
  <2>4. DOMAIN frames = 1 .. Len(frames) /\ Len(frames) \in Nat
    BY DEF TypeOK
  <2>5. F \in Seq(Frames) /\ Len(F) = Len(frames) /\ \A i \in DOMAIN frames : F[i] = G(frames[i])
    BY <2>2, <2>3, <2>4
  <2> QED BY <2>1, <2>2, <2>3, <2>5
<1> QED BY <1>1, <1>2

\* The inductive invariant.
Inv == /\ TypeOK /\ ValuesOK /\ ScopesOK /\ FramesOK /\ AliveOK /\ CAliveOK /\ LiveOK
       /\ IRDropsOnce /\ CDropsOnceIfNotLost

\* A statement that moves from X and makes the values of new.
Moves(X, new) ==
  /\ X \subseteq Alive /\ ~pt.ret
  /\ (new = {} /\ nvals' = nvals) \/ (new = {nvals + 1} /\ nvals' = nvals + 1)
  /\ nvals' <= MaxValues
  /\ \A v \in Values \ new : obj'[v] = obj[v]
  /\ \A v \in new : obj'[v] <= v
  /\ Len(scopes') = Len(scopes)
  /\ \A i \in 1 .. Len(scopes) - 1 : scopes'[i] = scopes[i]
  /\ scopes'[Len(scopes)].vars = Top.vars \cup new
  /\ pt'.ret => scopes'[Len(scopes)].owners = {}
  /\ ~pt'.ret => scopes'[Len(scopes)].owners = Top.owners \cup new
  /\ deadset' = deadset \cup X
  /\ Len(frames') = Len(frames)
  /\ \A i \in DOMAIN frames : FrameMovedFrom(frames[i], frames'[i], X)
  /\ \A v \in Values :
       pt'.live[v] = IF condnest = 0 THEN pt.live[v]
                     ELSE IF v \in new THEN "live"
                     ELSE IF v \in X THEN "dead" ELSE pt.live[v]

\* A move that is not refused is from an owner whose object every run has.
LEMMA MoveStart ==
  ASSUME Inv, ~pt.ret, NEW x \in Visible, ~IsDead(x)
  PROVE  /\ x \in Alive /\ x \in 1 .. nvals /\ x \in Values
         /\ \A r \in pt.runs : obj[x] \in r
         /\ ghost.misused = FALSE /\ Misused(x) = FALSE
         /\ condnest = 0 => pt.live[x] = "none"
<1>1. x \in Alive /\ x \in 1 .. nvals /\ x \in Values
  BY VisibleAlive DEF Inv, IsDead
<1>2. \A r \in pt.runs : obj[x] \in r
  BY <1>1 DEF Inv, AliveOK, RunsAre, Objs
<1>3. ghost.misused = FALSE /\ Misused(x) = FALSE
  <2>1. ~ghost.misused /\ ghost.misused \in BOOLEAN
    BY DEF Inv, IRDropsOnce, TypeOK, Ghosts
  <2>2. ~Misused(x)
    BY <2>1, <1>2 DEF Misused
  <2>3. Misused(x) \in BOOLEAN
    BY Zenon DEF Misused
  <2> QED BY <2>1, <2>2, <2>3
<1>4. condnest = 0 => pt.live[x] = "none"
  <2> SUFFICES ASSUME condnest = 0
               PROVE  pt.live[x] = "none"
    OBVIOUS
  <2>1. pt.live[x] \in {"none", "live"}
    BY DEF IsDead
  <2>2. PICK i \in 1 .. Len(scopes) : x \in scopes[i].owners
    BY <1>1, OwnersFacts, ScopeFacts DEF Alive, Owners, Inv
  <2>3. ~\E k \in 1 .. i - 1 : frames[k].kind # "block"
    <3>1. \A k \in 1 .. i - 1 : k \in DOMAIN frames
      BY ScopeFacts DEF Inv
    <3> QED BY <3>1, CondNestFacts DEF Inv
  <2> QED BY <2>1, <2>2, <2>3 DEF Inv, LiveOK, MadeInBranch
<1> QED BY <1>1, <1>2, <1>3, <1>4

LEMMA LivenessOfMoveFacts ==
  ASSUME NEW live \in [Values -> Lives], NEW x \in Values, NEW new
  PROVE  /\ LivenessOfMove(live, x, new) \in [Values -> Lives]
         /\ \A v \in Values :
              LivenessOfMove(live, x, new)[v] =
                IF condnest = 0 THEN live[v]
                ELSE IF v \in new THEN "live" ELSE IF v \in {x} THEN "dead" ELSE live[v]
<1> DEFINE dead == Written(live, {x}, "dead")
<1>1. "dead" \in Lives /\ "live" \in Lives
  BY DEF Lives
<1>2. dead \in [Values -> Lives] /\ \A v \in Values : dead[v] = IF v \in {x} THEN "dead" ELSE live[v]
  BY <1>1, LiveFacts
<1>3. LivenessOfMove(live, x, new) = IF condnest = 0 THEN live ELSE Written(dead, new, "live")
  BY DEF LivenessOfMove
<1> HIDE DEF dead
<1>4. /\ Written(dead, new, "live") \in [Values -> Lives]
      /\ \A v \in Values : Written(dead, new, "live")[v] = IF v \in new THEN "live" ELSE dead[v]
  BY <1>1, <1>2, LiveFacts
<1> QED BY <1>2, <1>3, <1>4

LEMMA LetMoveFacts ==
  ASSUME Inv, result' = result, NEW x \in Visible, LetMove(x)
  PROVE  \/ Statement /\ Refuse(x)
         \/ /\ Moves({x}, {nvals + 1}) /\ TypeOK'
            /\ obj'[nvals + 1] = obj[x] /\ x \in 1 .. nvals
            /\ pt'.runs = pt.runs /\ pt'.cruns = pt.cruns /\ ~pt'.ret
            /\ scopes'[Len(scopes)].drops = Top.drops
            /\ ghost' = ghost
<1>1. CASE Refuse(x)
  BY <1>1 DEF LetMove
<1>2. CASE ~Refuse(x)
  <2> DEFINE v == nvals + 1
             n == Len(scopes)
             top == [Top EXCEPT !.vars = @ \cup {v}, !.owners = @ \cup {v}]
  <2>1. /\ ~IsDead(x) /\ ~pt.ret /\ stmts < MaxStmts /\ stmts' = stmts + 1 /\ nvals < MaxValues
        /\ nvals' = v /\ obj' = [obj EXCEPT ![v] = obj[x]]
        /\ scopes' = [scopes EXCEPT ![n].vars = @ \cup {v}, ![n].owners = @ \cup {v}]
        /\ deadset' = deadset \cup {x}
        /\ pt' = [pt EXCEPT !.live = LivenessOfMove(@, x, {v})]
        /\ frames' = FramesOfMove(x)
        /\ ghost' = [ghost EXCEPT !.misused = Misused(x)]
        /\ status' = status
    BY <1>2 DEF LetMove, Statement
  <2>2. /\ x \in Alive /\ x \in 1 .. nvals /\ x \in Values /\ Misused(x) = FALSE /\ ghost.misused = FALSE
    BY <2>1, MoveStart
  <2>3. ghost' = ghost
    BY <2>1, <2>2 DEF Inv, TypeOK, Ghosts
  <2>4. v \in Values /\ nvals \in Nat /\ v \in Nat
    BY SMTT(30), <2>1, OwnershipAssumptions DEF Inv, TypeOK, Values
  <2>5. scopes' = [scopes EXCEPT ![n] = top] /\ n \in Nat \ {0} /\ top \in Scopes
        /\ scopes \in Seq(Scopes) /\ n = Len(scopes)
    <3>1. Top \in Scopes /\ Top = scopes[n] /\ n \in Nat \ {0} /\ scopes \in Seq(Scopes)
      BY ScopeFacts DEF Inv, TypeOK
    <3>2. top \in Scopes
      BY <3>1, <2>4 DEF Scopes
    <3>3. scopes' = [scopes EXCEPT ![n] = top]
      BY <2>1, <3>1 DEF Scopes
    <3> QED BY <3>1, <3>2, <3>3
  <2>6. top.vars = Top.vars \cup {v} /\ top.owners = Top.owners \cup {v} /\ top.drops = Top.drops
    BY ScopeFacts DEF Inv, Scopes
  <2> HIDE DEF top
  <2>7. /\ scopes' \in Seq(Scopes) /\ Len(scopes') = n /\ scopes'[n] = top
        /\ \A i \in 1 .. n - 1 : scopes'[i] = scopes[i]
    BY <2>5
  <2>8. /\ frames' \in Seq(Frames) /\ Len(frames') = Len(frames)
        /\ \A i \in DOMAIN frames : FrameMovedFrom(frames[i], frames'[i], {x})
    BY <2>1, <2>2, FramesOfMoveFacts DEF Inv
  <2>9. /\ pt' \in Points /\ pt'.runs = pt.runs /\ pt'.cruns = pt.cruns /\ ~pt'.ret
        /\ \A w \in Values :
             pt'.live[w] = IF condnest = 0 THEN pt.live[w]
                           ELSE IF w \in {v} THEN "live" ELSE IF w \in {x} THEN "dead" ELSE pt.live[w]
    <3>1. pt \in Points /\ pt.live \in [Values -> Lives]
      BY DEF Inv, TypeOK, Points
    <3>2. /\ LivenessOfMove(pt.live, x, {v}) \in [Values -> Lives]
          /\ \A w \in Values :
               LivenessOfMove(pt.live, x, {v})[w] =
                 IF condnest = 0 THEN pt.live[w]
                 ELSE IF w \in {v} THEN "live" ELSE IF w \in {x} THEN "dead" ELSE pt.live[w]
      <4> DEFINE new == {v}
      <4> HIDE DEF new
      <4>1. /\ LivenessOfMove(pt.live, x, new) \in [Values -> Lives]
            /\ \A w \in Values :
                 LivenessOfMove(pt.live, x, new)[w] =
                   IF condnest = 0 THEN pt.live[w]
                   ELSE IF w \in new THEN "live" ELSE IF w \in {x} THEN "dead" ELSE pt.live[w]
        BY <3>1, <2>2, LivenessOfMoveFacts
      <4> QED BY <4>1 DEF new
    <3>3. pt'.live = LivenessOfMove(pt.live, x, {v}) /\ pt' \in Points
          /\ pt'.runs = pt.runs /\ pt'.cruns = pt.cruns /\ ~pt'.ret
      BY <2>1, <3>1, <3>2 DEF Points
    <3> QED BY <3>2, <3>3
  <2>10. obj' \in [Values -> Values] /\ obj'[v] = obj[x] /\ \A w \in Values \ {v} : obj'[w] = obj[w]
    BY <2>1, <2>2, <2>4 DEF Inv, TypeOK
  <2>11. obj[x] <= v
    BY <2>2, <2>4 DEF Inv, ValuesOK, TypeOK, Values
  <2>12. TypeOK'
    BY SMTT(30), <2>1, <2>2, <2>3, <2>4, <2>7, <2>8, <2>9, <2>10, OwnershipAssumptions DEF Inv, TypeOK
  <2>13. Moves({x}, {v})
    <3>1. {x} \subseteq Alive /\ nvals' <= MaxValues
      BY <2>1, <2>2, <2>4, OwnershipAssumptions
    <3>2. scopes'[n].vars = Top.vars \cup {v} /\ scopes'[n].owners = Top.owners \cup {v}
      BY <2>6, <2>7
    <3>3. \A w \in {v} : obj'[w] <= w
      BY <2>10, <2>11
    <3> QED BY <3>1, <3>2, <3>3, <2>1, <2>7, <2>8, <2>9, <2>10 DEF Moves
  <2> QED BY <2>2, <2>3, <2>6, <2>7, <2>9, <2>10, <2>12, <2>13
<1> QED BY <1>1, <1>2

LEMMA LetCallFacts ==
  ASSUME Inv, result' = result, LetCall
  PROVE  /\ Moves({}, {nvals + 1}) /\ TypeOK'
         /\ nvals + 1 \in Values /\ obj' = obj
         /\ pt'.runs = {r \cup {nvals + 1} : r \in pt.runs}
         /\ pt'.cruns = {r \cup {nvals + 1} : r \in pt.cruns} /\ ~pt'.ret
         /\ scopes'[Len(scopes)].drops = Top.drops
         /\ ghost' = ghost
<1> DEFINE v == nvals + 1
           n == Len(scopes)
           top == [Top EXCEPT !.vars = @ \cup {v}, !.owners = @ \cup {v}]
           live == IF condnest = 0 THEN pt.live ELSE Written(pt.live, {v}, "live")
<1>1. /\ ~pt.ret /\ stmts < MaxStmts /\ stmts' = stmts + 1 /\ nvals < MaxValues /\ nvals' = v
      /\ scopes' = [scopes EXCEPT ![n].vars = @ \cup {v}, ![n].owners = @ \cup {v}]
      /\ pt' = [pt EXCEPT !.runs = {r \cup {v} : r \in @}, !.cruns = {r \cup {v} : r \in @},
                          !.cfell = {r \cup {v} : r \in @},
                          !.live = IF condnest = 0 THEN @ ELSE Written(@, {v}, "live")]
      /\ obj' = obj /\ deadset' = deadset /\ frames' = frames /\ status' = status /\ ghost' = ghost
  BY DEF LetCall, Statement
<1>2. v \in Values /\ nvals \in Nat /\ v \in Nat
  BY <1>1, OwnershipAssumptions DEF Inv, TypeOK, Values
<1>3. Top \in Scopes /\ Top = scopes[n] /\ n \in Nat \ {0} /\ scopes \in Seq(Scopes)
  BY ScopeFacts DEF Inv, TypeOK
<1>4. top \in Scopes
  BY <1>3, <1>2 DEF Scopes
<1>5. scopes' = [scopes EXCEPT ![n] = top]
  BY <1>1, <1>3 DEF Scopes
<1>6. top.vars = Top.vars \cup {v} /\ top.owners = Top.owners \cup {v} /\ top.drops = Top.drops
  BY <1>3 DEF Scopes
<1> HIDE DEF top
<1>7. /\ scopes' \in Seq(Scopes) /\ Len(scopes') = n /\ scopes'[n] = top
      /\ \A i \in 1 .. n - 1 : scopes'[i] = scopes[i]
  BY <1>3, <1>4, <1>5
<1>8. \A i \in DOMAIN frames : FrameMovedFrom(frames[i], frames'[i], {})
  BY <1>1, SameFrames DEF Inv
<1>9. /\ pt' \in Points /\ pt'.runs = {r \cup {v} : r \in pt.runs}
      /\ pt'.cruns = {r \cup {v} : r \in pt.cruns} /\ ~pt'.ret /\ pt'.live = live
      /\ \A w \in Values : pt'.live[w] = IF condnest = 0 THEN pt.live[w]
                                         ELSE IF w \in {v} THEN "live" ELSE pt.live[w]
  <2>1. pt \in Points /\ pt.live \in [Values -> Lives] /\ "live" \in Lives
    BY DEF Inv, TypeOK, Points, Lives
  <2>2. Written(pt.live, {v}, "live") \in [Values -> Lives]
        /\ \A w \in Values : Written(pt.live, {v}, "live")[w] = IF w \in {v} THEN "live" ELSE pt.live[w]
    BY <2>1, LiveFacts
  <2>3. live \in [Values -> Lives]
        /\ \A w \in Values : live[w] = IF condnest = 0 THEN pt.live[w]
                                       ELSE IF w \in {v} THEN "live" ELSE pt.live[w]
    BY <2>1, <2>2
  <2>4. pt' = [pt EXCEPT !.runs = {r \cup {v} : r \in pt.runs}, !.cruns = {r \cup {v} : r \in pt.cruns},
                         !.cfell = {r \cup {v} : r \in pt.cfell}, !.live = live]
    BY <1>1
  <2> HIDE DEF live
  <2>5. {r \cup {v} : r \in pt.runs} \in SUBSET SUBSET Values
        /\ {r \cup {v} : r \in pt.cruns} \in SUBSET SUBSET Values
        /\ {r \cup {v} : r \in pt.cfell} \in SUBSET SUBSET Values
    BY <2>1, <1>2 DEF Points
  <2>6. /\ pt' \in Points /\ pt'.runs = {r \cup {v} : r \in pt.runs}
        /\ pt'.cruns = {r \cup {v} : r \in pt.cruns} /\ ~pt'.ret /\ pt'.live = live
    BY <1>1, <2>1, <2>3, <2>4, <2>5 DEF Points
  <2> QED BY <2>3, <2>6
<1>10. TypeOK'
  BY <1>1, <1>2, <1>7, <1>9, OwnershipAssumptions DEF Inv, TypeOK
<1>11. Moves({}, {v})
  <2>1. nvals' <= MaxValues
    BY <1>1, <1>2, OwnershipAssumptions
  <2>2. scopes'[n].vars = Top.vars \cup {v} /\ scopes'[n].owners = Top.owners \cup {v}
    BY <1>6, <1>7
  <2>3. \A w \in {v} : obj'[w] <= w
    BY <1>1, <1>2 DEF Inv, ValuesOK
  <2>4. Len(frames') = Len(frames) /\ \A w \in Values \ {v} : obj'[w] = obj[w]
    BY <1>1
  <2>5. \A w \in Values : pt'.live[w] = IF condnest = 0 THEN pt.live[w]
                                        ELSE IF w \in {v} THEN "live"
                                        ELSE IF w \in {} THEN "dead" ELSE pt.live[w]
    BY <1>9
  <2> QED BY <2>1, <2>2, <2>3, <2>4, <2>5, <1>1, <1>7, <1>8, <1>9 DEF Moves
<1> QED BY <1>1, <1>2, <1>6, <1>7, <1>9, <1>10, <1>11

\* The end of the code when the object of x has been given away.
LEMMA GivenFacts ==
  ASSUME Inv, ~pt.ret, NEW x \in Visible, ~IsDead(x)
  PROVE  /\ Given(x) \in Points
         /\ Given(x).runs = Without(pt.runs, {obj[x]}) /\ Given(x).cruns = Without(pt.cruns, {obj[x]})
         /\ ~Given(x).ret
         /\ \A v \in Values : Given(x).live[v] = IF condnest = 0 THEN pt.live[v]
                                                 ELSE IF v \in {x} THEN "dead" ELSE pt.live[v]
         /\ RunsAre(Given(x), Alive \ {x})
<1>1. x \in Alive /\ x \in Values
  BY MoveStart
<1>2. pt \in Points /\ pt.live \in [Values -> Lives]
  BY DEF Inv, TypeOK, Points
<1>3. /\ LivenessOfMove(pt.live, x, {}) \in [Values -> Lives]
      /\ \A v \in Values : LivenessOfMove(pt.live, x, {})[v] =
                             IF condnest = 0 THEN pt.live[v]
                             ELSE IF v \in {x} THEN "dead" ELSE pt.live[v]
  <2> DEFINE new == {}
  <2> HIDE DEF new
  <2>1. /\ LivenessOfMove(pt.live, x, new) \in [Values -> Lives]
        /\ \A v \in Values :
             LivenessOfMove(pt.live, x, new)[v] =
               IF condnest = 0 THEN pt.live[v]
               ELSE IF v \in new THEN "live" ELSE IF v \in {x} THEN "dead" ELSE pt.live[v]
    BY <1>1, <1>2, LivenessOfMoveFacts
  <2> QED BY <2>1 DEF new
<1>4. /\ Without(pt.runs, {obj[x]}) \in SUBSET SUBSET Values /\ Without(pt.cruns, {obj[x]}) \in SUBSET SUBSET Values
      /\ Without(pt.cfell, {obj[x]}) \in SUBSET SUBSET Values
  BY <1>2, WithoutFacts DEF Points
<1>5. /\ Given(x) \in Points /\ Given(x).live = LivenessOfMove(pt.live, x, {})
      /\ Given(x).runs = Without(pt.runs, {obj[x]}) /\ Given(x).cruns = Without(pt.cruns, {obj[x]})
      /\ ~Given(x).ret
  BY <1>2, <1>3, <1>4 DEF Given, Points
<1>6. RunsAre(Given(x), Alive \ {x})
  <2>1. Objs({x}) = {obj[x]} /\ Injective(Alive) /\ \A r \in pt.runs : r = Objs(Alive)
    BY DEF Objs, Inv, AliveOK, RunsAre
  <2>2. Objs(Alive) \ {obj[x]} = Objs(Alive \ {x})
    BY <2>1, <1>1, ObjsMinus
  <2> QED BY <1>5, <2>1, <2>2 DEF RunsAre, Without
<1> QED BY <1>3, <1>5, <1>6

\* Nothing has gone wrong, but on a run that has gone on behind a return.
SameGhost ==
  /\ ghost'.doubled = ghost.doubled /\ ghost'.leaked = ghost.leaked
  /\ ghost'.cdoubled = ghost.cdoubled /\ ghost'.cleaked = ghost.cleaked
  /\ ghost'.lost = ghost.lost /\ ghost'.misused = ghost.misused

LEMMA ConsumeFacts ==
  ASSUME Inv, result' = result, NEW x \in Visible, Consume(x)
  PROVE  \/ Statement /\ Refuse(x)
         \/ /\ Moves({x}, {}) /\ TypeOK'
            /\ obj' = obj /\ pt' = Given(x) /\ ~pt'.ret /\ ~IsDead(x)
            /\ scopes' = scopes
            /\ SameGhost
<1>1. CASE Refuse(x)
  BY <1>1 DEF Consume
<1>2. CASE ~Refuse(x)
  <2>1. /\ ~IsDead(x) /\ ~pt.ret /\ stmts < MaxStmts /\ stmts' = stmts + 1
        /\ deadset' = deadset \cup {x} /\ pt' = Given(x)
        /\ frames' = FramesOfMove(x)
        /\ ghost' = [ghost EXCEPT !.misused = Misused(x), !.fell = @ \cup Missing(pt.cfell, {obj[x]})]
        /\ nvals' = nvals /\ obj' = obj /\ scopes' = scopes /\ status' = status
    BY <1>2 DEF Consume, Statement
  <2>2. x \in Alive /\ x \in 1 .. nvals /\ x \in Values /\ Misused(x) = FALSE /\ ghost.misused = FALSE
    BY <2>1, MoveStart
  <2>3. ghost' \in Ghosts /\ SameGhost
    <3>1. obj[x] \in Values /\ ghost \in Ghosts
      BY <2>2 DEF Inv, TypeOK
    <3>2. Missing(pt.cfell, {obj[x]}) \in SUBSET Values
      BY <3>1 DEF Missing
    <3> QED BY <2>1, <2>2, <3>1, <3>2 DEF Ghosts, SameGhost
  <2>4. /\ frames' \in Seq(Frames) /\ Len(frames') = Len(frames)
        /\ \A i \in DOMAIN frames : FrameMovedFrom(frames[i], frames'[i], {x})
    BY <2>1, <2>2, FramesOfMoveFacts DEF Inv
  <2>5. pt' \in Points /\ ~pt'.ret
        /\ \A v \in Values : pt'.live[v] = IF condnest = 0 THEN pt.live[v]
                                           ELSE IF v \in {x} THEN "dead" ELSE pt.live[v]
    BY <2>1, GivenFacts
  <2>6. TypeOK'
    BY <2>1, <2>2, <2>3, <2>4, <2>5, OwnershipAssumptions DEF Inv, TypeOK
  <2>7. Moves({x}, {})
    <3>1. nvals' <= MaxValues /\ Top = scopes[Len(scopes)]
      BY <2>1, ScopeFacts, OwnershipAssumptions DEF Inv, TypeOK
    <3>2. \A v \in Values : pt'.live[v] = IF condnest = 0 THEN pt.live[v]
                                          ELSE IF v \in {} THEN "live"
                                          ELSE IF v \in {x} THEN "dead" ELSE pt.live[v]
      BY <2>5
    <3> QED BY <2>1, <2>2, <2>4, <2>5, <3>1, <3>2 DEF Moves
  <2> QED BY <2>1, <2>3, <2>5, <2>6, <2>7
<1> QED BY <1>1, <1>2

LEMMA RetScopesFacts ==
  ASSUME TypeOK, ScopesOK, NEW S \in SUBSET Values
  PROVE  LET R == RetScopes(S)
             n == Len(scopes)
         IN  /\ R \in Seq(Scopes) /\ Len(R) = n /\ \A i \in 1 .. n - 1 : R[i] = scopes[i]
             /\ R[n] \in Scopes /\ R[n].vars = Top.vars /\ R[n].owners = {}
             /\ R[n].drops = Unwound(S).drops
<1> DEFINE n == Len(scopes)
           top == [Unwound(S) EXCEPT !.owners = {}]
<1>1. Top \in Scopes /\ Top = scopes[n] /\ n \in Nat \ {0} /\ scopes \in Seq(Scopes)
  BY ScopeFacts DEF TypeOK
<1>2. Unwound(S) \in Scopes /\ Unwound(S).vars = Top.vars
  BY <1>1, BackpropagateFacts DEF Unwound
<1>3. RetScopes(S) = [scopes EXCEPT ![n] = top]
  BY <1>1 DEF RetScopes, Unwound
<1>4. top \in Scopes /\ top.vars = Top.vars /\ top.owners = {} /\ top.drops = Unwound(S).drops
  BY <1>2 DEF Scopes
<1> HIDE DEF top
<1> QED BY <1>1, <1>3, <1>4

LEMMA ReturnedFacts ==
  ASSUME NEW p \in Points, NEW S
  PROVE  /\ Returned(p, S) \in Points /\ Returned(p, S).ret /\ Returned(p, S).live = p.live
         /\ Returned(p, S).cruns = p.cruns
<1> DEFINE q == drop(p, S)
<1>1. q \in Points /\ q.live = p.live /\ q.cruns = p.cruns
  BY DropFacts
<1>2. Returned(p, S) = [q EXCEPT !.ret = TRUE]
  BY DEF Returned
<1> HIDE DEF q
<1> QED BY <1>1, <1>2 DEF Points

\* A return that drops what is alive doubles and leaks nothing.
LEMMA RetGhostFacts ==
  ASSUME TypeOK, NEW p \in Points, NEW S \in SUBSET Values, Injective(S), RunsAre(p, S)
  PROVE  LET h == RetGhost(p, S)
         IN  /\ h \in Ghosts /\ h.doubled = ghost.doubled /\ h.leaked = ghost.leaked
             /\ h.cdoubled = ghost.cdoubled /\ h.cleaked = ghost.cleaked /\ h.lost = ghost.lost
             /\ h.misused = ghost.misused
<1> DEFINE g == Doubling(ghost, p, S)
           more == UNION drop(p, S).runs
<1>1. DropDoubled(p, S) = {} /\ RunsAre(drop(p, S), S \ S)
  <2>1. S \in SUBSET S
    OBVIOUS
  <2> QED BY <2>1, DropExact
<1>2. more = {}
  BY <1>1 DEF RunsAre, Objs
<1>3. /\ g \in Ghosts /\ g.doubled = ghost.doubled /\ g.leaked = ghost.leaked
      /\ g.cdoubled = ghost.cdoubled /\ g.cleaked = ghost.cleaked /\ g.lost = ghost.lost
      /\ g.misused = ghost.misused
  <2>1. ghost \in Ghosts
    BY DEF TypeOK
  <2> QED BY <1>1, <2>1, DoublingFacts
<1>4. RetGhost(p, S) = [g EXCEPT !.leaked = @ \cup more]
  BY DEF RetGhost
<1> HIDE DEF g, more
<1> QED BY <1>2, <1>3, <1>4 DEF Ghosts

\* A return of p drops S, which is all that is alive at p.
Returns(p, S) ==
  /\ TypeOK' /\ obj' = obj /\ status' = status
  /\ pt'.ret /\ pt'.cruns = p.cruns
  /\ scopes'[Len(scopes)].drops = Unwound(S).drops
  /\ ghost'.doubled = ghost.doubled /\ ghost'.leaked = ghost.leaked
  /\ ghost'.cdoubled = ghost.cdoubled /\ ghost'.cleaked = ghost.cleaked
  /\ ghost'.lost = ghost.lost /\ ~ghost'.misused

LEMMA RetNoneFacts ==
  ASSUME Inv, result' = result, RetNone
  PROVE  Moves({}, {}) /\ Returns(pt, Alive)
<1> DEFINE n == Len(scopes)
<1>1. owners_unwind_all = Alive /\ Alive \in SUBSET Values
  BY OwnersFacts, ScopeFacts DEF owners_unwind_all, Alive, Owners, Inv
<1>2. /\ ~pt.ret /\ stmts < MaxStmts /\ stmts' = stmts + 1
      /\ scopes' = RetScopes(Alive) /\ pt' = Returned(pt, Alive) /\ ghost' = RetGhost(pt, Alive)
      /\ nvals' = nvals /\ obj' = obj /\ deadset' = deadset /\ frames' = frames /\ status' = status
  BY <1>1 DEF RetNone, Statement
<1>3. pt \in Points /\ Injective(Alive) /\ RunsAre(pt, Alive)
  BY <1>2 DEF Inv, TypeOK, AliveOK
<1>4. /\ ghost' \in Ghosts /\ ghost'.doubled = ghost.doubled /\ ghost'.leaked = ghost.leaked
      /\ ghost'.cdoubled = ghost.cdoubled /\ ghost'.cleaked = ghost.cleaked
      /\ ghost'.lost = ghost.lost /\ ghost'.misused = ghost.misused
  BY <1>1, <1>2, <1>3, RetGhostFacts DEF Inv
<1>5. pt' \in Points /\ pt'.ret /\ pt'.live = pt.live /\ pt'.cruns = pt.cruns
  BY <1>2, <1>3, ReturnedFacts
<1>6. /\ scopes' \in Seq(Scopes) /\ Len(scopes') = n /\ \A i \in 1 .. n - 1 : scopes'[i] = scopes[i]
      /\ scopes'[n].vars = Top.vars /\ scopes'[n].owners = {}
      /\ scopes'[n].drops = Unwound(Alive).drops
  BY <1>1, <1>2, RetScopesFacts DEF Inv
<1>7. TypeOK'
  BY <1>2, <1>4, <1>5, <1>6, OwnershipAssumptions DEF Inv, TypeOK
<1>8. ~ghost'.misused
  BY <1>4 DEF Inv, IRDropsOnce
<1>9. Returns(pt, Alive)
  BY <1>2, <1>4, <1>5, <1>6, <1>7, <1>8 DEF Returns
<1>10. Moves({}, {})
  <2>1. nvals' <= MaxValues /\ Len(frames') = Len(frames)
    BY <1>2, OwnershipAssumptions DEF Inv, TypeOK
  <2>2. \A v \in Values : pt'.live[v] = IF condnest = 0 THEN pt.live[v]
                                        ELSE IF v \in {} THEN "live"
                                        ELSE IF v \in {} THEN "dead" ELSE pt.live[v]
    BY <1>5
  <2>3. \A i \in DOMAIN frames : FrameMovedFrom(frames[i], frames'[i], {})
    BY <1>2, SameFrames DEF Inv
  <2> QED BY <1>2, <1>5, <1>6, <2>1, <2>2, <2>3 DEF Moves
<1> QED BY <1>9, <1>10

LEMMA RetFacts ==
  ASSUME Inv, result' = result, NEW x \in Visible, Ret(x)
  PROVE  \/ Statement /\ Refuse(x)
         \/ Moves({x}, {}) /\ Returns(Given(x), Alive \ {x}) /\ ~IsDead(x)
<1>1. CASE Refuse(x)
  BY <1>1 DEF Ret
<1>2. CASE ~Refuse(x)
  <2> DEFINE n == Len(scopes)
             S == Alive \ {x}
  <2>1. owners_unwind_all = Alive /\ Alive \in SUBSET Values
    BY OwnersFacts, ScopeFacts DEF owners_unwind_all, Alive, Owners, Inv
  <2>2. /\ ~IsDead(x) /\ ~pt.ret /\ stmts < MaxStmts /\ stmts' = stmts + 1
        /\ deadset' = deadset \cup {x} /\ scopes' = RetScopes(S) /\ pt' = Returned(Given(x), S)
        /\ frames' = FramesOfMove(x)
        /\ ghost' = [RetGhost(Given(x), S) EXCEPT !.misused = Misused(x)]
        /\ nvals' = nvals /\ obj' = obj /\ status' = status
    BY <1>2, <2>1 DEF Ret, Statement
  <2>3. x \in Alive /\ x \in 1 .. nvals /\ x \in Values /\ Misused(x) = FALSE /\ ghost.misused = FALSE
    BY <2>2, MoveStart
  <2>4. /\ Given(x) \in Points /\ RunsAre(Given(x), S)
        /\ \A v \in Values : Given(x).live[v] = IF condnest = 0 THEN pt.live[v]
                                                ELSE IF v \in {x} THEN "dead" ELSE pt.live[v]
    BY <2>2, GivenFacts
  <2>5. S \in SUBSET Values /\ Injective(S)
    BY <2>1 DEF Inv, AliveOK, Injective
  <2> HIDE DEF S
  <2>6. /\ ghost' \in Ghosts /\ ghost'.doubled = ghost.doubled /\ ghost'.leaked = ghost.leaked
        /\ ghost'.cdoubled = ghost.cdoubled /\ ghost'.cleaked = ghost.cleaked
        /\ ghost'.lost = ghost.lost /\ ~ghost'.misused
    <3>1. LET h == RetGhost(Given(x), S)
          IN  /\ h \in Ghosts /\ h.doubled = ghost.doubled /\ h.leaked = ghost.leaked
              /\ h.cdoubled = ghost.cdoubled /\ h.cleaked = ghost.cleaked /\ h.lost = ghost.lost
      BY <2>4, <2>5, RetGhostFacts DEF Inv
    <3>2. ghost' = [RetGhost(Given(x), S) EXCEPT !.misused = FALSE]
      BY <2>2, <2>3
    <3> QED BY <3>1, <3>2 DEF Ghosts
  <2>7. pt' \in Points /\ pt'.ret /\ pt'.live = Given(x).live /\ pt'.cruns = Given(x).cruns
    BY <2>2, <2>4, ReturnedFacts
  <2>8. /\ scopes' \in Seq(Scopes) /\ Len(scopes') = n /\ \A i \in 1 .. n - 1 : scopes'[i] = scopes[i]
        /\ scopes'[n].vars = Top.vars /\ scopes'[n].owners = {}
        /\ scopes'[n].drops = Unwound(S).drops
    BY <2>2, <2>5, RetScopesFacts DEF Inv
  <2>9. /\ frames' \in Seq(Frames) /\ Len(frames') = Len(frames)
        /\ \A i \in DOMAIN frames : FrameMovedFrom(frames[i], frames'[i], {x})
    BY <2>2, <2>3, FramesOfMoveFacts DEF Inv
  <2>10. TypeOK'
    BY <2>2, <2>3, <2>6, <2>7, <2>8, <2>9, OwnershipAssumptions DEF Inv, TypeOK
  <2>11. Returns(Given(x), S)
    BY <2>2, <2>6, <2>7, <2>8, <2>10 DEF Returns
  <2>12. Moves({x}, {})
    <3>1. nvals' <= MaxValues
      BY <2>2, OwnershipAssumptions DEF Inv, TypeOK
    <3>2. \A v \in Values : pt'.live[v] = IF condnest = 0 THEN pt.live[v]
                                          ELSE IF v \in {} THEN "live"
                                          ELSE IF v \in {x} THEN "dead" ELSE pt.live[v]
      BY <2>4, <2>7
    <3> QED BY <2>2, <2>3, <2>7, <2>8, <2>9, <3>1, <3>2 DEF Moves
  <2> QED BY <2>2, <2>11, <2>12 DEF S
<1> QED BY <1>1, <1>2

LEMMA UpTo ==
  ASSUME NEW n \in Nat \ {0}
  PROVE  /\ \A i \in 1 .. n : i = n \/ i \in 1 .. n - 1
         /\ \A i \in 1 .. n - 1 : i \in 1 .. n /\ i # n
         /\ n \in 1 .. n /\ 1 .. n - 1 \subseteq 1 .. n /\ n - 1 \in Nat
OBVIOUS

LEMMA MovesShape ==
  ASSUME Inv, NEW X, NEW new, Moves(X, new), TypeOK'
  PROVE  LET n == Len(scopes)
         IN  /\ n \in Nat \ {0} /\ DOMAIN scopes = 1 .. n /\ DOMAIN frames = 1 .. n - 1
             /\ DOMAIN scopes' = 1 .. n /\ DOMAIN frames' = 1 .. n - 1
             /\ Len(scopes') = n /\ Len(frames') = n - 1
             /\ nvals \in Nat /\ nvals' \in Nat /\ nvals <= nvals'
             /\ 1 .. nvals \subseteq Values /\ 1 .. nvals' \subseteq Values
             /\ new \subseteq nvals + 1 .. nvals' /\ new \subseteq Values
             /\ X \subseteq 1 .. nvals /\ X \subseteq Owners
             /\ \A i \in 0 .. n - 1 : OwnersTo(i)' = OwnersTo(i)
             /\ ~pt'.ret => Owners' = Owners \cup new
             /\ pt'.ret => Owners' = OuterOwners
<1> DEFINE n == Len(scopes)
<1>1. /\ n \in Nat \ {0} /\ DOMAIN scopes = 1 .. n /\ DOMAIN frames = 1 .. n - 1
      /\ Len(frames) = n - 1 /\ Top = scopes[n]
  BY ScopeFacts DEF Inv
<1>2. Len(scopes') = n /\ Len(frames') = n - 1
  BY <1>1 DEF Moves
<1>3. DOMAIN scopes' = 1 .. n /\ DOMAIN frames' = 1 .. n - 1
  BY <1>2 DEF TypeOK
<1>4. /\ nvals \in Nat /\ nvals' \in Nat /\ nvals <= nvals' /\ nvals' <= MaxValues /\ MaxValues \in Nat
      /\ new \subseteq nvals + 1 .. nvals'
  BY OwnershipAssumptions DEF Moves, Inv, TypeOK
<1>5. 1 .. nvals \subseteq Values /\ 1 .. nvals' \subseteq Values /\ new \subseteq Values
  BY <1>4 DEF Values
<1>6. X \subseteq Owners /\ X \subseteq 1 .. nvals
  <2>1. X \subseteq Owners
    BY DEF Moves, Alive
  <2>2. Owners \subseteq 1 .. nvals
    BY <1>1, OwnersFacts DEF Owners, Inv
  <2> QED BY <2>1, <2>2
<1>7. \A i \in 0 .. n - 1 : OwnersTo(i)' = OwnersTo(i)
  <2> SUFFICES ASSUME NEW i \in 0 .. n - 1
               PROVE  OwnersTo(i)' = OwnersTo(i)
    OBVIOUS
  <2>1. \A k \in 1 .. i : scopes'[k] = scopes[k]
    BY <1>1 DEF Moves
  <2> QED BY <2>1 DEF OwnersTo
<1>8. Owners' = OuterOwners \cup scopes'[n].owners
  <2>1. \A v : v \in Owners' <=> \E k \in 1 .. n : v \in scopes'[k].owners
    BY <1>2 DEF Owners, OwnersTo
  <2>2. \A v : v \in OuterOwners <=> \E k \in 1 .. n - 1 : v \in scopes[k].owners
    BY DEF OuterOwners, OwnersTo
  <2>3. n \in Nat \ {0}
    BY <1>1
  <2>4. (\A k \in 1 .. n : k = n \/ k \in 1 .. n - 1) /\ n \in 1 .. n /\ 1 .. n - 1 \subseteq 1 .. n
    <3> HIDE DEF n
    <3> QED BY <2>3, UpTo
  <2>5. \A k \in 1 .. n - 1 : scopes'[k] = scopes[k]
    BY DEF Moves
  <2>6. \A v : v \in Owners' <=> v \in OuterOwners \/ v \in scopes'[n].owners
    BY <2>1, <2>2, <2>4, <2>5
  <2> QED BY <2>6
<1>9. (~pt'.ret => Owners' = Owners \cup new) /\ (pt'.ret => Owners' = OuterOwners)
  <2>1. Owners = OuterOwners \cup Top.owners
    BY OwnersFacts DEF Inv
  <2> QED BY <1>8, <2>1 DEF Moves
<1> QED BY <1>1, <1>2, <1>3, <1>4, <1>5, <1>6, <1>7, <1>9

LEMMA MovesBase ==
  ASSUME Inv, NEW X, NEW new, Moves(X, new), TypeOK'
  PROVE  ValuesOK' /\ ScopesOK' /\ FramesOK'
<1> DEFINE n == Len(scopes)
<1>1. /\ n \in Nat \ {0} /\ DOMAIN scopes = 1 .. n /\ DOMAIN frames = 1 .. n - 1
      /\ DOMAIN scopes' = 1 .. n /\ DOMAIN frames' = 1 .. n - 1
      /\ Len(scopes') = n /\ Len(frames') = n - 1
      /\ nvals \in Nat /\ nvals' \in Nat /\ nvals <= nvals'
      /\ 1 .. nvals \subseteq Values /\ 1 .. nvals' \subseteq Values
      /\ new \subseteq nvals + 1 .. nvals' /\ new \subseteq Values
      /\ X \subseteq 1 .. nvals
  BY MovesShape
<1>2. Top = scopes[n] /\ \A i \in 1 .. n - 1 : scopes'[i] = scopes[i]
  BY <1>1, ScopeFacts DEF Moves, Inv
<1>3. /\ \A i \in 1 .. n : i = n \/ i \in 1 .. n - 1
      /\ \A i \in 1 .. n - 1 : i \in 1 .. n /\ i # n
      /\ n \in 1 .. n
  <2>1. n \in Nat \ {0}
    BY <1>1
  <2> HIDE DEF n
  <2> QED BY <2>1, UpTo
<1>4. \A i \in 1 .. n : scopes[i].vars \subseteq 1 .. nvals
  BY <1>1 DEF Inv, ScopesOK
<1>5. ValuesOK'
  <2>1. \A v \in Values \ new : obj'[v] = obj[v]
    BY DEF Moves
  <2>2. \A v \in new : obj'[v] <= v /\ v <= nvals'
    BY <1>1 DEF Moves
  <2>3. \A v \in Values \ new : v <= nvals' => v <= nvals
    BY <1>1 DEF Moves, Values
  <2>4. \A v \in Values : v <= nvals => v <= nvals'
    <3>1. \A v \in Values : v \in Int
      BY DEF Values
    <3>2. nvals \in Nat /\ nvals' \in Nat /\ nvals <= nvals'
      BY <1>1
    <3> QED BY <3>1, <3>2
  <2>5. \A v \in Values : IF v <= nvals THEN obj[v] <= v ELSE obj[v] = v
    BY DEF Inv, ValuesOK
  <2>6. \A v \in Values : IF v <= nvals' THEN obj'[v] <= v ELSE obj'[v] = v
    BY <2>1, <2>2, <2>3, <2>4, <2>5
  <2>7. deadset' \subseteq 1 .. nvals'
    BY <1>1 DEF Moves, Inv, ValuesOK
  <2> QED BY <2>6, <2>7 DEF ValuesOK
<1>6. ASSUME NEW i \in 1 .. n
      PROVE  /\ scopes'[i].vars = scopes[i].vars \cup (IF i = n THEN new ELSE {})
             /\ scopes'[i].owners \subseteq scopes'[i].vars
             /\ scopes'[i].vars \subseteq 1 .. nvals'
  <2>1. scopes[i].owners \subseteq scopes[i].vars /\ scopes[i].vars \subseteq 1 .. nvals
    BY <1>1 DEF Inv, ScopesOK
  <2>2. CASE i = n
    <3>1. scopes'[n].owners = {} \/ scopes'[n].owners = Top.owners \cup new
      BY DEF Moves
    <3>2. scopes'[n].vars = Top.vars \cup new
      BY DEF Moves
    <3>3. new \subseteq 1 .. nvals' /\ 1 .. nvals \subseteq 1 .. nvals'
      BY <1>1
    <3> QED BY <1>2, <2>1, <2>2, <3>1, <3>2, <3>3
  <2>3. CASE i # n
    <3>1. scopes'[i] = scopes[i]
      BY <1>2, <1>3, <2>3
    <3>2. 1 .. nvals \subseteq 1 .. nvals'
      BY <1>1
    <3> QED BY <2>1, <2>3, <3>1, <3>2
  <2> QED BY <2>2, <2>3
<1>7. ScopesOK'
  <2>1. ASSUME NEW i \in 1 .. n, NEW j \in 1 .. n, i # j
        PROVE  scopes'[i].vars \cap scopes'[j].vars = {}
    <3>1. scopes[i].vars \cap scopes[j].vars = {}
      BY <1>1, <2>1 DEF Inv, ScopesOK
    <3>2. new \cap 1 .. nvals = {}
      BY <1>1
    <3> QED BY <1>4, <1>6, <2>1, <3>1, <3>2
  <2>2. ~pt'.ret => Top.vars \cup new \subseteq (Top.owners \cup new) \cup (deadset \cup X)
    BY DEF Inv, ScopesOK, Moves
  <2>3. ~pt'.ret => scopes'[n].vars \subseteq scopes'[n].owners \cup deadset'
    BY <2>2 DEF Moves
  <2>4. Top' = scopes'[n]
    BY <1>1 DEF Top, Last
  <2>5. Len(scopes') = Len(frames') + 1
    BY <1>1
  <2>6. \A i \in DOMAIN scopes' : scopes'[i].owners \subseteq scopes'[i].vars /\ scopes'[i].vars \subseteq 1 .. nvals'
    BY <1>1, <1>6
  <2>7. \A i \in DOMAIN scopes' : \A j \in DOMAIN scopes' : i # j => scopes'[i].vars \cap scopes'[j].vars = {}
    BY <1>1, <2>1
  <2> QED BY <2>3, <2>4, <2>5, <2>6, <2>7 DEF ScopesOK
<1>8. FramesOK'
  <2> SUFFICES ASSUME NEW i \in 1 .. n - 1
               PROVE  LET f == frames'[i] IN
                      /\ ~f.entry.ret
                      /\ f.entry_deadset \subseteq deadset'
                      /\ \A j \in 1 .. n :
                           IF j <= i THEN scopes'[j].vars \subseteq scopes'[j].owners \cup f.entry_deadset
                                     ELSE scopes'[j].vars \cap f.entry_deadset = {}
                      /\ f.kind = "else" => f.entry_deadset \subseteq f.then_deadset /\ f.then_deadset \subseteq 1 .. nvals'
                      /\ \A j \in 1 .. n - 1 : i < j => f.entry_deadset \subseteq frames'[j].entry_deadset
    BY <1>1 DEF FramesOK
  <2>1. \A j \in 1 .. n - 1 : /\ frames'[j].kind = frames[j].kind
                              /\ frames'[j].entry_deadset = frames[j].entry_deadset
                              /\ frames'[j].then_deadset = frames[j].then_deadset
                              /\ frames'[j].entry.ret = frames[j].entry.ret
    BY <1>1 DEF Moves, FrameMovedFrom, MovedFrom
  <2>2. LET f == frames[i] IN
        /\ ~f.entry.ret
        /\ f.entry_deadset \subseteq deadset
        /\ \A j \in 1 .. n :
             IF j <= i THEN scopes[j].vars \subseteq scopes[j].owners \cup f.entry_deadset
                       ELSE scopes[j].vars \cap f.entry_deadset = {}
        /\ f.kind = "else" => f.entry_deadset \subseteq f.then_deadset /\ f.then_deadset \subseteq 1 .. nvals
        /\ \A j \in 1 .. n - 1 : i < j => f.entry_deadset \subseteq frames[j].entry_deadset
    BY <1>1 DEF Inv, FramesOK
  <2>3. frames[i].entry_deadset \subseteq deadset'
    BY <2>2 DEF Moves
  <2>4. 1 .. nvals \subseteq 1 .. nvals'
    BY <1>1
  <2>5. ASSUME NEW j \in 1 .. n
        PROVE  IF j <= i THEN scopes'[j].vars \subseteq scopes'[j].owners \cup frames[i].entry_deadset
                         ELSE scopes'[j].vars \cap frames[i].entry_deadset = {}
    <3>1. CASE j = n
      <4>1. ~(j <= i) /\ scopes'[j].vars = scopes[j].vars \cup new
        BY <1>1, <1>6, <3>1
      <4>2. new \cap frames[i].entry_deadset = {}
        <5>1. frames[i].entry_deadset \subseteq 1 .. nvals
          BY <2>2 DEF Inv, ValuesOK
        <5>2. new \subseteq nvals + 1 .. nvals' /\ nvals \in Nat
          BY <1>1
        <5> QED BY <5>1, <5>2
      <4> QED BY <2>2, <4>1, <4>2
    <3>2. CASE j # n
      BY <1>2, <1>3, <2>2, <3>2
    <3> QED BY <3>1, <3>2
  <2> QED BY <2>1, <2>2, <2>3, <2>4, <2>5
<1> QED BY <1>5, <1>7, <1>8

\* What the frames keep is not changed by a statement.
LEMMA MovesFrames ==
  ASSUME Inv, NEW X, NEW new, Moves(X, new), TypeOK', ghost'.lost = ghost.lost
  PROVE  FramesAliveOK' /\ FramesCAliveOK'
<1> DEFINE n == Len(scopes)
<1>1. /\ DOMAIN frames = 1 .. n - 1 /\ DOMAIN frames' = 1 .. n - 1 /\ n \in Nat \ {0}
      /\ 1 .. nvals \subseteq Values /\ new \cap 1 .. nvals = {}
      /\ \A i \in 0 .. n - 1 : OwnersTo(i)' = OwnersTo(i)
  <2>1. new \subseteq nvals + 1 .. nvals' /\ nvals \in Nat
    BY MovesShape
  <2>2. new \cap 1 .. nvals = {}
    BY <2>1
  <2> QED BY <2>2, MovesShape
<1>2. \A i \in 1 .. n - 1 : OwnersTo(i) \subseteq 1 .. nvals
  BY <1>1, OwnersFacts DEF Inv
<1>3. \A v \in 1 .. nvals : obj'[v] = obj[v]
  BY <1>1 DEF Moves
<1> SUFFICES ASSUME NEW i \in 1 .. n - 1
             PROVE  /\ Injective(AliveAt(i))'
                    /\ RunsAre(frames[i].entry, AliveAt(i))'
                    /\ (frames[i].kind = "else" /\ ~frames[i].then.ret => RunsAre(frames[i].then, AliveThen(i)))'
                    /\ CRunsAre(frames[i].entry, Objs(AliveAt(i)))'
                    /\ (frames[i].kind = "else" /\ ~frames[i].then.ret => CRunsAre(frames[i].then, Objs(AliveThen(i))))'
  BY <1>1 DEF FramesAliveOK, FramesCAliveOK
<1>4. /\ frames'[i].kind = frames[i].kind /\ frames'[i].entry_deadset = frames[i].entry_deadset
      /\ frames'[i].then_deadset = frames[i].then_deadset
      /\ frames'[i].entry.runs = frames[i].entry.runs /\ frames'[i].entry.cruns = frames[i].entry.cruns
      /\ frames'[i].then.runs = frames[i].then.runs /\ frames'[i].then.cruns = frames[i].then.cruns
      /\ frames'[i].then.ret = frames[i].then.ret
  BY <1>1 DEF Moves, FrameMovedFrom, MovedFrom
<1>5. /\ AliveAt(i)' = AliveAt(i) /\ AliveThen(i)' = AliveThen(i)
      /\ AliveAt(i) \subseteq 1 .. nvals /\ AliveThen(i) \subseteq 1 .. nvals
  <2>1. OwnersTo(i)' = OwnersTo(i) /\ OwnersTo(i) \subseteq 1 .. nvals
    BY <1>1, <1>2
  <2> QED BY <2>1, <1>4 DEF AliveAt, AliveThen
<1>6. /\ Objs(AliveAt(i))' = Objs(AliveAt(i)) /\ Objs(AliveThen(i))' = Objs(AliveThen(i))
      /\ Injective(AliveAt(i))'
  <2>1. Injective(AliveAt(i))
    BY <1>1 DEF Inv, AliveOK, FramesAliveOK
  <2>2. Objs(AliveAt(i))' = Objs(AliveAt(i))
    BY <1>3, <1>5 DEF Objs
  <2>3. Objs(AliveThen(i))' = Objs(AliveThen(i))
    BY <1>3, <1>5 DEF Objs
  <2>4. Injective(AliveAt(i))'
    BY <1>3, <1>5, <2>1 DEF Injective
  <2> QED BY <2>2, <2>3, <2>4
<1>7. /\ RunsAre(frames[i].entry, AliveAt(i))
      /\ frames[i].kind = "else" /\ ~frames[i].then.ret => RunsAre(frames[i].then, AliveThen(i))
      /\ CRunsAre(frames[i].entry, Objs(AliveAt(i)))
      /\ frames[i].kind = "else" /\ ~frames[i].then.ret => CRunsAre(frames[i].then, Objs(AliveThen(i)))
  BY <1>1 DEF Inv, AliveOK, FramesAliveOK, CAliveOK, FramesCAliveOK
<1>8. RunsAre(frames[i].entry, AliveAt(i))' /\ CRunsAre(frames[i].entry, Objs(AliveAt(i)))'
  BY <1>4, <1>6, <1>7 DEF RunsAre, CRunsAre
<1>9. frames'[i].kind = "else" /\ ~frames'[i].then.ret
        => RunsAre(frames[i].then, AliveThen(i))' /\ CRunsAre(frames[i].then, Objs(AliveThen(i)))'
  BY <1>4, <1>6, <1>7 DEF RunsAre, CRunsAre
<1> QED BY <1>6, <1>8, <1>9

LEMMA MovesLive ==
  ASSUME Inv, NEW X, NEW new, Moves(X, new), TypeOK',
         condnest = 0 => \A v \in X : pt.live[v] = "none"
  PROVE  LiveOK'
<1> DEFINE n == Len(scopes)
<1>1. /\ n \in Nat \ {0} /\ DOMAIN scopes = 1 .. n /\ DOMAIN frames = 1 .. n - 1
      /\ DOMAIN scopes' = 1 .. n /\ DOMAIN frames' = 1 .. n - 1 /\ Len(scopes') = n
      /\ 1 .. nvals \subseteq Values /\ new \subseteq Values
      /\ X \subseteq 1 .. nvals
      /\ \A i \in 0 .. n - 1 : OwnersTo(i)' = OwnersTo(i)
  BY MovesShape
<1>2. Owners' \subseteq Owners \cup new
  BY MovesShape, OwnersFacts DEF Inv
<1>3. /\ \A v \in Values : v > nvals' => v > nvals /\ v \notin new /\ v \notin X
      /\ new \cap 1 .. nvals = {}
  <2>1. new \subseteq nvals + 1 .. nvals' /\ nvals \in Nat /\ nvals' \in Nat /\ nvals <= nvals'
        /\ X \subseteq 1 .. nvals
    BY MovesShape
  <2>2. \A v \in Values : v \in Int
    BY DEF Values
  <2> QED BY <2>1, <2>2
<1>4. /\ \A i \in 1 .. n - 1 : OwnersTo(i) \subseteq Values /\ OwnersTo(i) \subseteq 1 .. nvals
      /\ Owners \subseteq Values /\ Owners \subseteq 1 .. nvals
  <2>1. \A i \in 0 .. n : OwnersTo(i) \subseteq 1 .. nvals /\ OwnersTo(i) \subseteq Values
    BY OwnersFacts DEF Inv
  <2>2. (\A i \in 1 .. n - 1 : i \in 0 .. n) /\ n \in 0 .. n
    BY <1>1
  <2> QED BY <2>1, <2>2 DEF Owners
<1>5. X \cap deadset = {} /\ deadset' = deadset \cup X /\ deadset \cap new = {}
  BY <1>3 DEF Moves, Alive, Inv, ValuesOK
<1>6. \A v \in Values :
        pt'.live[v] = IF condnest = 0 THEN pt.live[v]
                      ELSE IF v \in new THEN "live"
                      ELSE IF v \in X THEN "dead" ELSE pt.live[v]
  BY DEF Moves
<1>7. \A i \in 1 .. n - 1 :
        /\ frames'[i].kind = frames[i].kind /\ frames'[i].entry_deadset = frames[i].entry_deadset
        /\ frames'[i].then_deadset = frames[i].then_deadset
        /\ \A v \in Values :
             /\ frames'[i].entry.live[v] = IF condnest # 0 /\ v \in X /\ frames[i].entry.live[v] = "none"
                                           THEN "dead" ELSE frames[i].entry.live[v]
             /\ frames'[i].then.live[v] = IF condnest # 0 /\ v \in X /\ frames[i].then.live[v] = "none"
                                          THEN "dead" ELSE frames[i].then.live[v]
  BY <1>1 DEF Moves, FrameMovedFrom, MovedFrom
<1>8. condnest = 0 <=> \A i \in 1 .. n - 1 : frames[i].kind = "block"
  BY <1>1, CondNestFacts DEF Inv
<1>9. Untouched(pt)'
  <2>1. \A v \in Values : v > nvals => pt.live[v] = "none"
    BY DEF Inv, LiveOK, Untouched
  <2> QED BY <1>3, <1>6, <2>1 DEF Untouched
<1>10. Decided(pt, Owners, deadset)'
  <2> SUFFICES ASSUME NEW v \in Owners'
               PROVE  pt'.live[v] # "phi" /\ (v \in deadset' => pt'.live[v] # "live")
    BY DEF Decided
  <2>1. v \in Values /\ v \in Owners \cup new
    BY <1>1, <1>2, <1>4
  <2>2. v \in Owners => pt.live[v] # "phi" /\ (v \in deadset => pt.live[v] # "live")
    BY DEF Inv, LiveOK, Decided
  <2>3. v \in new => pt.live[v] = "none" /\ v \notin X /\ v \notin deadset
    <3>1. v \in new => v > nvals
      BY <1>3, <1>1, <2>1 DEF Inv, TypeOK, Values
    <3>2. v > nvals => pt.live[v] = "none"
      BY <2>1 DEF Inv, LiveOK, Untouched
    <3> QED BY <1>1, <1>3, <1>5, <3>1, <3>2
  <2>4. CASE condnest = 0
    <3>1. v \in X => pt.live[v] = "none"
      BY <2>4
    <3>2. pt'.live[v] = pt.live[v]
      BY <1>6, <2>1, <2>4
    <3> QED BY <1>5, <2>1, <2>2, <2>3, <3>1, <3>2
  <2>5. CASE condnest # 0
    <3>1. pt'.live[v] = IF v \in new THEN "live" ELSE IF v \in X THEN "dead" ELSE pt.live[v]
      BY <1>6, <2>1, <2>5
    <3> QED BY <1>5, <2>1, <2>2, <2>3, <3>1
  <2> QED BY <2>4, <2>5
<1>11. MadeInBranch(pt, Len(scopes))'
  <2> SUFFICES ASSUME NEW i \in 1 .. n, NEW v \in scopes'[i].owners, pt'.live[v] = "live"
               PROVE  \E k \in 1 .. i - 1 : frames'[k].kind # "block"
    BY <1>1 DEF MadeInBranch
  <2>1. \A k \in 1 .. i - 1 : k \in 1 .. n - 1 /\ frames'[k].kind = frames[k].kind
    <3>1. \A k \in 1 .. i - 1 : k \in 1 .. n - 1
      BY <1>1
    <3> QED BY <3>1, <1>7
  <2>2. v \in scopes[i].owners \/ (i = n /\ v \in new)
    <3>1. CASE i = n
      BY <3>1, ScopeFacts DEF Moves, Inv
    <3>2. CASE i # n
      <4>1. i \in 1 .. n - 1
        BY <1>1, <3>2
      <4> QED BY <4>1 DEF Moves
    <3> QED BY <3>1, <3>2
  <2>3. v \in Values
    BY <1>1, <2>2, ScopeFacts DEF Inv, Scopes
  <2>4. CASE condnest # 0 /\ v \in new /\ i = n
    BY <1>8, <2>1, <2>4
  <2>5. CASE v \in scopes[i].owners
    <3>1. v \notin new
      <4>1. v \in 1 .. nvals
        BY <1>1, <2>5 DEF Inv, ScopesOK
      <4> QED BY <1>3, <4>1
    <3>2. pt.live[v] = "live"
      BY <1>6, <2>3, <3>1
    <3>3. \E k \in 1 .. i - 1 : frames[k].kind # "block"
      BY <2>5, <3>2 DEF Inv, LiveOK, MadeInBranch
    <3> QED BY <2>1, <3>3
  <2>6. CASE condnest = 0 /\ v \in new
    <3>1. pt.live[v] = "live"
      BY <1>6, <2>3, <2>6
    <3>2. v > nvals
      BY <1>3, <1>1, <2>3, <2>6 DEF Inv, TypeOK, Values
    <3>3. pt.live[v] = "none"
      BY <2>3, <3>2 DEF Inv, LiveOK, Untouched
    <3> QED BY <3>1, <3>3
  <2> QED BY <2>2, <2>4, <2>5, <2>6
<1>12. ASSUME NEW i \in 1 .. n - 1
       PROVE  /\ Untouched(frames[i].entry)'
              /\ Decided(frames[i].entry, OwnersTo(i), frames[i].entry_deadset)'
              /\ MadeInBranch(frames[i].entry, i)'
              /\ (frames[i].kind = "else" => Untouched(frames[i].then))'
  <2>1. /\ Untouched(frames[i].entry)
        /\ Decided(frames[i].entry, OwnersTo(i), frames[i].entry_deadset)
        /\ MadeInBranch(frames[i].entry, i)
        /\ frames[i].kind = "else" => Untouched(frames[i].then)
    BY <1>1 DEF Inv, LiveOK
  <2>2. Untouched(frames[i].entry)' /\ (frames[i].kind = "else" => Untouched(frames[i].then))'
    BY <1>3, <1>7, <2>1 DEF Untouched
  <2>3. Decided(frames[i].entry, OwnersTo(i), frames[i].entry_deadset)'
    <3>1. OwnersTo(i)' = OwnersTo(i) /\ OwnersTo(i) \subseteq Values
      BY <1>1, <1>4
    <3> QED BY <1>7, <2>1, <3>1 DEF Decided
  <2>4. MadeInBranch(frames[i].entry, i)'
    <3> SUFFICES ASSUME NEW j \in 1 .. i, NEW v \in scopes'[j].owners, frames'[i].entry.live[v] = "live"
                 PROVE  \E k \in 1 .. j - 1 : frames'[k].kind # "block"
      BY DEF MadeInBranch
    <3>1. j \in 1 .. n - 1 /\ \A k \in 1 .. j - 1 : k \in 1 .. n - 1
      BY <1>1
    <3>2. scopes'[j] = scopes[j] /\ v \in scopes[j].owners
      BY <3>1 DEF Moves
    <3>3. v \in Values
      <4>1. j \in 1 .. n
        BY <1>1, <3>1
      <4> QED BY <3>2, <4>1, ScopeFacts DEF Inv, Scopes
    <3>4. frames[i].entry.live[v] = "live"
      BY <1>7, <3>3
    <3>5. \E k \in 1 .. j - 1 : frames[k].kind # "block"
      BY <2>1, <3>2, <3>4 DEF MadeInBranch
    <3> QED BY <1>7, <3>1, <3>5
  <2> QED BY <2>2, <2>3, <2>4
<1>13. ASSUME NEW i \in 1 .. n - 1, frames[i].kind # "block"
       PROVE  /\ Follows(pt, deadset, i)'
              /\ \A j \in 1 .. n - 1 :
                   /\ j > i => Follows(frames[j].entry, frames[j].entry_deadset, i)'
                   /\ j >= i /\ frames'[j].kind = "else" => Follows(frames[j].then, frames[j].then_deadset, i)'
  <2>1. condnest # 0
    BY <1>8, <1>13
  <2>2. /\ Follows(pt, deadset, i)
        /\ \A j \in 1 .. n - 1 :
             /\ j > i => Follows(frames[j].entry, frames[j].entry_deadset, i)
             /\ j >= i /\ frames[j].kind = "else" => Follows(frames[j].then, frames[j].then_deadset, i)
    BY <1>1, <1>13 DEF Inv, LiveOK
  <2>3. /\ OwnersTo(i)' = OwnersTo(i) /\ OwnersTo(i) \subseteq Values
        /\ \A v \in OwnersTo(i) : v \notin new
    BY <1>1, <1>3, <1>4
  <2>4. frames[i].entry_deadset \cap X = {} /\ frames'[i].entry_deadset = frames[i].entry_deadset
    BY <1>1, <1>5, <1>7 DEF Inv, FramesOK
  <2>5. \A v \in OwnersTo(i) : frames'[i].entry.live[v] = IF v \in X /\ frames[i].entry.live[v] = "none"
                                                          THEN "dead" ELSE frames[i].entry.live[v]
    BY <1>7, <2>1, <2>3
  <2>6. Follows(pt, deadset, i)'
    <3>1. \A v \in OwnersTo(i) : pt'.live[v] = IF v \in X THEN "dead" ELSE pt.live[v]
      BY <1>6, <2>1, <2>3
    <3>2. \A v \in OwnersTo(i) : v \in deadset' \ frames[i].entry_deadset
                                   <=> v \in X \/ v \in deadset \ frames[i].entry_deadset
      BY <1>5, <2>4
    <3> QED BY <2>2, <2>3, <2>4, <2>5, <3>1, <3>2 DEF Follows
  <2>7. ASSUME NEW j \in 1 .. n - 1, j > i
        PROVE  Follows(frames[j].entry, frames[j].entry_deadset, i)'
    <3>1. \A v \in OwnersTo(i) : frames'[j].entry.live[v] = IF v \in X /\ frames[j].entry.live[v] = "none"
                                                            THEN "dead" ELSE frames[j].entry.live[v]
      BY <1>7, <2>1, <2>3
    <3>2. Follows(frames[j].entry, frames[j].entry_deadset, i)
      BY <2>2, <2>7
    <3>3. frames'[j].entry_deadset = frames[j].entry_deadset
      BY <1>7
    <3> QED BY <2>3, <2>4, <2>5, <3>1, <3>2, <3>3 DEF Follows
  <2>8. ASSUME NEW j \in 1 .. n - 1, j >= i, frames'[j].kind = "else"
        PROVE  Follows(frames[j].then, frames[j].then_deadset, i)'
    <3>1. \A v \in OwnersTo(i) : frames'[j].then.live[v] = IF v \in X /\ frames[j].then.live[v] = "none"
                                                           THEN "dead" ELSE frames[j].then.live[v]
      BY <1>7, <2>1, <2>3
    <3>2. Follows(frames[j].then, frames[j].then_deadset, i)
      BY <1>7, <2>2, <2>8
    <3>3. frames'[j].then_deadset = frames[j].then_deadset
      BY <1>7
    <3> QED BY <2>3, <2>4, <2>5, <3>1, <3>2, <3>3 DEF Follows
  <2> QED BY <2>6, <2>7, <2>8
<1> QED
  <2>1. \A i \in DOMAIN frames' : frames'[i].kind = frames[i].kind
    BY <1>1, <1>7
  <2> QED BY <1>1, <1>9, <1>10, <1>11, <1>12, <1>13, <2>1 DEF LiveOK

\* A step that changes nothing but the status, as a refused statement.
LEMMA SameInv ==
  ASSUME Inv, UNCHANGED <<nvals, obj, scopes, deadset, pt, frames, ghost>>, TypeOK',
         status' # "building" \/ status' = status
  PROVE  Inv'
<1>1. ValuesOK' /\ ScopesOK' /\ FramesOK'
  BY DEF Inv, ValuesOK, ScopesOK, FramesOK, Top
<1>2. FramesAliveOK'
  BY DEF Inv, AliveOK, FramesAliveOK, Injective, RunsAre, AliveAt, AliveThen, OwnersTo, Objs
<1>3. AliveOK'
  BY <1>2 DEF Inv, AliveOK, Injective, RunsAre, Alive, Owners, OwnersTo, Objs
<1>4. FramesCAliveOK'
  BY DEF Inv, CAliveOK, FramesCAliveOK, CRunsAre, AliveAt, AliveThen, OwnersTo, Objs
<1>5. CAliveOK'
  BY <1>4 DEF Inv, CAliveOK, CRunsAre, Lost, OnceOutside, Top, Alive, Owners, OwnersTo, Objs
<1>6. LiveOK'
  BY DEF Inv, LiveOK, Untouched, Decided, MadeInBranch, Follows, Owners, OwnersTo
<1>7. IRDropsOnce' /\ CDropsOnceIfNotLost'
  BY DEF Inv, IRDropsOnce, CDropsOnceIfNotLost
<1> QED BY <1>1, <1>3, <1>5, <1>6, <1>7 DEF Inv

LEMMA RefuseInv ==
  ASSUME Inv, result' = result, NEW x \in Visible, Statement, Refuse(x)
  PROVE  Inv'
<1>1. TypeOK'
  BY OwnershipAssumptions DEF Inv, TypeOK, Statement, Refuse
<1> QED BY <1>1, SameInv DEF Refuse

\* What is left of the invariant after a statement: the code goes on, ...
LEMMA MovesInv ==
  ASSUME Inv, NEW X, NEW new, Moves(X, new), TypeOK', SameGhost, ~pt'.ret,
         condnest = 0 => \A v \in X : pt.live[v] = "none",
         scopes'[Len(scopes)].drops = Top.drops,
         Injective(Alive)', RunsAre(pt, Alive)', CRunsAre(pt, Objs(Alive))'
  PROVE  Inv'
<1> DEFINE n == Len(scopes)
<1>1. n \in Nat \ {0} /\ DOMAIN scopes' = 1 .. n /\ Len(scopes') = n
  BY MovesShape
<1>2. /\ ValuesOK' /\ ScopesOK' /\ FramesOK' /\ FramesAliveOK' /\ FramesCAliveOK' /\ LiveOK'
      /\ IRDropsOnce' /\ CDropsOnceIfNotLost'
  BY MovesBase, MovesFrames, MovesLive DEF Inv, IRDropsOnce, CDropsOnceIfNotLost, SameGhost
<1>3. AliveOK'
  BY <1>2 DEF AliveOK
<1>4. Top' = scopes'[n]
  BY <1>1 DEF Top, Last
<1>5. Lost(Top)' /\ \A i \in 1 .. n - 1 : Lost(scopes[i])'
  <2>1. Lost(Top) /\ \A i \in 1 .. n - 1 : Lost(scopes[i])
    BY DEF Inv, CAliveOK, Moves
  <2>2. \A i \in 1 .. n - 1 : scopes'[i] = scopes[i]
    BY DEF Moves
  <2> QED BY <1>4, <2>1, <2>2 DEF Lost, SameGhost
<1>6. CAliveOK'
  BY <1>1, <1>2, <1>5 DEF CAliveOK
<1> QED BY <1>2, <1>3, <1>6 DEF Inv

\* ... or it returns what is left in p of the set S.
LEMMA ReturnsInv ==
  ASSUME Inv, NEW X, NEW p, Moves(X, {}), Returns(p, Alive \ X),
         condnest = 0 => \A v \in X : pt.live[v] = "none",
         CRunsAre(p, Objs(Alive \ X))
  PROVE  Inv'
<1> DEFINE n == Len(scopes)
           S == Alive \ X
<1>0. TypeOK' /\ pt'.ret /\ ghost'.lost = ghost.lost /\ pt'.cruns = p.cruns /\ obj' = obj
  BY DEF Returns
<1>1. n \in Nat \ {0} /\ DOMAIN scopes' = 1 .. n /\ Len(scopes') = n /\ Owners' = OuterOwners
  BY <1>0, MovesShape
<1>2. /\ ValuesOK' /\ ScopesOK' /\ FramesOK' /\ FramesAliveOK' /\ FramesCAliveOK' /\ LiveOK'
  BY <1>0, MovesBase, MovesFrames, MovesLive
<1>3. IRDropsOnce' /\ CDropsOnceIfNotLost'
  BY DEF Inv, IRDropsOnce, CDropsOnceIfNotLost, Returns
<1>4. S \in SUBSET Values /\ Injective(S) /\ Injective(Alive)
  <2>1. Owners \subseteq Values /\ Injective(Alive)
    BY OwnersFacts, ScopeFacts DEF Owners, Inv, AliveOK
  <2> QED BY <2>1 DEF Injective, Alive
<1>5. AliveOK'
  <2>1. Alive' \subseteq Alive
    BY <1>1, OwnersFacts DEF Alive, Moves, Inv
  <2>2. Injective(Alive)'
    BY <1>0, <1>4, <2>1 DEF Injective
  <2> QED BY <1>0, <1>2, <2>2 DEF AliveOK
<1>6. Top' = scopes'[n] /\ scopes'[n].owners = {} /\ scopes'[n].drops = Unwound(S).drops
  BY <1>0, <1>1 DEF Top, Last, Moves, Returns
<1>7. Lost(Top) /\ \A i \in 1 .. n - 1 : Lost(scopes[i])'
  <2>1. Lost(Top) /\ \A i \in 1 .. n - 1 : Lost(scopes[i])
    BY DEF Inv, CAliveOK, Moves
  <2>2. \A i \in 1 .. n - 1 : scopes'[i] = scopes[i]
    BY DEF Moves
  <2> QED BY <1>0, <2>1, <2>2 DEF Lost
<1>8. /\ ToSet(Unwound(S).drops) = ToSet(Top.drops) \cup Objs(S)
      /\ \A i, j \in DOMAIN Unwound(S).drops :
           /\ Unwound(S).drops[i] = Unwound(S).drops[j] /\ Unwound(S).drops[i] \notin ToSet(Top.drops)
           => i = j
  BY <1>4, BackpropagateFacts, ScopeFacts DEF Unwound, Inv
<1> HIDE DEF S
<1>9. CRunsAre(pt, ToSet(Top.drops))'
  <2>1. \A r \in p.cruns : r \ ghost.lost = Objs(S) \ ghost.lost
    BY DEF CRunsAre, S
  <2>2. ToSet(Top.drops) \subseteq ghost.lost
    BY <1>7 DEF Lost
  <2>3. ToSet(Top.drops)' = ToSet(Top.drops) \cup Objs(S)
    BY <1>6, <1>8 DEF ToSet
  <2> QED BY <1>0, <2>1, <2>2, <2>3 DEF CRunsAre
<1>10. OnceOutside(Top.drops)'
  <2>1. Top'.drops = Unwound(S).drops
    BY <1>6
  <2>2. ToSet(Top.drops) \subseteq ghost'.lost
    BY <1>0, <1>7 DEF Lost
  <2> QED BY <1>8, <2>1, <2>2 DEF OnceOutside
<1>11. CAliveOK'
  BY <1>0, <1>1, <1>2, <1>6, <1>7, <1>9, <1>10 DEF CAliveOK
<1> QED BY <1>0, <1>2, <1>3, <1>5, <1>11 DEF Inv

LEMMA AliveNext ==
  ASSUME Inv, NEW X, NEW new, Moves(X, new), TypeOK', ~pt'.ret
  PROVE  /\ Alive' = (Alive \ X) \cup new /\ Alive \subseteq 1 .. nvals /\ Alive \cap new = {}
         /\ \A v \in Alive : obj'[v] = obj[v] /\ obj[v] <= nvals
<1>1. Owners' = Owners \cup new /\ deadset' = deadset \cup X /\ X \subseteq 1 .. nvals
  <2>1. X \subseteq 1 .. nvals /\ (~pt'.ret => Owners' = Owners \cup new)
    BY MovesShape
  <2> QED BY <2>1 DEF Moves
<1>2. Owners \subseteq 1 .. nvals
  BY OwnersFacts, ScopeFacts DEF Owners, Inv
<1>3. deadset \cap new = {} /\ X \cap new = {} /\ new \cap 1 .. nvals = {}
  <2>1. new \subseteq nvals + 1 .. nvals' /\ nvals \in Nat
    BY MovesShape
  <2>2. new \cap 1 .. nvals = {}
    BY <2>1
  <2> QED BY <1>1, <2>2 DEF Inv, ValuesOK
<1>4. Alive' = (Alive \ X) \cup new
  BY <1>1, <1>3 DEF Alive
<1>5. Alive \subseteq 1 .. nvals /\ Alive \cap new = {}
  BY <1>2, <1>3 DEF Alive
<1>6. \A v \in 1 .. nvals : v \in Values /\ v <= nvals /\ obj[v] <= v /\ obj[v] \in Int
  <2>1. 1 .. nvals \subseteq Values
    BY MovesShape
  <2>2. \A v \in Values : v \in Nat /\ obj[v] \in Nat
    BY DEF Inv, TypeOK, Values
  <2> QED BY <2>1, <2>2 DEF Inv, ValuesOK
<1>7. \A v \in Alive : obj'[v] = obj[v] /\ obj[v] <= nvals
  <2>1. \A v \in Alive : v \in Values \ new
    BY <1>5, <1>6
  <2>2. \A v \in 1 .. nvals : obj[v] <= nvals
    BY <1>6 DEF Inv, TypeOK
  <2> QED BY <1>5, <2>1, <2>2 DEF Moves
<1> QED BY <1>4, <1>5, <1>7

LEMMA LetMoveInv ==
  ASSUME Inv, result' = result, NEW x \in Visible, LetMove(x)
  PROVE  Inv'
<1>0. Statement
  BY DEF LetMove
<1>1. CASE Refuse(x)
  BY <1>0, <1>1, RefuseInv
<1>2. CASE ~Refuse(x)
  <2> DEFINE v == nvals + 1
             A == Alive \ {x}
  <2>1. /\ Moves({x}, {v}) /\ TypeOK' /\ obj'[v] = obj[x]
        /\ pt'.runs = pt.runs /\ pt'.cruns = pt.cruns /\ ~pt'.ret
        /\ scopes'[Len(scopes)].drops = Top.drops /\ ghost' = ghost
    BY <1>2, LetMoveFacts
  <2>2. ~pt.ret /\ ~IsDead(x)
    BY <1>2, <2>1 DEF LetMove, Moves
  <2>3. x \in Alive /\ (condnest = 0 => pt.live[x] = "none")
    BY <2>2, MoveStart
  <2>4. Alive' = A \cup {v} /\ \A w \in Alive : obj'[w] = obj[w] /\ w # v
    BY <2>1, AliveNext
  <2>5. Injective(Alive) /\ RunsAre(pt, Alive) /\ CRunsAre(pt, Objs(Alive))
    BY <2>2 DEF Inv, AliveOK, CAliveOK
  <2>6. Injective(Alive)'
    <3>1. \A w \in A : obj'[w] # obj'[v]
      BY <2>1, <2>3, <2>4, <2>5 DEF Injective
    <3>2. \A w, u \in A : obj'[w] = obj'[u] => w = u
      BY <2>4, <2>5 DEF Injective
    <3> HIDE DEF A, v
    <3> QED BY <2>4, <3>1, <3>2 DEF Injective
  <2>7. Objs(Alive)' = Objs(Alive)
    <3>1. Objs(Alive)' = {obj'[w] : w \in A} \cup {obj'[v]}
      BY <2>4 DEF Objs
    <3>2. \A w \in A : obj'[w] = obj[w]
      BY <2>4
    <3>3. Objs(Alive) = {obj[w] : w \in A} \cup {obj[x]}
      BY <2>3 DEF Objs
    <3> QED BY <2>1, <3>1, <3>2, <3>3
  <2>8. RunsAre(pt, Alive)' /\ CRunsAre(pt, Objs(Alive))'
    BY <2>1, <2>5, <2>7 DEF RunsAre, CRunsAre
  <2>9. condnest = 0 => \A w \in {x} : pt.live[w] = "none"
    BY <2>3
  <2> QED BY <2>1, <2>6, <2>8, <2>9, MovesInv DEF SameGhost
<1> QED BY <1>1, <1>2

LEMMA LetCallInv ==
  ASSUME Inv, result' = result, LetCall
  PROVE  Inv'
<1> DEFINE v == nvals + 1
<1>1. /\ Moves({}, {v}) /\ TypeOK' /\ v \in Values /\ obj' = obj
      /\ pt'.runs = {r \cup {v} : r \in pt.runs} /\ pt'.cruns = {r \cup {v} : r \in pt.cruns}
      /\ ~pt'.ret /\ scopes'[Len(scopes)].drops = Top.drops /\ ghost' = ghost
  BY LetCallFacts
<1>2. /\ Alive' = Alive \cup {v} /\ Alive \subseteq 1 .. nvals /\ Alive \cap {v} = {}
      /\ \A w \in Alive : obj[w] <= nvals
  BY <1>1, AliveNext
<1>3. Injective(Alive) /\ RunsAre(pt, Alive) /\ CRunsAre(pt, Objs(Alive))
  BY <1>1 DEF Inv, AliveOK, CAliveOK, Moves
<1>4. obj[v] = v /\ ~(v <= nvals)
  BY <1>1 DEF Inv, ValuesOK, TypeOK
<1> HIDE DEF v
<1>5. Injective(Alive)'
  <2>1. \A w \in Alive : obj[w] # obj[v]
    BY <1>2, <1>4
  <2> QED BY <1>1, <1>2, <1>3, <2>1 DEF Injective
<1>6. Objs(Alive)' = Objs(Alive) \cup {v}
  BY <1>1, <1>2, <1>4 DEF Objs
<1>7. RunsAre(pt, Alive)' /\ CRunsAre(pt, Objs(Alive))'
  <2>1. \A r \in pt.runs : r = Objs(Alive)
    BY <1>3 DEF RunsAre
  <2>2. \A r \in pt.cruns : r \ ghost.lost = Objs(Alive) \ ghost.lost
    BY <1>3 DEF CRunsAre
  <2>3. \A r \in pt'.runs : r = Objs(Alive) \cup {v}
    BY <1>1, <2>1
  <2>4. \A r \in pt'.cruns : r \ ghost.lost = (Objs(Alive) \cup {v}) \ ghost.lost
    BY <1>1, <2>2
  <2> QED BY <1>1, <1>6, <2>3, <2>4 DEF RunsAre, CRunsAre
<1> QED BY <1>1, <1>5, <1>7, MovesInv DEF SameGhost

\* What is left when the object of x is given away.
LEMMA GivenCRuns ==
  ASSUME Inv, ~pt.ret, NEW x \in Visible, ~IsDead(x)
  PROVE  CRunsAre(Given(x), Objs(Alive \ {x}))
<1>1. x \in Alive /\ Given(x).cruns = {r \ {obj[x]} : r \in pt.cruns}
  BY MoveStart, GivenFacts DEF Without
<1>2. Injective(Alive) /\ \A r \in pt.cruns : r \ ghost.lost = Objs(Alive) \ ghost.lost
  BY DEF Inv, AliveOK, CAliveOK, CRunsAre
<1>3. Objs(Alive) \ {obj[x]} = Objs(Alive \ {x})
  <2>1. Objs({x}) = {obj[x]}
    BY DEF Objs
  <2> QED BY <1>1, <1>2, <2>1, ObjsMinus
<1>4. \A r \in pt.cruns : (r \ {obj[x]}) \ ghost.lost = Objs(Alive \ {x}) \ ghost.lost
  BY <1>2, <1>3
<1> QED BY <1>1, <1>4 DEF CRunsAre

LEMMA ConsumeInv ==
  ASSUME Inv, result' = result, NEW x \in Visible, Consume(x)
  PROVE  Inv'
<1>0. Statement
  BY DEF Consume
<1>1. CASE Refuse(x)
  BY <1>0, <1>1, RefuseInv
<1>2. CASE ~Refuse(x)
  <2>1. /\ Moves({x}, {}) /\ TypeOK' /\ obj' = obj /\ pt' = Given(x) /\ ~pt'.ret /\ ~IsDead(x)
        /\ scopes' = scopes /\ SameGhost
    BY <1>2, ConsumeFacts
  <2>2. ~pt.ret
    BY <2>1 DEF Moves
  <2>3. x \in Alive /\ (condnest = 0 => \A w \in {x} : pt.live[w] = "none")
    BY <2>1, <2>2, MoveStart
  <2>4. Alive' = Alive \ {x}
    <3>1. Alive' = (Alive \ {x}) \cup {}
      BY <2>1, AliveNext
    <3> QED BY <3>1
  <2>5. Injective(Alive)'
    BY <2>1, <2>4 DEF Inv, AliveOK, Injective
  <2>6. Objs(Alive)' = Objs(Alive \ {x})
    BY <2>1, <2>4 DEF Objs
  <2>7. RunsAre(Given(x), Alive \ {x}) /\ CRunsAre(Given(x), Objs(Alive \ {x}))
    BY <2>1, <2>2, GivenFacts, GivenCRuns
  <2>8. RunsAre(pt, Alive)' /\ CRunsAre(pt, Objs(Alive))'
    BY <2>1, <2>6, <2>7 DEF RunsAre, CRunsAre, SameGhost
  <2>9. scopes'[Len(scopes)].drops = Top.drops
    BY <2>1, ScopeFacts DEF Inv
  <2> QED BY <2>1, <2>3, <2>5, <2>8, <2>9, MovesInv
<1> QED BY <1>1, <1>2

LEMMA RetNoneInv ==
  ASSUME Inv, result' = result, RetNone
  PROVE  Inv'
<1>1. Moves({}, {}) /\ Returns(pt, Alive) /\ Alive \ {} = Alive
  BY RetNoneFacts
<1>2. CRunsAre(pt, Objs(Alive))
  BY <1>1 DEF Inv, CAliveOK, Moves
<1>3. Returns(pt, Alive \ {}) /\ CRunsAre(pt, Objs(Alive \ {}))
  BY <1>1, <1>2
<1> QED BY <1>1, <1>3, ReturnsInv

LEMMA RetInv ==
  ASSUME Inv, result' = result, NEW x \in Visible, Ret(x)
  PROVE  Inv'
<1>0. Statement
  BY DEF Ret
<1>1. CASE Refuse(x)
  BY <1>0, <1>1, RefuseInv
<1>2. CASE ~Refuse(x)
  <2>1. Moves({x}, {}) /\ Returns(Given(x), Alive \ {x}) /\ ~IsDead(x)
    BY <1>2, RetFacts
  <2>2. ~pt.ret
    BY <2>1 DEF Moves
  <2>3. condnest = 0 => \A w \in {x} : pt.live[w] = "none"
    BY <2>1, <2>2, MoveStart
  <2>4. CRunsAre(Given(x), Objs(Alive \ {x}))
    BY <2>1, <2>2, GivenCRuns
  <2> QED BY <2>1, <2>3, <2>4, ReturnsInv
<1> QED BY <1>1, <1>2

-----------------------------------------------------------------------------
(***************************************************************************)
(* Blocks and branches.                                                    *)
(***************************************************************************)

LEMMA NoScopeFacts ==
  NoScope \in Scopes /\ NoScope.vars = {} /\ NoScope.owners = {} /\ ToSet(NoScope.drops) = {}
BY DEF NoScope, Scopes, ToSet

LEMMA AppendFacts ==
  ASSUME NEW D, NEW s \in Seq(D), NEW d \in D, NEW n \in Nat, Len(s) = n
  PROVE  /\ Append(s, d) \in Seq(D) /\ Len(Append(s, d)) = n + 1
         /\ DOMAIN Append(s, d) = 1 .. n + 1
         /\ \A i \in 1 .. n : Append(s, d)[i] = s[i]
         /\ Append(s, d)[n + 1] = d
OBVIOUS

LEMMA EnterFacts ==
  ASSUME Inv, result' = result, NEW kind \in {"block", "then"}, Enter(kind)
  PROVE  LET n == Len(scopes)
         IN  /\ TypeOK' /\ ~pt.ret /\ n \in Nat \ {0}
             /\ DOMAIN scopes = 1 .. n /\ DOMAIN frames = 1 .. n - 1
             /\ DOMAIN scopes' = 1 .. n + 1 /\ DOMAIN frames' = 1 .. n
             /\ Len(scopes') = n + 1 /\ Len(frames') = n
             /\ \A i \in 1 .. n : scopes'[i] = scopes[i]
             /\ \A i \in 1 .. n - 1 : frames'[i] = frames[i]
             /\ scopes'[n + 1] = NoScope
             /\ frames'[n].kind = kind /\ frames'[n].entry = pt /\ frames'[n].entry_deadset = deadset
             /\ nvals' = nvals /\ obj' = obj /\ deadset' = deadset /\ pt' = pt /\ ghost' = ghost
             /\ status' = status
<1> DEFINE n == Len(scopes)
           f == [kind |-> kind, entry |-> pt, entry_deadset |-> deadset,
                 then |-> NoPoint, then_deadset |-> {}]
<1>1. /\ ~pt.ret /\ stmts < MaxStmts /\ stmts' = stmts + 1
      /\ scopes' = Append(scopes, NoScope) /\ frames' = Append(frames, f)
      /\ nvals' = nvals /\ obj' = obj /\ deadset' = deadset /\ pt' = pt /\ ghost' = ghost
      /\ status' = status
  BY DEF Enter, Statement, owners_enter_scope
<1>2. /\ n \in Nat \ {0} /\ DOMAIN scopes = 1 .. n /\ DOMAIN frames = 1 .. n - 1 /\ Len(frames) = n - 1
      /\ scopes \in Seq(Scopes) /\ frames \in Seq(Frames)
  BY ScopeFacts DEF Inv, TypeOK
<1>3. f \in Frames
  <2>1. NoPoint \in Points
    BY DEF NoPoint, Points, Lives
  <2> QED BY <2>1 DEF Inv, TypeOK, Frames
<1>4. f.kind = kind /\ f.entry = pt /\ f.entry_deadset = deadset
  OBVIOUS
<1> HIDE DEF f
<1>5. /\ scopes' \in Seq(Scopes) /\ Len(scopes') = n + 1 /\ DOMAIN scopes' = 1 .. n + 1
      /\ \A i \in 1 .. n : scopes'[i] = scopes[i]
      /\ scopes'[n + 1] = NoScope
  BY <1>1, <1>2, NoScopeFacts
<1>6. /\ frames' \in Seq(Frames) /\ Len(frames') = n /\ DOMAIN frames' = 1 .. n
      /\ \A i \in 1 .. n - 1 : frames'[i] = frames[i]
      /\ frames'[n] = f
  <2>0. n \in Nat \ {0} /\ Len(frames) = n - 1
    BY <1>2
  <2>1. PICK m \in Nat : m = n - 1 /\ Len(frames) = m /\ m + 1 = n
    <3>1. n - 1 \in Nat /\ (n - 1) + 1 = n
      <4> HIDE DEF n
      <4> QED BY <2>0
    <3> QED BY <2>0, <3>1
  <2>2. frames \in Seq(Frames) /\ f \in Frames /\ frames' = Append(frames, f)
    BY <1>1, <1>2, <1>3
  <2>3. /\ frames' \in Seq(Frames) /\ Len(frames') = m + 1 /\ DOMAIN frames' = 1 .. m + 1
        /\ \A i \in 1 .. m : frames'[i] = frames[i]
        /\ frames'[m + 1] = f
    BY <2>1, <2>2, AppendFacts
  <2> QED BY <2>1, <2>3
<1>7. TypeOK'
  BY <1>1, <1>5, <1>6, OwnershipAssumptions DEF Inv, TypeOK
<1> QED BY <1>1, <1>2, <1>4, <1>5, <1>6, <1>7

LEMMA EnterInv ==
  ASSUME Inv, result' = result, NEW kind \in {"block", "then"}, Enter(kind)
  PROVE  Inv'
<1>a. PICK n : n = Len(scopes)
  OBVIOUS
<1>1. /\ TypeOK' /\ ~pt.ret /\ n \in Nat \ {0}
      /\ DOMAIN scopes = 1 .. n /\ DOMAIN frames = 1 .. n - 1
      /\ DOMAIN scopes' = 1 .. n + 1 /\ DOMAIN frames' = 1 .. n
      /\ Len(scopes') = n + 1 /\ Len(frames') = n
      /\ \A i \in 1 .. n : scopes'[i] = scopes[i]
      /\ \A i \in 1 .. n - 1 : frames'[i] = frames[i]
      /\ scopes'[n + 1] = NoScope
      /\ frames'[n].kind = kind /\ frames'[n].entry = pt /\ frames'[n].entry_deadset = deadset
      /\ nvals' = nvals /\ obj' = obj /\ deadset' = deadset /\ pt' = pt /\ ghost' = ghost
      /\ status' = status
  BY <1>a, EnterFacts
<1>2. /\ \A i \in 1 .. n + 1 : i = n + 1 \/ i \in 1 .. n
      /\ \A i \in 1 .. n : i \in 1 .. n + 1 /\ (i = n \/ i \in 1 .. n - 1)
      /\ \A i \in 1 .. n - 1 : i \in 1 .. n /\ i < n
      /\ n \in 1 .. n
  <2>1. n \in Nat \ {0}
    BY <1>1
  <2> QED BY <2>1
<1>3. Top = scopes[n] /\ Top' = NoScope
  BY <1>a, <1>1, ScopeFacts DEF Top, Last, Inv
<1>4. /\ \A i \in 1 .. n : OwnersTo(i)' = OwnersTo(i)
      /\ Owners = OwnersTo(n) /\ Owners' = Owners /\ Alive' = Alive
  <2>1. ASSUME NEW i \in 1 .. n
        PROVE  OwnersTo(i)' = OwnersTo(i)
    <3>1. \A k \in 1 .. i : scopes'[k] = scopes[k]
      BY <1>1
    <3> QED BY <3>1 DEF OwnersTo
  <2>2. Owners' = Owners
    <3>1. \A v : v \in Owners' <=> \E k \in 1 .. n + 1 : v \in scopes'[k].owners
      BY <1>1 DEF Owners, OwnersTo
    <3>2. \A v : v \in Owners <=> \E k \in 1 .. n : v \in scopes[k].owners
      BY <1>a DEF Owners, OwnersTo
    <3>3. \A v : v \in Owners' <=> v \in Owners
      BY <1>1, <1>2, <3>1, <3>2, NoScopeFacts
    <3> QED BY <3>3
  <2> QED BY <1>a, <1>1, <2>1, <2>2 DEF Owners, Alive
<1>5. ValuesOK'
  BY <1>1 DEF Inv, ValuesOK
<1>6. ScopesOK'
  <2>1. \A i \in 1 .. n : /\ scopes[i].owners \subseteq scopes[i].vars /\ scopes[i].vars \subseteq 1 .. nvals
                          /\ \A j \in 1 .. n : i # j => scopes[i].vars \cap scopes[j].vars = {}
    BY <1>1 DEF Inv, ScopesOK
  <2>2. \A i \in 1 .. n + 1 :
          /\ scopes'[i].owners \subseteq scopes'[i].vars /\ scopes'[i].vars \subseteq 1 .. nvals'
          /\ \A j \in 1 .. n + 1 : i # j => scopes'[i].vars \cap scopes'[j].vars = {}
    <3> TAKE i \in 1 .. n + 1
    <3>1. CASE i = n + 1
      BY <1>1, <3>1, NoScopeFacts
    <3>2. CASE i \in 1 .. n
      <4>1. scopes'[i] = scopes[i]
        BY <1>1, <3>2
      <4>2. \A j \in 1 .. n + 1 : i # j => scopes[i].vars \cap scopes'[j].vars = {}
        <5> TAKE j \in 1 .. n + 1
        <5>1. CASE j = n + 1
          BY <1>1, <5>1, NoScopeFacts
        <5>2. CASE j \in 1 .. n
          <6>1. scopes'[j] = scopes[j]
            BY <1>1, <5>2
          <6> QED BY <2>1, <3>2, <5>2, <6>1
        <5> QED BY <1>2, <5>1, <5>2
      <4> QED BY <1>1, <2>1, <3>2, <4>1, <4>2
    <3> QED BY <1>2, <3>1, <3>2
  <2>3. Len(scopes') = Len(frames') + 1
    BY <1>1
  <2>4. Top'.vars = {}
    BY <1>3, NoScopeFacts
  <2> QED BY <1>1, <2>2, <2>3, <2>4 DEF ScopesOK
<1>7. \A j \in 1 .. n : scopes[j].vars \subseteq scopes[j].owners \cup deadset
  <2> SUFFICES ASSUME NEW j \in 1 .. n
               PROVE  scopes[j].vars \subseteq scopes[j].owners \cup deadset
    OBVIOUS
  <2>1. CASE j = n
    BY <1>1, <1>3, <2>1 DEF Inv, ScopesOK
  <2>2. CASE j # n
    <3>0. j \in 1 .. n - 1 /\ j \in 1 .. n
      BY <1>2, <2>2
    <3>1. j \in DOMAIN frames /\ j \in DOMAIN scopes /\ j <= j
      BY <1>1, <3>0
    <3>2. /\ scopes[j].vars \subseteq scopes[j].owners \cup frames[j].entry_deadset
          /\ frames[j].entry_deadset \subseteq deadset
      BY <3>1 DEF Inv, FramesOK
    <3> QED BY <3>2
  <2> QED BY <2>1, <2>2
<1>8. FramesOK'
  <2> SUFFICES ASSUME NEW i \in 1 .. n
               PROVE  LET f == frames'[i] IN
                      /\ ~f.entry.ret
                      /\ f.entry_deadset \subseteq deadset'
                      /\ \A j \in 1 .. n + 1 :
                           IF j <= i THEN scopes'[j].vars \subseteq scopes'[j].owners \cup f.entry_deadset
                                     ELSE scopes'[j].vars \cap f.entry_deadset = {}
                      /\ f.kind = "else" => f.entry_deadset \subseteq f.then_deadset /\ f.then_deadset \subseteq 1 .. nvals'
                      /\ \A j \in 1 .. n : i < j => f.entry_deadset \subseteq frames'[j].entry_deadset
    BY <1>1 DEF FramesOK
  <2>1. CASE i = n
    <3>1. \A j \in 1 .. n + 1 : IF j <= n THEN scopes'[j].vars \subseteq scopes'[j].owners \cup deadset
                                          ELSE scopes'[j].vars \cap deadset = {}
      <4> TAKE j \in 1 .. n + 1
      <4>1. CASE j = n + 1
        BY <1>1, <4>1, NoScopeFacts
      <4>2. CASE j \in 1 .. n
        <5>1. scopes'[j] = scopes[j] /\ j <= n
          BY <1>1, <4>2
        <5> QED BY <1>7, <4>2, <5>1
      <4> QED BY <1>2, <4>1, <4>2
    <3>2. \A j \in 1 .. n : ~(n < j)
      BY <1>1
    <3> QED BY <1>1, <2>1, <3>1, <3>2
  <2>2. CASE i # n
    <3>1. i \in 1 .. n - 1 /\ frames'[i] = frames[i]
      BY <1>1, <1>2, <2>2
    <3>2. LET f == frames[i] IN
          /\ ~f.entry.ret
          /\ f.entry_deadset \subseteq deadset
          /\ \A j \in 1 .. n :
               IF j <= i THEN scopes[j].vars \subseteq scopes[j].owners \cup f.entry_deadset
                         ELSE scopes[j].vars \cap f.entry_deadset = {}
          /\ f.kind = "else" => f.entry_deadset \subseteq f.then_deadset /\ f.then_deadset \subseteq 1 .. nvals
          /\ \A j \in 1 .. n - 1 : i < j => f.entry_deadset \subseteq frames[j].entry_deadset
      BY <1>1, <3>1 DEF Inv, FramesOK
    <3>3. ~(n + 1 <= i)
      BY <1>1
    <3>4. \A j \in 1 .. n + 1 :
            IF j <= i THEN scopes'[j].vars \subseteq scopes'[j].owners \cup frames[i].entry_deadset
                      ELSE scopes'[j].vars \cap frames[i].entry_deadset = {}
      BY <1>1, <1>2, <3>2, <3>3, NoScopeFacts
    <3>5. \A j \in 1 .. n : i < j => frames[i].entry_deadset \subseteq frames'[j].entry_deadset
      BY <1>1, <1>2, <3>2
    <3> QED BY <1>1, <3>1, <3>2, <3>4, <3>5
  <2> QED BY <2>1, <2>2
<1>9. Injective(Alive) /\ RunsAre(pt, Alive) /\ CRunsAre(pt, Objs(Alive)) /\ Lost(Top)
  BY <1>a, <1>1 DEF Inv, AliveOK, CAliveOK
<1>10. /\ AliveAt(n)' = Alive /\ \A i \in 1 .. n - 1 : AliveAt(i)' = AliveAt(i) /\ AliveThen(i)' = AliveThen(i)
  <2>1. OwnersTo(n)' = Owners /\ frames'[n].entry_deadset = deadset
    BY <1>1, <1>2, <1>4
  <2>2. ASSUME NEW i \in 1 .. n - 1
        PROVE  OwnersTo(i)' = OwnersTo(i) /\ frames'[i] = frames[i]
    BY <1>1, <1>2, <1>4
  <2>3. AliveAt(n)' = Alive
    BY <2>1 DEF AliveAt, Alive
  <2>4. \A i \in 1 .. n - 1 : AliveAt(i)' = AliveAt(i) /\ AliveThen(i)' = AliveThen(i)
    BY <2>2 DEF AliveAt, AliveThen
  <2> QED BY <2>3, <2>4
<1>0. frames'[n].kind # "else" /\ frames'[n].entry = pt /\ frames'[n].entry_deadset = deadset
      /\ OwnersTo(n)' = Owners'
  BY <1>1, <1>2, <1>4
<1>11. FramesAliveOK' /\ FramesCAliveOK'
  <2> SUFFICES ASSUME NEW i \in 1 .. n
               PROVE  /\ Injective(AliveAt(i))'
                      /\ RunsAre(frames[i].entry, AliveAt(i))'
                      /\ (frames[i].kind = "else" /\ ~frames[i].then.ret => RunsAre(frames[i].then, AliveThen(i)))'
                      /\ CRunsAre(frames[i].entry, Objs(AliveAt(i)))'
                      /\ (frames[i].kind = "else" /\ ~frames[i].then.ret => CRunsAre(frames[i].then, Objs(AliveThen(i))))'
    BY <1>1 DEF FramesAliveOK, FramesCAliveOK
  <2>1. CASE i = n
    <3>1. frames'[i].kind # "else" /\ frames'[i].entry = pt /\ AliveAt(i)' = Alive
      BY <1>0, <1>10, <2>1
    <3> QED BY <1>1, <1>9, <3>1 DEF Injective, RunsAre, CRunsAre, Objs
  <2>2. CASE i # n
    <3>1. i \in 1 .. n - 1 /\ frames'[i] = frames[i] /\ AliveAt(i)' = AliveAt(i) /\ AliveThen(i)' = AliveThen(i)
      BY <1>1, <1>2, <1>10, <2>2
    <3>2. /\ Injective(AliveAt(i))
          /\ RunsAre(frames[i].entry, AliveAt(i))
          /\ frames[i].kind = "else" /\ ~frames[i].then.ret => RunsAre(frames[i].then, AliveThen(i))
          /\ CRunsAre(frames[i].entry, Objs(AliveAt(i)))
          /\ frames[i].kind = "else" /\ ~frames[i].then.ret => CRunsAre(frames[i].then, Objs(AliveThen(i)))
      BY <1>1, <3>1 DEF Inv, AliveOK, FramesAliveOK, CAliveOK, FramesCAliveOK
    <3> QED BY <1>1, <3>1, <3>2 DEF Injective, RunsAre, CRunsAre, Objs
  <2> QED BY <2>1, <2>2
<1>12. AliveOK'
  BY <1>1, <1>4, <1>9, <1>11 DEF AliveOK, Injective, RunsAre, Objs
<1>13. CAliveOK'
  <2>1. \A i \in 1 .. n - 1 : Lost(scopes[i])
    BY <1>a DEF Inv, CAliveOK
  <2>2. \A i \in 1 .. n : ToSet(scopes'[i].drops) \subseteq ghost'.lost
    <3> TAKE i \in 1 .. n
    <3>1. scopes'[i] = scopes[i] /\ ghost' = ghost
      BY <1>1
    <3>2. Lost(scopes[i])
      BY <1>2, <1>3, <1>9, <2>1
    <3> QED BY <3>1, <3>2 DEF Lost
  <2>3. Lost(Top)'
    BY <1>3, NoScopeFacts DEF Lost
  <2>4. CRunsAre(pt, Objs(Alive))'
    BY <1>1, <1>4, <1>9 DEF CRunsAre, Objs
  <2>5. ~pt'.ret /\ Len(scopes') - 1 = n
    BY <1>1
  <2>6. \A i \in 1 .. n : Lost(scopes[i])'
    BY <2>2 DEF Lost
  <2> QED BY <1>11, <2>3, <2>4, <2>5, <2>6 DEF CAliveOK
<1>14. LiveOK'
  <2>1. Untouched(pt) /\ Decided(pt, Owners, deadset) /\ MadeInBranch(pt, n)
    BY <1>a DEF Inv, LiveOK
  <2>2. Untouched(pt)' /\ Decided(pt, Owners, deadset)'
    BY <1>1, <1>4, <2>1 DEF Untouched, Decided
  <2>3. \A i \in 1 .. n : \A k \in 1 .. i - 1 : k \in 1 .. n - 1 /\ frames'[k] = frames[k]
    <3>1. \A i \in 1 .. n : \A k \in 1 .. i - 1 : k \in 1 .. n - 1
      BY <1>1
    <3> QED BY <1>1, <3>1
  <2>4. \A i \in 1 .. n : \A v \in scopes'[i].owners :
          pt'.live[v] = "live" => \E k \in 1 .. i - 1 : frames'[k].kind # "block"
    BY <1>1, <2>1, <2>3 DEF MadeInBranch
  <2>5. MadeInBranch(pt, Len(scopes))' /\ MadeInBranch(pt, n)'
    BY <1>1, <1>2, <2>4, NoScopeFacts DEF MadeInBranch
  <2>6. ASSUME NEW i \in 1 .. n
        PROVE  /\ Untouched(frames[i].entry)'
               /\ Decided(frames[i].entry, OwnersTo(i), frames[i].entry_deadset)'
               /\ MadeInBranch(frames[i].entry, i)'
               /\ (frames[i].kind = "else" => Untouched(frames[i].then))'
    <3>1. CASE i = n
      <4>1. frames'[i].entry = pt' /\ frames'[i].entry_deadset = deadset' /\ frames'[i].kind # "else"
            /\ OwnersTo(i)' = Owners'
        BY <1>0, <1>1, <3>1
      <4>2. Untouched(frames[i].entry)'
        BY <2>2, <4>1 DEF Untouched
      <4>3. Decided(frames[i].entry, OwnersTo(i), frames[i].entry_deadset)'
        BY <2>2, <4>1 DEF Decided
      <4>4. MadeInBranch(frames[i].entry, i)'
        BY <2>5, <3>1, <4>1 DEF MadeInBranch
      <4> QED BY <4>1, <4>2, <4>3, <4>4
    <3>2. CASE i # n
      <4>1. i \in 1 .. n - 1 /\ frames'[i] = frames[i] /\ OwnersTo(i)' = OwnersTo(i)
        BY <1>1, <1>2, <1>4, <3>2
      <4>2. /\ Untouched(frames[i].entry)
            /\ Decided(frames[i].entry, OwnersTo(i), frames[i].entry_deadset)
            /\ MadeInBranch(frames[i].entry, i)
            /\ frames[i].kind = "else" => Untouched(frames[i].then)
        BY <1>1, <4>1 DEF Inv, LiveOK
      <4>3. \A j \in 1 .. i : j \in 1 .. n
        BY <1>1
      <4>4. MadeInBranch(frames[i].entry, i)'
        BY <1>1, <2>3, <4>1, <4>2, <4>3 DEF MadeInBranch
      <4> QED BY <1>1, <4>1, <4>2, <4>4 DEF Untouched, Decided
    <3> QED BY <3>1, <3>2
  <2>7. ASSUME NEW i \in 1 .. n, frames'[i].kind # "block"
        PROVE  /\ Follows(pt, deadset, i)'
               /\ \A j \in 1 .. n :
                    /\ j > i => Follows(frames[j].entry, frames[j].entry_deadset, i)'
                    /\ j >= i /\ frames'[j].kind = "else" => Follows(frames[j].then, frames[j].then_deadset, i)'
    <3>0. OwnersTo(i)' = OwnersTo(i)
      BY <1>4
    <3>1. CASE i = n
      <4>1. Follows(pt, deadset, i)'
        BY <1>1, <3>1 DEF Follows
      <4>2. \A j \in 1 .. n : ~(j > i) /\ (j >= i => frames'[j].kind # "else")
        BY <1>1, <3>1
      <4> QED BY <4>1, <4>2
    <3>2. CASE i # n
      <4>1. i \in 1 .. n - 1 /\ frames'[i] = frames[i]
        BY <1>1, <1>2, <3>2
      <4>2. /\ Follows(pt, deadset, i)
            /\ \A j \in 1 .. n - 1 :
                 /\ j > i => Follows(frames[j].entry, frames[j].entry_deadset, i)
                 /\ j >= i /\ frames[j].kind = "else" => Follows(frames[j].then, frames[j].then_deadset, i)
        BY <1>1, <2>7, <4>1 DEF Inv, LiveOK
      <4>3. Follows(pt, deadset, i)' /\ Follows(frames[n].entry, frames[n].entry_deadset, i)'
        BY <1>0, <1>1, <3>0, <4>1, <4>2 DEF Follows
      <4>4. ASSUME NEW j \in 1 .. n - 1
            PROVE  /\ j > i => Follows(frames[j].entry, frames[j].entry_deadset, i)'
                   /\ j >= i /\ frames'[j].kind = "else" => Follows(frames[j].then, frames[j].then_deadset, i)'
        <5>1. frames'[j] = frames[j]
          BY <1>1
        <5> QED BY <3>0, <4>1, <4>2, <5>1 DEF Follows
      <4> QED BY <1>1, <1>2, <4>3, <4>4
    <3> QED BY <3>1, <3>2
  <2> QED BY <1>1, <2>2, <2>5, <2>6, <2>7 DEF LiveOK
<1>15. IRDropsOnce' /\ CDropsOnceIfNotLost'
  BY <1>1 DEF Inv, IRDropsOnce, CDropsOnceIfNotLost
<1> QED BY <1>1, <1>5, <1>6, <1>8, <1>12, <1>13, <1>14, <1>15 DEF Inv

\* Nothing is added to a drop list.
LEMMA BackpropagateNothing ==
  ASSUME TypeOK, NEW scope \in Scopes
  PROVE  backpropagate_drop_to_ast(scope, {}).drops = scope.drops
<1>1. Cardinality({}) = 0
  BY FS_EmptySet
<1>2. [i \in 1 .. Cardinality({}) |-> obj[Descending({})[i]]] = << >>
  BY <1>1
<1>3. scope.drops \in Seq(Values) /\ scope.drops \o << >> = scope.drops
  BY DEF Scopes
<1>4. backpropagate_drop_to_ast(scope, {}) = [scope EXCEPT !.drops = @ \o << >>]
  BY <1>2 DEF backpropagate_drop_to_ast
<1> QED BY <1>3, <1>4 DEF Scopes

\* A branch drops what is alive in its own scope.
LEMMA BranchDropsFacts ==
  ASSUME Inv, frames # << >>
  PROVE  /\ BranchDrops = Top.owners \ deadset
         /\ Last(frames) = frames[Len(frames)] /\ Len(frames) \in 1 .. Len(frames)
<1>1. /\ Len(frames) \in Nat /\ DOMAIN frames = 1 .. Len(frames) /\ Len(scopes) = Len(frames) + 1
      /\ DOMAIN scopes = 1 .. Len(scopes) /\ Top = scopes[Len(scopes)] /\ frames \in Seq(Frames)
  BY ScopeFacts DEF Inv, TypeOK
<1>2. Len(frames) # 0
  BY <1>1
<1>3. Last(frames) = frames[Len(frames)] /\ Len(frames) \in 1 .. Len(frames)
  BY <1>1, <1>2 DEF Last
<1>4. Len(scopes) \in DOMAIN scopes /\ ~(Len(scopes) <= Len(frames))
  BY <1>1
<1>5. /\ Last(frames).entry_deadset \subseteq deadset
      /\ Top.vars \cap Last(frames).entry_deadset = {}
  BY <1>1, <1>3, <1>4 DEF Inv, FramesOK
<1>6. Top.owners \subseteq Top.vars
  BY <1>1, <1>4 DEF Inv, ScopesOK
<1> QED BY <1>3, <1>5, <1>6 DEF BranchDrops, owners_unwind_scope, Xor

\* The end of a block, where what is alive in its scope is dropped.
LEMMA LeaveFacts ==
  ASSUME Inv, status = "building"
  PROVE  LET S == Top.owners \ deadset
             O == OuterOwners \ deadset
             g == LeftGhost(S)
         IN  /\ S \in SUBSET Values
             /\ Left(S) \in Points /\ Left(S).live = pt.live /\ Left(S).ret = pt.ret
             /\ ~pt.ret => RunsAre(Left(S), O) /\ CRunsAre(Left(S), Objs(O))
             /\ pt.ret => Left(S).cruns = {}
             /\ g \in Ghosts /\ g.doubled = ghost.doubled /\ g.leaked = ghost.leaked
             /\ g.lost = ghost.lost /\ g.misused = ghost.misused
             /\ g.cdoubled \cup g.cleaked \subseteq ghost.lost
<1> DEFINE S == Top.owners \ deadset
           O == OuterOwners \ deadset
           D == ToSet(Top.drops) \cup Objs(S)
           U == Unwound(S)
           lost == ghost.lost
<1>1. S \in SUBSET Values /\ O \in SUBSET Values /\ Alive = O \cup S /\ O \cap S = {}
  <2>1. /\ Owners = OuterOwners \cup Top.owners /\ OuterOwners \cap Top.owners = {}
        /\ Owners \subseteq Values
    BY OwnersFacts, ScopeFacts DEF Inv, Owners
  <2> QED BY <2>1 DEF Alive
<1>2. Injective(Alive) /\ S \in SUBSET Alive /\ Alive \ S = O /\ Alive \in SUBSET Values /\ Injective(S)
  <2>1. Injective(Alive)
    BY DEF Inv, AliveOK
  <2> HIDE DEF S, O
  <2> QED BY <1>1, <2>1 DEF Injective
<1>3. /\ Left(S) \in Points /\ Left(S).live = pt.live /\ Left(S).ret = pt.ret
      /\ Left(S).runs = Without(pt.runs, Objs(S))
      /\ Left(S).cruns = IF pt.ret THEN {} ELSE Without(pt.cruns, D)
      /\ ToSet(U.drops) = D
      /\ gen_drops(pt, U).cruns = Without(pt.cruns, D)
  BY <1>1, LeftFacts DEF Inv
<1>4. /\ U \in Scopes
      /\ \A i, j \in DOMAIN U.drops :
           U.drops[i] = U.drops[j] /\ U.drops[i] \notin ToSet(Top.drops) => i = j
      /\ S = {} => U.drops = Top.drops
  <2>1. Top \in Scopes
    BY ScopeFacts DEF Inv
  <2>2. S = {} => U.drops = Top.drops
    BY <2>1, BackpropagateNothing DEF Unwound, Inv
  <2> QED BY <1>1, <1>2, <2>1, <2>2, BackpropagateFacts DEF Unwound, Inv
<1> HIDE DEF S, O, U
<1>5. CASE ~pt.ret
  <2>1. RunsAre(pt, Alive) /\ CRunsAre(pt, Objs(Alive)) /\ ToSet(Top.drops) \subseteq lost
    BY <1>5 DEF Inv, AliveOK, CAliveOK, Lost
  <2>2. Objs(Alive) \ Objs(S) = Objs(O)
    BY <1>2, ObjsMinus
  <2>3. RunsAre(Left(S), O)
    BY <1>3, <2>1, <2>2 DEF RunsAre, Without
  <2>4. \A r \in pt.cruns : r \ lost = Objs(Alive) \ lost
    BY <2>1 DEF CRunsAre
  <2>5. \A r \in pt.cruns : (r \ D) \ lost = Objs(O) \ lost
    BY <2>1, <2>2, <2>4
  <2>6. CRunsAre(Left(S), Objs(O))
    BY <1>3, <1>5, <2>5 DEF CRunsAre, Without
  <2>7. OnceOutside(U.drops)
    BY <1>4, <2>1 DEF OnceOutside
  <2>8. \A r \in pt.cruns : ToSet(U.drops) \ lost \subseteq r
    <3>1. Objs(S) \subseteq Objs(Alive)
      BY <1>2 DEF Objs
    <3> QED BY <1>3, <2>1, <2>4, <3>1
  <2>9. CDoubled(pt, U) \subseteq lost
    BY <1>4, <2>7, <2>8, CDoubledLost
  <2>10. DropDoubled(pt, S) = {}
    BY <1>2, <2>1, DropExact DEF Inv, TypeOK
  <2> DEFINE d == Doubling(ghost, pt, S)
  <2>11. /\ d \in Ghosts /\ d.doubled = ghost.doubled /\ d.leaked = ghost.leaked
         /\ d.cdoubled = ghost.cdoubled /\ d.cleaked = ghost.cleaked /\ d.lost = ghost.lost
         /\ d.misused = ghost.misused
    <3>1. ghost \in Ghosts /\ pt \in Points
      BY DEF Inv, TypeOK
    <3> QED BY <1>1, <2>10, <3>1, DoublingFacts DEF Inv
  <2>12. LeftGhost(S) = [d EXCEPT !.cdoubled = @ \cup CDoubled(pt, U), !.fell = @ \cup CFell(pt, U), !.cleaked = @]
    BY <1>5 DEF LeftGhost, U
  <2> HIDE DEF d
  <2>13. ghost.cdoubled \cup ghost.cleaked \subseteq lost
    BY DEF Inv, CDropsOnceIfNotLost
  <2>14. CDoubled(pt, U) \in SUBSET Values /\ CFell(pt, U) \in SUBSET Values
    BY <1>4, CDoubledInValues, CFellInValues
  <2>15. LET g == LeftGhost(S)
         IN  /\ g \in Ghosts /\ g.doubled = ghost.doubled /\ g.leaked = ghost.leaked
             /\ g.lost = ghost.lost /\ g.misused = ghost.misused
             /\ g.cdoubled \cup g.cleaked \subseteq ghost.lost
    BY <2>9, <2>11, <2>12, <2>13, <2>14 DEF Ghosts
  <2> QED BY <1>1, <1>3, <1>5, <2>3, <2>6, <2>15 DEF S, O
<1>6. CASE pt.ret
  <2> DEFINE more == UNION gen_drops(pt, U).cruns
             d == Doubling(ghost, pt, S)
  <2>1. CDoubled(pt, U) \subseteq lost /\ more \subseteq lost
    <3>1. CASE Top.owners = {} /\ CRunsAre(pt, ToSet(Top.drops)) /\ OnceOutside(Top.drops)
      <4>1. U.drops = Top.drops /\ D = ToSet(Top.drops)
        BY <3>1, <1>4 DEF S, Objs
      <4>2. \A r \in pt.cruns : r \ lost = D \ lost
        BY <3>1, <4>1 DEF CRunsAre
      <4>3. \A r \in pt.cruns : ToSet(U.drops) \ lost \subseteq r
        BY <1>3, <4>2
      <4>4. CDoubled(pt, U) \subseteq lost
        BY <1>4, <3>1, <4>1, <4>3, CDoubledLost
      <4>5. \A r \in pt.cruns : r \ D \subseteq lost
        BY <4>2
      <4>6. more \subseteq lost
        BY <1>3, <4>5 DEF Without
      <4> QED BY <4>4, <4>6
    <3>2. CASE pt.cruns = {} /\ Lost(Top)
      <4>1. OnceOutside(U.drops)
        BY <1>4, <3>2 DEF OnceOutside, Lost
      <4>2. CDoubled(pt, U) \subseteq lost
        BY <1>4, <3>2, <4>1, CDoubledLost
      <4>3. more = {}
        BY <1>3, <3>2 DEF Without
      <4> QED BY <4>2, <4>3
    <3> QED BY <1>6, <3>1, <3>2 DEF Inv, CAliveOK
  <2>2. /\ d \in Ghosts /\ d.doubled = ghost.doubled /\ d.leaked = ghost.leaked
        /\ d.cdoubled = ghost.cdoubled /\ d.cleaked = ghost.cleaked /\ d.lost = ghost.lost
        /\ d.misused = ghost.misused
    <3>1. ghost \in Ghosts /\ pt \in Points
      BY DEF Inv, TypeOK
    <3> QED BY <1>1, <1>6, <3>1, DoublingFacts DEF Inv
  <2>3. LeftGhost(S) = [d EXCEPT !.cdoubled = @ \cup CDoubled(pt, U), !.fell = @ \cup CFell(pt, U),
                                 !.cleaked = @ \cup more]
    BY <1>6 DEF LeftGhost, U
  <2>6. CFell(pt, U) \in SUBSET Values
    BY <1>4, CFellInValues
  <2> HIDE DEF d, more
  <2>4. ghost.cdoubled \cup ghost.cleaked \subseteq lost /\ lost \subseteq Values
    BY DEF Inv, CDropsOnceIfNotLost, TypeOK, Ghosts
  <2>5. LET g == LeftGhost(S)
         IN  /\ g \in Ghosts /\ g.doubled = ghost.doubled /\ g.leaked = ghost.leaked
             /\ g.lost = ghost.lost /\ g.misused = ghost.misused
             /\ g.cdoubled \cup g.cleaked \subseteq ghost.lost
    BY <2>1, <2>2, <2>3, <2>4, <2>6 DEF Ghosts
  <2> QED BY <1>1, <1>3, <1>6, <2>5 DEF S, O
<1> QED BY <1>5, <1>6

\* The innermost block or branch is closed, when the owners in L are lost.
Leaves(L) ==
  /\ frames # << >>
  /\ nvals' = nvals /\ obj' = obj /\ frames' = Front(frames)
  /\ Len(scopes') = Len(scopes) - 1
  /\ \A i \in 1 .. Len(scopes) - 2 : scopes'[i] = scopes[i]
  /\ scopes'[Len(frames)].vars = scopes[Len(frames)].vars
  /\ scopes'[Len(frames)].owners = scopes[Len(frames)].owners \ L
  /\ L \subseteq deadset'
  /\ Last(frames).entry_deadset \subseteq deadset' /\ deadset' \subseteq 1 .. nvals

LEMMA FrontFacts ==
  ASSUME NEW D, NEW s \in Seq(D), NEW m \in Nat \ {0}, Len(s) = m
  PROVE  /\ Front(s) \in Seq(D) /\ Len(Front(s)) = m - 1 /\ DOMAIN Front(s) = 1 .. m - 1
         /\ \A i \in 1 .. m - 1 : Front(s)[i] = s[i]
BY DEF Front

LEMMA LeavesShape ==
  ASSUME Inv, NEW L, Leaves(L), TypeOK', NEW m, m = Len(frames)
  PROVE  /\ m \in Nat \ {0} /\ Len(scopes) = m + 1
         /\ DOMAIN scopes = 1 .. m + 1 /\ DOMAIN frames = 1 .. m
         /\ DOMAIN scopes' = 1 .. m /\ DOMAIN frames' = 1 .. m - 1
         /\ Len(scopes') = m /\ Len(frames') = m - 1
         /\ \A i \in 1 .. m - 1 : frames'[i] = frames[i] /\ scopes'[i] = scopes[i]
         /\ Last(frames) = frames[m] /\ frames[m] \in Frames
         /\ \A i \in 0 .. m - 1 : OwnersTo(i)' = OwnersTo(i)
         /\ OuterOwners = OwnersTo(m) /\ OuterOwners \subseteq Values /\ OuterOwners \subseteq 1 .. nvals
         /\ Owners' = OwnersTo(m - 1) \cup (scopes[m].owners \ L)
         /\ Owners' \subseteq OuterOwners
         /\ Alive' = OuterOwners \ deadset' /\ Alive' \subseteq AliveAt(m)
<1>1. /\ m \in Nat \ {0} /\ Len(scopes) = m + 1 /\ DOMAIN scopes = 1 .. m + 1 /\ DOMAIN frames = 1 .. m
      /\ frames \in Seq(Frames) /\ frames[m] \in Frames
  <2>1. /\ m \in Nat /\ Len(scopes) = m + 1 /\ DOMAIN scopes = 1 .. m + 1 /\ DOMAIN frames = 1 .. m
        /\ frames \in Seq(Frames)
    BY ScopeFacts DEF Inv, TypeOK, ScopesOK
  <2>2. m # 0
    BY <2>1 DEF Leaves
  <2>3. frames[m] \in Frames
    BY <2>1, <2>2
  <2> QED BY <2>1, <2>2, <2>3
<1>2. Len(frames') = m - 1 /\ DOMAIN frames' = 1 .. m - 1 /\ \A i \in 1 .. m - 1 : frames'[i] = frames[i]
  <2>1. frames' = Front(frames) /\ Len(frames) = m
    BY DEF Leaves
  <2>2. m \in Nat \ {0} /\ frames \in Seq(Frames)
    BY <1>1
  <2>3. /\ Len(Front(frames)) = m - 1 /\ DOMAIN Front(frames) = 1 .. m - 1
        /\ \A i \in 1 .. m - 1 : Front(frames)[i] = frames[i]
    BY <2>1, <2>2, FrontFacts
  <2> QED BY <2>1, <2>3
<1>3. /\ Len(scopes') = m /\ DOMAIN scopes' = 1 .. m /\ \A i \in 1 .. m - 1 : scopes'[i] = scopes[i]
  <2>1. Len(scopes') = m /\ \A i \in 1 .. (m + 1) - 2 : scopes'[i] = scopes[i]
    BY <1>1 DEF Leaves
  <2>2. (m + 1) - 2 = m - 1
    BY <1>1
  <2>3. DOMAIN scopes' = 1 .. Len(scopes')
    BY DEF TypeOK
  <2> QED BY <2>1, <2>2, <2>3
<1>4. Last(frames) = frames[m] /\ OuterOwners = OwnersTo(m)
  BY <1>1 DEF Last, OuterOwners
<1>5. \A i \in 0 .. m - 1 : OwnersTo(i)' = OwnersTo(i)
  <2> SUFFICES ASSUME NEW i \in 0 .. m - 1
               PROVE  OwnersTo(i)' = OwnersTo(i)
    OBVIOUS
  <2>1. \A k \in 1 .. i : scopes'[k] = scopes[k]
    BY <1>1, <1>3
  <2> QED BY <2>1 DEF OwnersTo
<1>6. OuterOwners \subseteq Values /\ OuterOwners \subseteq 1 .. nvals
  <2>1. m \in 0 .. Len(scopes)
    BY <1>1
  <2> QED BY <1>4, <2>1, OwnersFacts DEF Inv
<1>7. /\ Owners' = OwnersTo(m - 1) \cup (scopes[m].owners \ L)
      /\ OwnersTo(m) = OwnersTo(m - 1) \cup scopes[m].owners
  <2>1. \A v : v \in Owners' <=> \E k \in 1 .. m : v \in scopes'[k].owners
    BY <1>3 DEF Owners, OwnersTo
  <2>2. \A v : v \in OwnersTo(m) <=> \E k \in 1 .. m : v \in scopes[k].owners
    BY DEF OwnersTo
  <2>3. \A v : v \in OwnersTo(m - 1) <=> \E k \in 1 .. m - 1 : v \in scopes[k].owners
    BY DEF OwnersTo
  <2>4. (\A k \in 1 .. m : k = m \/ k \in 1 .. m - 1) /\ m \in 1 .. m /\ 1 .. m - 1 \subseteq 1 .. m
    BY <1>1, UpTo
  <2>5. scopes'[m].owners = scopes[m].owners \ L
    BY DEF Leaves
  <2>6. \A v : v \in Owners' <=> v \in OwnersTo(m - 1) \/ v \in scopes[m].owners \ L
    BY <1>3, <2>1, <2>3, <2>4, <2>5
  <2>7. \A v : v \in OwnersTo(m) <=> v \in OwnersTo(m - 1) \/ v \in scopes[m].owners
    BY <2>2, <2>3, <2>4
  <2> QED BY <2>6, <2>7
<1>8. Owners' \subseteq OuterOwners /\ Alive' = OuterOwners \ deadset'
  BY <1>4, <1>7 DEF Leaves, Alive
<1>9. Alive' \subseteq AliveAt(m)
  BY <1>4, <1>8 DEF Leaves, AliveAt
<1> QED BY <1>1, <1>2, <1>3, <1>4, <1>5, <1>6, <1>7, <1>8, <1>9

LEMMA LeavesBase ==
  ASSUME Inv, NEW L, Leaves(L), TypeOK'
  PROVE  ValuesOK' /\ ScopesOK' /\ FramesOK'
<1>a. PICK m : m = Len(frames)
  OBVIOUS
<1>1. /\ m \in Nat \ {0} /\ Len(scopes) = m + 1 /\ DOMAIN scopes = 1 .. m + 1 /\ DOMAIN frames = 1 .. m
      /\ DOMAIN scopes' = 1 .. m /\ DOMAIN frames' = 1 .. m - 1
      /\ Len(scopes') = m /\ Len(frames') = m - 1
      /\ \A i \in 1 .. m - 1 : frames'[i] = frames[i] /\ scopes'[i] = scopes[i]
      /\ Last(frames) = frames[m]
  BY <1>a, LeavesShape
<1>2. /\ \A i \in 1 .. m : i = m \/ i \in 1 .. m - 1
      /\ \A i \in 1 .. m : i \in 1 .. m + 1
      /\ \A i \in 1 .. m - 1 : i \in 1 .. m /\ i < m /\ ~(m <= i)
      /\ m \in 1 .. m
  BY <1>1
<1>3. /\ nvals' = nvals /\ obj' = obj
      /\ scopes'[m].vars = scopes[m].vars /\ scopes'[m].owners = scopes[m].owners \ L
      /\ L \subseteq deadset' /\ frames[m].entry_deadset \subseteq deadset' /\ deadset' \subseteq 1 .. nvals
  BY <1>a, <1>1 DEF Leaves
<1>4. ValuesOK'
  BY <1>3 DEF Inv, ValuesOK
<1>5. \A i \in 1 .. m : /\ scopes[i].owners \subseteq scopes[i].vars /\ scopes[i].vars \subseteq 1 .. nvals
                        /\ \A j \in 1 .. m : i # j => scopes[i].vars \cap scopes[j].vars = {}
  BY <1>1, <1>2 DEF Inv, ScopesOK
<1>6. \A i \in 1 .. m : scopes'[i].vars = scopes[i].vars /\ scopes'[i].owners \subseteq scopes[i].owners
  BY <1>1, <1>2, <1>3
<1>7. scopes[m].vars \subseteq scopes[m].owners \cup frames[m].entry_deadset
  <2>1. m \in DOMAIN frames /\ m \in DOMAIN scopes /\ m <= m
    BY <1>1
  <2> QED BY <2>1 DEF Inv, FramesOK
<1>8. ScopesOK'
  <2>1. Top' = scopes'[m]
    BY <1>1 DEF Top, Last
  <2>2. Top'.vars \subseteq Top'.owners \cup deadset'
    BY <1>3, <1>7, <2>1
  <2>3. \A i \in 1 .. m : /\ scopes'[i].owners \subseteq scopes'[i].vars /\ scopes'[i].vars \subseteq 1 .. nvals'
                          /\ \A j \in 1 .. m : i # j => scopes'[i].vars \cap scopes'[j].vars = {}
    <3> TAKE i \in 1 .. m
    <3>1. scopes'[i].owners \subseteq scopes'[i].vars /\ scopes'[i].vars \subseteq 1 .. nvals'
      BY <1>3, <1>5, <1>6
    <3>2. ASSUME NEW j \in 1 .. m, i # j
          PROVE  scopes'[i].vars \cap scopes'[j].vars = {}
      BY <1>5, <1>6, <3>2
    <3> QED BY <3>1, <3>2
  <2>4. Len(scopes') = Len(frames') + 1
    BY <1>1
  <2> QED BY <1>1, <2>2, <2>3, <2>4 DEF ScopesOK
<1>9. FramesOK'
  <2> SUFFICES ASSUME NEW i \in 1 .. m - 1
               PROVE  LET f == frames'[i] IN
                      /\ ~f.entry.ret
                      /\ f.entry_deadset \subseteq deadset'
                      /\ \A j \in 1 .. m :
                           IF j <= i THEN scopes'[j].vars \subseteq scopes'[j].owners \cup f.entry_deadset
                                     ELSE scopes'[j].vars \cap f.entry_deadset = {}
                      /\ f.kind = "else" => f.entry_deadset \subseteq f.then_deadset /\ f.then_deadset \subseteq 1 .. nvals'
                      /\ \A j \in 1 .. m - 1 : i < j => f.entry_deadset \subseteq frames'[j].entry_deadset
    BY <1>1 DEF FramesOK
  <2>1. LET f == frames[i] IN
        /\ ~f.entry.ret
        /\ \A j \in 1 .. m + 1 :
             IF j <= i THEN scopes[j].vars \subseteq scopes[j].owners \cup f.entry_deadset
                       ELSE scopes[j].vars \cap f.entry_deadset = {}
        /\ f.kind = "else" => f.entry_deadset \subseteq f.then_deadset /\ f.then_deadset \subseteq 1 .. nvals
        /\ \A j \in 1 .. m : i < j => f.entry_deadset \subseteq frames[j].entry_deadset
    BY <1>1, <1>2 DEF Inv, FramesOK
  <2>2. frames[i].entry_deadset \subseteq deadset'
    BY <1>2, <1>3, <2>1
  <2>3. \A j \in 1 .. m :
          IF j <= i THEN scopes'[j].vars \subseteq scopes'[j].owners \cup frames[i].entry_deadset
                    ELSE scopes'[j].vars \cap frames[i].entry_deadset = {}
    <3> TAKE j \in 1 .. m
    <3>1. CASE j = m
      BY <1>2, <1>6, <2>1, <3>1
    <3>2. CASE j # m
      <4>1. j \in 1 .. m - 1 /\ scopes'[j] = scopes[j]
        BY <1>1, <1>2, <3>2
      <4> QED BY <1>2, <2>1, <4>1
    <3> QED BY <3>1, <3>2
  <2>4. \A j \in 1 .. m - 1 : i < j => frames[i].entry_deadset \subseteq frames'[j].entry_deadset
    BY <1>1, <1>2, <2>1
  <2> QED BY <1>1, <1>3, <2>1, <2>2, <2>3, <2>4
<1> QED BY <1>4, <1>8, <1>9

LEMMA LeavesInv ==
  ASSUME Inv, NEW L, Leaves(L), TypeOK', ghost.lost \subseteq ghost'.lost, Lost(Top)',
         pt'.ret => pt'.cruns = {},
         ~pt'.ret => RunsAre(pt, Alive)' /\ CRunsAre(pt, Objs(Alive))',
         Untouched(pt)', Decided(pt, Owners, deadset)', MadeInBranch(pt, Len(scopes))',
         \A i \in 1 .. Len(frames) - 1 : frames[i].kind # "block" => Follows(pt, deadset, i)',
         IRDropsOnce', CDropsOnceIfNotLost'
  PROVE  Inv'
<1>a. PICK m : m = Len(frames)
  OBVIOUS
<1>1. /\ m \in Nat \ {0} /\ Len(scopes) = m + 1 /\ DOMAIN scopes = 1 .. m + 1 /\ DOMAIN frames = 1 .. m
      /\ DOMAIN scopes' = 1 .. m /\ DOMAIN frames' = 1 .. m - 1
      /\ Len(scopes') = m /\ Len(frames') = m - 1
      /\ \A i \in 1 .. m - 1 : frames'[i] = frames[i] /\ scopes'[i] = scopes[i]
      /\ \A i \in 0 .. m - 1 : OwnersTo(i)' = OwnersTo(i)
      /\ Alive' \subseteq AliveAt(m)
  BY <1>a, LeavesShape
<1>2. /\ \A i \in 1 .. m - 1 : i \in 1 .. m /\ i \in 0 .. m - 1
      /\ m \in 1 .. m /\ nvals' = nvals /\ obj' = obj
  BY <1>1 DEF Leaves
<1>3. ValuesOK' /\ ScopesOK' /\ FramesOK'
  BY LeavesBase
<1>4. ASSUME NEW i \in 1 .. m - 1
      PROVE  /\ frames'[i] = frames[i] /\ OwnersTo(i)' = OwnersTo(i)
             /\ AliveAt(i)' = AliveAt(i) /\ AliveThen(i)' = AliveThen(i)
  BY <1>1, <1>2 DEF AliveAt, AliveThen
<1>5. FramesAliveOK'
  <2> SUFFICES ASSUME NEW i \in 1 .. m - 1
               PROVE  /\ Injective(AliveAt(i))'
                      /\ RunsAre(frames[i].entry, AliveAt(i))'
                      /\ (frames[i].kind = "else" /\ ~frames[i].then.ret => RunsAre(frames[i].then, AliveThen(i)))'
    BY <1>1 DEF FramesAliveOK
  <2>1. /\ Injective(AliveAt(i))
        /\ RunsAre(frames[i].entry, AliveAt(i))
        /\ frames[i].kind = "else" /\ ~frames[i].then.ret => RunsAre(frames[i].then, AliveThen(i))
    BY <1>1, <1>2 DEF Inv, AliveOK, FramesAliveOK
  <2> QED BY <1>2, <1>4, <2>1 DEF Injective, RunsAre, Objs
<1>6. FramesCAliveOK'
  <2> SUFFICES ASSUME NEW i \in 1 .. m - 1
               PROVE  /\ CRunsAre(frames[i].entry, Objs(AliveAt(i)))'
                      /\ (frames[i].kind = "else" /\ ~frames[i].then.ret => CRunsAre(frames[i].then, Objs(AliveThen(i))))'
    BY <1>1 DEF FramesCAliveOK
  <2>1. /\ CRunsAre(frames[i].entry, Objs(AliveAt(i)))
        /\ frames[i].kind = "else" /\ ~frames[i].then.ret => CRunsAre(frames[i].then, Objs(AliveThen(i)))
    BY <1>1, <1>2 DEF Inv, CAliveOK, FramesCAliveOK
  <2>2. Objs(AliveAt(i))' = Objs(AliveAt(i)) /\ Objs(AliveThen(i))' = Objs(AliveThen(i))
    BY <1>2, <1>4 DEF Objs
  <2> QED BY <1>4, <2>1, <2>2 DEF CRunsAre
<1>7. AliveOK'
  <2>1. Injective(AliveAt(m))
    BY <1>1, <1>2 DEF Inv, AliveOK, FramesAliveOK
  <2>2. Injective(Alive)'
    BY <1>1, <1>2, <2>1 DEF Injective
  <2> QED BY <1>5, <2>2 DEF AliveOK
<1>8. CAliveOK'
  <2>1. \A i \in 1 .. m - 1 : Lost(scopes[i])'
    <3> TAKE i \in 1 .. m - 1
    <3>1. Lost(scopes[i]) /\ scopes'[i] = scopes[i]
      BY <1>1, <1>2 DEF Inv, CAliveOK
    <3> QED BY <3>1 DEF Lost
  <2> QED BY <1>1, <1>6, <2>1 DEF CAliveOK
<1>9. LiveOK'
  <2>1. ASSUME NEW i \in 1 .. m - 1
        PROVE  /\ Untouched(frames[i].entry)'
               /\ Decided(frames[i].entry, OwnersTo(i), frames[i].entry_deadset)'
               /\ MadeInBranch(frames[i].entry, i)'
               /\ (frames[i].kind = "else" => Untouched(frames[i].then))'
    <3>1. /\ Untouched(frames[i].entry)
          /\ Decided(frames[i].entry, OwnersTo(i), frames[i].entry_deadset)
          /\ MadeInBranch(frames[i].entry, i)
          /\ frames[i].kind = "else" => Untouched(frames[i].then)
      BY <1>1, <1>2 DEF Inv, LiveOK
    <3>2. MadeInBranch(frames[i].entry, i)'
      <4>1. \A j \in 1 .. i : j \in 1 .. m - 1 /\ \A k \in 1 .. j - 1 : k \in 1 .. m - 1
        BY <1>1
      <4> QED BY <1>1, <3>1, <4>1 DEF MadeInBranch
    <3> QED BY <1>2, <1>4, <3>1, <3>2 DEF Untouched, Decided
  <2>2. ASSUME NEW i \in 1 .. m - 1, frames'[i].kind # "block"
        PROVE  /\ Follows(pt, deadset, i)'
               /\ \A j \in 1 .. m - 1 :
                    /\ j > i => Follows(frames[j].entry, frames[j].entry_deadset, i)'
                    /\ j >= i /\ frames'[j].kind = "else" => Follows(frames[j].then, frames[j].then_deadset, i)'
    <3>1. /\ \A j \in 1 .. m :
               /\ j > i => Follows(frames[j].entry, frames[j].entry_deadset, i)
               /\ j >= i /\ frames[j].kind = "else" => Follows(frames[j].then, frames[j].then_deadset, i)
      BY <1>1, <1>2, <1>4, <2>2 DEF Inv, LiveOK
    <3>2. ASSUME NEW j \in 1 .. m - 1
          PROVE  /\ j > i => Follows(frames[j].entry, frames[j].entry_deadset, i)'
                 /\ j >= i /\ frames'[j].kind = "else" => Follows(frames[j].then, frames[j].then_deadset, i)'
      <4>1. frames'[j] = frames[j] /\ j \in 1 .. m
        BY <1>1, <1>2
      <4> QED BY <1>4, <3>1, <4>1 DEF Follows
    <3>3. Follows(pt, deadset, i)'
      BY <1>a, <1>4, <2>2
    <3> QED BY <3>2, <3>3
  <2> QED BY <1>1, <2>1, <2>2 DEF LiveOK
<1> QED BY <1>3, <1>7, <1>8, <1>9 DEF Inv

\* What the liveness variables say behind an "if".
LEMMA BranchLive ==
  ASSUME Inv, NEW L, Leaves(L), TypeOK', Last(frames).kind # "block", Untouched(pt)',
         \A v \in Owners' : pt'.live[v] = IF v \in deadset' \ Last(frames).entry_deadset
                                          THEN "dead" ELSE Last(frames).entry.live[v]
  PROVE  /\ Decided(pt, Owners, deadset)' /\ MadeInBranch(pt, Len(scopes))'
         /\ \A i \in 1 .. Len(frames) - 1 : frames[i].kind # "block" => Follows(pt, deadset, i)'
<1>a. PICK m : m = Len(frames)
  OBVIOUS
<1>b. PICK f : f = Last(frames)
  OBVIOUS
<1>1. /\ m \in Nat \ {0} /\ DOMAIN frames = 1 .. m /\ Len(scopes') = m
      /\ \A i \in 1 .. m - 1 : frames'[i] = frames[i] /\ scopes'[i] = scopes[i]
      /\ f = frames[m] /\ OuterOwners = OwnersTo(m) /\ Owners' \subseteq OwnersTo(m)
      /\ \A i \in 0 .. m - 1 : OwnersTo(i)' = OwnersTo(i)
      /\ Owners' = OwnersTo(m - 1) \cup (scopes[m].owners \ L)
  BY ZenonT(30), <1>a, <1>b, LeavesShape
<1>2. m \in 1 .. m /\ \A i \in 1 .. m - 1 : i \in 1 .. m /\ i < m /\ i \in 0 .. m - 1
  BY <1>1
<1>3. /\ Decided(f.entry, OwnersTo(m), f.entry_deadset)
      /\ MadeInBranch(f.entry, m)
      /\ \A i \in 1 .. m - 1 : frames[i].kind # "block" => Follows(f.entry, f.entry_deadset, i)
  BY <1>1, <1>2 DEF Inv, LiveOK
<1>4. \A v \in Owners' : pt'.live[v] = IF v \in deadset' \ f.entry_deadset
                                       THEN "dead" ELSE f.entry.live[v]
  BY <1>b
<1>5. Decided(pt, Owners, deadset)'
  BY <1>1, <1>3, <1>4 DEF Decided
<1>6. MadeInBranch(pt, Len(scopes))'
  <2> SUFFICES ASSUME NEW i \in 1 .. m, NEW v \in scopes'[i].owners, pt'.live[v] = "live"
               PROVE  \E k \in 1 .. i - 1 : frames'[k].kind # "block"
    BY <1>1 DEF MadeInBranch
  <2>1. v \in Owners'
    BY <1>1 DEF Owners, OwnersTo
  <2>2. f.entry.live[v] = "live"
    BY <1>4, <2>1
  <2>3. v \in scopes[i].owners
    <3>1. CASE i = m
      BY <1>a, <3>1 DEF Leaves
    <3>2. CASE i # m
      BY <1>1, <3>2
    <3> QED BY <3>1, <3>2
  <2>4. \E k \in 1 .. i - 1 : frames[k].kind # "block"
    BY <1>3, <2>2, <2>3 DEF MadeInBranch
  <2>5. \A k \in 1 .. i - 1 : k \in 1 .. m - 1
    BY <1>1
  <2> QED BY <1>1, <2>4, <2>5
<1>7. ASSUME NEW i \in 1 .. m - 1, frames[i].kind # "block"
      PROVE  Follows(pt, deadset, i)'
  <2>1. /\ frames'[i] = frames[i] /\ OwnersTo(i)' = OwnersTo(i)
        /\ Follows(f.entry, f.entry_deadset, i)
    BY <1>1, <1>2, <1>3, <1>7
  <2>2. OwnersTo(i) \subseteq Owners'
    <3>1. \A k \in 1 .. i : k \in 1 .. m - 1
      BY <1>1
    <3>2. OwnersTo(i) \subseteq OwnersTo(m - 1)
      BY <3>1 DEF OwnersTo
    <3> QED BY <1>1, <3>2
  <2>3. frames[i].entry_deadset \subseteq f.entry_deadset /\ f.entry_deadset \subseteq deadset'
    BY <1>b, <1>1, <1>2 DEF Inv, FramesOK, Leaves
  <2> QED BY <1>4, <2>1, <2>2, <2>3 DEF Follows
<1> QED BY <1>a, <1>5, <1>6, <1>7

LEMMA LostScopeFacts ==
  ASSUME TypeOK, NEW sc \in Scopes, NEW L \in SUBSET Values
  PROVE  /\ LostScope(sc, L) \in Scopes /\ LostScope(sc, L).vars = sc.vars
         /\ LostScope(sc, L).owners = sc.owners \ L
         /\ ToSet(LostScope(sc, L).drops) = ToSet(sc.drops) \cup Objs(L)
<1> DEFINE b == backpropagate_drop_to_ast(sc, L)
<1>1. /\ b \in Scopes /\ b.vars = sc.vars /\ b.owners = sc.owners
      /\ ToSet(b.drops) = ToSet(sc.drops) \cup Objs(L)
  BY BackpropagateFacts
<1>2. LostScope(sc, L) = [b EXCEPT !.owners = @ \ L]
  BY DEF LostScope
<1> HIDE DEF b
<1> QED BY <1>1, <1>2 DEF Scopes

LEMMA LostPointFacts ==
  ASSUME NEW p \in Points, NEW sc, NEW L
  PROVE  /\ LostPoint(p, sc, L) \in Points
         /\ LostPoint(p, sc, L).runs = drop(p, L).runs /\ LostPoint(p, sc, L).cruns = p.cruns
         /\ LostPoint(p, sc, L).ret = p.ret
         /\ \A v \in Values : LostPoint(p, sc, L).live[v] = IF v \in L \ sc.owners THEN "dead" ELSE p.live[v]
<1> DEFINE d == drop(p, L)
           live == Written(d.live, L \ sc.owners, "dead")
<1>1. d \in Points /\ d.cruns = p.cruns /\ d.ret = p.ret /\ d.live = p.live
  BY DropFacts
<1>2. LostPoint(p, sc, L) = [d EXCEPT !.live = live]
  BY DEF LostPoint
<1> HIDE DEF d
<1>3. /\ live \in [Values -> Lives]
      /\ \A v \in Values : live[v] = IF v \in L \ sc.owners THEN "dead" ELSE d.live[v]
  <2>1. "dead" \in Lives /\ d.live \in [Values -> Lives]
    BY <1>1 DEF Lives, Points
  <2> QED BY <2>1, LiveFacts
<1> HIDE DEF live
<1>4. /\ LostPoint(p, sc, L) \in Points /\ LostPoint(p, sc, L).live = live
      /\ LostPoint(p, sc, L).runs = d.runs /\ LostPoint(p, sc, L).cruns = d.cruns
      /\ LostPoint(p, sc, L).ret = d.ret
  BY <1>1, <1>2, <1>3 DEF Points
<1> QED BY <1>1, <1>3, <1>4 DEF d

LEMMA LostGhostFacts ==
  ASSUME TypeOK, NEW g \in Ghosts, NEW p \in Points, NEW L \in SUBSET Values,
         p.ret \/ DropDoubled(p, L) = {}
  PROVE  LET h == LostGhost(g, p, L)
         IN  /\ h \in Ghosts /\ h.doubled = g.doubled /\ h.leaked = g.leaked
             /\ h.cdoubled = g.cdoubled /\ h.cleaked = g.cleaked
             /\ h.misused = g.misused /\ h.lost = g.lost \cup Objs(L)
<1> DEFINE d == Doubling(g, p, L)
<1>1. /\ d \in Ghosts /\ d.doubled = g.doubled /\ d.leaked = g.leaked
      /\ d.cdoubled = g.cdoubled /\ d.cleaked = g.cleaked /\ d.lost = g.lost
      /\ d.misused = g.misused
  BY DoublingFacts
<1>2. LostGhost(g, p, L) = [d EXCEPT !.lost = @ \cup Objs(L)]
  BY DEF LostGhost
<1>3. Objs(L) \subseteq Values
  BY ObjsFacts
<1> HIDE DEF d
<1> QED BY <1>1, <1>2, <1>3 DEF Ghosts

LEMMA JoinFacts ==
  ASSUME NEW p \in Points, NEW q \in Points
  PROVE  /\ Join(p, q) \in Points /\ Join(p, q).runs = p.runs \cup q.runs
         /\ Join(p, q).cruns = p.cruns \cup q.cruns /\ ~Join(p, q).ret
         /\ \A v \in Values : Join(p, q).live[v] = IF p.live[v] = q.live[v] THEN p.live[v] ELSE "phi"
<1>1. /\ Joined(p.live, q.live) \in [Values -> Lives]
      /\ \A v \in Values : Joined(p.live, q.live)[v] = IF p.live[v] = q.live[v] THEN p.live[v] ELSE "phi"
  BY DEF Joined, Points, Lives
<1> QED BY <1>1 DEF Join, Points

\* The scopes when the innermost one is left and the next one is replaced.
LEMMA OuterScopes ==
  ASSUME TypeOK, ScopesOK, NEW m \in Nat \ {0}, Len(scopes) = m + 1, NEW sc \in Scopes
  PROVE  LET R == [Front(scopes) EXCEPT ![m] = sc]
         IN  /\ R \in Seq(Scopes) /\ Len(R) = m /\ R[m] = sc
             /\ \A i \in 1 .. m - 1 : R[i] = scopes[i]
<1>1. scopes \in Seq(Scopes) /\ m + 1 \in Nat \ {0} /\ (m + 1) - 1 = m
  BY DEF TypeOK
<1>2. PICK n \in Nat \ {0} : n = m + 1
  BY <1>1
<1>3. /\ Front(scopes) \in Seq(Scopes) /\ Len(Front(scopes)) = n - 1 /\ DOMAIN Front(scopes) = 1 .. n - 1
      /\ \A i \in 1 .. n - 1 : Front(scopes)[i] = scopes[i]
  BY <1>1, <1>2, FrontFacts
<1>4. n - 1 = m /\ m \in 1 .. m /\ \A i \in 1 .. m - 1 : i \in 1 .. m /\ i # m
  BY <1>2
<1>5. /\ Front(scopes) \in Seq(Scopes) /\ Len(Front(scopes)) = m /\ DOMAIN Front(scopes) = 1 .. m
      /\ \A i \in 1 .. m : Front(scopes)[i] = scopes[i]
  BY <1>3, <1>4
<1> QED BY <1>4, <1>5

\* Where the code of the innermost frame is.
LEMMA InFrame ==
  ASSUME Inv, frames # << >>, NEW m, m = Len(frames)
  PROVE  /\ m \in Nat \ {0} /\ Len(scopes) = m + 1 /\ Len(scopes) - 1 = m
         /\ Len(scopes) - 2 = m - 1
         /\ DOMAIN scopes = 1 .. m + 1 /\ DOMAIN frames = 1 .. m
         /\ frames \in Seq(Frames) /\ scopes \in Seq(Scopes)
         /\ Last(frames) = frames[m] /\ Last(frames) \in Frames /\ scopes[m] \in Scopes
         /\ Last(frames).entry_deadset \subseteq deadset /\ deadset \subseteq 1 .. nvals
         /\ OuterOwners = OwnersTo(m) /\ OuterOwners \subseteq Values
         /\ Lost(scopes[m]) /\ \A i \in 1 .. m - 1 : Lost(scopes[i])
<1>1. /\ m \in Nat /\ Len(scopes) = m + 1 /\ DOMAIN scopes = 1 .. m + 1 /\ DOMAIN frames = 1 .. m
      /\ frames \in Seq(Frames) /\ scopes \in Seq(Scopes)
  BY ScopeFacts DEF Inv, TypeOK, ScopesOK
<1>2. m # 0
  BY <1>1
<1>3. /\ Len(scopes) - 1 = m /\ Len(scopes) - 2 = m - 1
      /\ m \in 1 .. m /\ m \in 1 .. m + 1 /\ 1 .. m - 1 \subseteq 1 .. m
  BY <1>1, <1>2
<1>4. Last(frames) = frames[m] /\ Last(frames) \in Frames /\ scopes[m] \in Scopes
  BY <1>1, <1>3 DEF Last
<1>5. Last(frames).entry_deadset \subseteq deadset /\ deadset \subseteq 1 .. nvals
  BY <1>1, <1>3, <1>4 DEF Inv, FramesOK, ValuesOK
<1>6. OuterOwners = OwnersTo(m) /\ OuterOwners \subseteq Values
  <2>1. OuterOwners = OwnersTo(m)
    BY <1>3 DEF OuterOwners
  <2>2. m \in 0 .. Len(scopes)
    BY <1>1
  <2> QED BY <2>1, <2>2, OwnersFacts DEF Inv
<1>7. Lost(scopes[m]) /\ \A i \in 1 .. m - 1 : Lost(scopes[i])
  BY <1>3 DEF Inv, CAliveOK
<1> QED BY <1>1, <1>2, <1>3, <1>4, <1>5, <1>6, <1>7

LEMMA BlockLeaveInv ==
  ASSUME Inv, result' = result, BlockLeave
  PROVE  Inv'
<1>a. PICK m : m = Len(frames)
  OBVIOUS
<1> DEFINE S == Top.owners \ deadset
           O == OuterOwners \ deadset
<1>1. /\ status = "building" /\ frames # << >>
      /\ scopes' = Front(scopes) /\ frames' = Front(frames)
      /\ pt' = IF pt.ret THEN [Left(S) EXCEPT !.runs = {}, !.ret = FALSE] ELSE Left(S)
      /\ ghost' = LeftGhost(S)
      /\ nvals' = nvals /\ obj' = obj /\ deadset' = deadset /\ stmts' = stmts /\ status' = status
  BY DEF BlockLeave, owners_unwind_scope
<1>2. /\ m \in Nat \ {0} /\ Len(scopes) = m + 1 /\ Len(scopes) - 1 = m /\ Len(scopes) - 2 = m - 1
      /\ DOMAIN frames = 1 .. m
      /\ frames \in Seq(Frames) /\ scopes \in Seq(Scopes)
      /\ Last(frames).entry_deadset \subseteq deadset /\ deadset \subseteq 1 .. nvals
      /\ OuterOwners = OwnersTo(m) /\ Lost(scopes[m])
  BY <1>a, <1>1, InFrame
<1>3. /\ Left(S) \in Points /\ Left(S).live = pt.live /\ Left(S).ret = pt.ret
      /\ ~pt.ret => RunsAre(Left(S), O) /\ CRunsAre(Left(S), Objs(O))
      /\ pt.ret => Left(S).cruns = {}
      /\ ghost' \in Ghosts /\ ghost'.doubled = ghost.doubled /\ ghost'.leaked = ghost.leaked
      /\ ghost'.lost = ghost.lost /\ ghost'.misused = ghost.misused
      /\ ghost'.cdoubled \cup ghost'.cleaked \subseteq ghost.lost
  BY <1>1, LeaveFacts
<1> HIDE DEF S, O
<1>4. /\ pt' \in Points /\ pt'.live = pt.live /\ ~pt'.ret
      /\ RunsAre(pt', O) /\ CRunsAre(pt', Objs(O))
  <2>1. CASE pt.ret
    <3>1. pt' = [Left(S) EXCEPT !.runs = {}, !.ret = FALSE]
      BY <1>1, <2>1
    <3>2. pt' \in Points /\ pt'.live = pt.live /\ ~pt'.ret /\ pt'.runs = {} /\ pt'.cruns = {}
      BY <1>3, <2>1, <3>1 DEF Points
    <3> QED BY <3>2 DEF RunsAre, CRunsAre
  <2>2. CASE ~pt.ret
    BY <1>1, <1>3, <2>2
  <2> QED BY <2>1, <2>2
<1>5. /\ scopes' \in Seq(Scopes) /\ Len(scopes') = m /\ \A i \in 1 .. m : scopes'[i] = scopes[i]
      /\ frames' \in Seq(Frames)
  <2>1. PICK n \in Nat \ {0} : n = m + 1 /\ n - 1 = m
    BY <1>2
  <2>2. Front(scopes) \in Seq(Scopes) /\ Len(Front(scopes)) = n - 1
        /\ \A i \in 1 .. n - 1 : Front(scopes)[i] = scopes[i]
    BY <1>2, <2>1, FrontFacts
  <2>3. Front(frames) \in Seq(Frames)
    BY <1>a, <1>2, FrontFacts
  <2> QED BY <1>1, <2>1, <2>2, <2>3
<1>6. TypeOK'
  BY <1>1, <1>3, <1>4, <1>5 DEF Inv, TypeOK
<1>7. Leaves({})
  <2>1. m \in 1 .. m /\ \A i \in 1 .. m - 1 : i \in 1 .. m
    BY <1>2
  <2>2. Len(scopes') = Len(scopes) - 1 /\ \A i \in 1 .. Len(scopes) - 2 : scopes'[i] = scopes[i]
    BY <1>2, <1>5, <2>1
  <2>3. scopes'[m] = scopes[m]
    BY <1>5, <2>1
  <2> QED BY <1>a, <1>1, <1>2, <2>2, <2>3 DEF Leaves
<1>8. /\ Alive' = OuterOwners \ deadset' /\ Owners' \subseteq OuterOwners
      /\ \A i \in 1 .. m - 1 : frames'[i] = frames[i] /\ OwnersTo(i)' = OwnersTo(i)
  <2>1. /\ Alive' = OuterOwners \ deadset' /\ Owners' \subseteq OuterOwners
        /\ \A i \in 1 .. m - 1 : frames'[i] = frames[i]
        /\ \A i \in 0 .. m - 1 : OwnersTo(i)' = OwnersTo(i)
    BY <1>a, <1>6, <1>7, LeavesShape
  <2>2. \A i \in 1 .. m - 1 : i \in 0 .. m - 1
    BY <1>2
  <2> QED BY <2>1, <2>2
<1>9. RunsAre(pt, Alive)' /\ CRunsAre(pt, Objs(Alive))'
  <2>1. Alive' = O
    BY <1>1, <1>8 DEF O
  <2>2. Objs(Alive)' = Objs(O)
    BY <1>1, <2>1 DEF Objs
  <2> QED BY <1>3, <1>4, <2>2 DEF RunsAre, CRunsAre
<1>10. Lost(Top)'
  <2>1. m \in 1 .. m
    BY <1>2
  <2>2. Top' = scopes[m]
    BY <1>5, <2>1 DEF Top, Last
  <2> QED BY <1>2, <1>3, <2>2 DEF Lost
<1>11. /\ Untouched(pt)' /\ Decided(pt, Owners, deadset)'
       /\ \A i \in 1 .. m - 1 : frames[i].kind # "block" => Follows(pt, deadset, i)'
  <2>1. /\ Untouched(pt) /\ Decided(pt, Owners, deadset)
        /\ \A i \in 1 .. m : frames[i].kind # "block" => Follows(pt, deadset, i)
    BY <1>2 DEF Inv, LiveOK
  <2>2. Owners' \subseteq Owners
    BY <1>8, OwnersFacts DEF Inv
  <2>3. Untouched(pt)' /\ Decided(pt, Owners, deadset)'
    BY <1>1, <1>4, <2>1, <2>2 DEF Untouched, Decided
  <2>4. ASSUME NEW i \in 1 .. m - 1, frames[i].kind # "block"
        PROVE  Follows(pt, deadset, i)'
    <3>1. Follows(pt, deadset, i)
      BY <1>2, <2>1, <2>4
    <3> QED BY <1>1, <1>4, <1>8, <3>1 DEF Follows
  <2> QED BY <2>3, <2>4
<1>12. MadeInBranch(pt, Len(scopes))'
  <2> SUFFICES ASSUME NEW i \in 1 .. m, NEW v \in scopes'[i].owners, pt'.live[v] = "live"
               PROVE  \E k \in 1 .. i - 1 : frames'[k].kind # "block"
    BY <1>5 DEF MadeInBranch
  <2>1. i \in 1 .. Len(scopes) /\ v \in scopes[i].owners
    BY <1>2, <1>5
  <2>2. \E k \in 1 .. i - 1 : frames[k].kind # "block"
    BY <1>4, <2>1 DEF Inv, LiveOK, MadeInBranch
  <2>3. \A k \in 1 .. i - 1 : k \in 1 .. m - 1
    BY <1>2
  <2> QED BY <1>8, <2>2, <2>3
<1>13. IRDropsOnce' /\ CDropsOnceIfNotLost'
  BY <1>3 DEF Inv, IRDropsOnce, CDropsOnceIfNotLost
<1>14. \A i \in 1 .. Len(frames) - 1 : frames[i].kind # "block" => Follows(pt, deadset, i)'
  BY <1>a, <1>11
<1> QED BY <1>3, <1>4, <1>6, <1>7, <1>9, <1>10, <1>11, <1>12, <1>13, <1>14, LeavesInv

\* The end of an "if" in which the owners in L are lost, by what is behind it.
BranchEnds(L, sc) ==
  LET m == Len(frames)
      f == Last(frames)
      O == OuterOwners \ deadset'
  IN
  /\ status = "building" /\ frames # << >> /\ f.kind # "block"
  /\ nvals' = nvals /\ obj' = obj /\ stmts' = stmts /\ status' = status /\ frames' = Front(frames)
  /\ L \in SUBSET Values /\ sc \in Scopes /\ scopes' = [Front(scopes) EXCEPT ![m] = sc]
  /\ sc.vars = scopes[m].vars /\ sc.owners = scopes[m].owners \ L
  /\ ToSet(sc.drops) \subseteq ToSet(scopes[m].drops) \cup Objs(L)
  /\ L \subseteq deadset' /\ f.entry_deadset \subseteq deadset' /\ deadset' \subseteq 1 .. nvals
  /\ pt' \in Points
  /\ pt'.ret => pt'.cruns = {}
  /\ ~pt'.ret => RunsAre(pt', O) /\ \A r \in pt'.cruns : r \ ghost'.lost = Objs(O) \ ghost'.lost
  /\ ghost' \in Ghosts /\ ghost'.doubled = ghost.doubled /\ ghost'.leaked = ghost.leaked
  /\ ghost'.misused = ghost.misused /\ ghost'.lost = ghost.lost \cup Objs(L)
  /\ ghost'.cdoubled \cup ghost'.cleaked \subseteq ghost'.lost
  /\ \A v \in Values : v > nvals => pt'.live[v] = "none"
  /\ \A v \in OuterOwners \ (L \cap scopes[m].owners) :
       pt'.live[v] = IF v \in deadset' \ f.entry_deadset THEN "dead" ELSE f.entry.live[v]

LEMMA BranchEndInv ==
  ASSUME Inv, result' = result, NEW L, NEW sc, BranchEnds(L, sc)
  PROVE  Inv'
<1>a. PICK m : m = Len(frames)
  OBVIOUS
<1>0. /\ status = "building" /\ frames # << >> /\ Last(frames).kind # "block"
      /\ nvals' = nvals /\ obj' = obj /\ stmts' = stmts /\ status' = status /\ frames' = Front(frames)
      /\ L \in SUBSET Values /\ sc \in Scopes /\ scopes' = [Front(scopes) EXCEPT ![m] = sc]
      /\ sc.vars = scopes[m].vars /\ sc.owners = scopes[m].owners \ L
      /\ ToSet(sc.drops) \subseteq ToSet(scopes[m].drops) \cup Objs(L)
      /\ L \subseteq deadset' /\ Last(frames).entry_deadset \subseteq deadset' /\ deadset' \subseteq 1 .. nvals
      /\ pt' \in Points
      /\ pt'.ret => pt'.cruns = {}
      /\ ~pt'.ret => /\ RunsAre(pt', OuterOwners \ deadset')
                     /\ \A r \in pt'.cruns : r \ ghost'.lost = Objs(OuterOwners \ deadset') \ ghost'.lost
      /\ ghost' \in Ghosts /\ ghost'.doubled = ghost.doubled /\ ghost'.leaked = ghost.leaked
      /\ ghost'.misused = ghost.misused /\ ghost'.lost = ghost.lost \cup Objs(L)
      /\ ghost'.cdoubled \cup ghost'.cleaked \subseteq ghost'.lost
      /\ \A v \in Values : v > nvals => pt'.live[v] = "none"
      /\ \A v \in OuterOwners \ (L \cap scopes[m].owners) :
           pt'.live[v] = IF v \in deadset' \ Last(frames).entry_deadset
                         THEN "dead" ELSE Last(frames).entry.live[v]
  BY <1>a, Zenon DEF BranchEnds
<1>1. /\ m \in Nat \ {0} /\ Len(scopes) = m + 1 /\ Len(scopes) - 1 = m /\ Len(scopes) - 2 = m - 1
      /\ frames \in Seq(Frames)
      /\ OuterOwners = OwnersTo(m) /\ Lost(scopes[m])
  BY <1>a, <1>0, InFrame
<1>2. /\ scopes' \in Seq(Scopes) /\ Len(scopes') = m /\ scopes'[m] = sc
      /\ \A i \in 1 .. m - 1 : scopes'[i] = scopes[i]
  <2> DEFINE R == [Front(scopes) EXCEPT ![m] = sc]
  <2>1. TypeOK /\ ScopesOK
    BY DEF Inv
  <2>2. m \in Nat \ {0} /\ Len(scopes) = m + 1 /\ sc \in Scopes
    BY <1>0, <1>1
  <2>3. R \in Seq(Scopes) /\ Len(R) = m /\ R[m] = sc /\ \A i \in 1 .. m - 1 : R[i] = scopes[i]
    BY <2>1, <2>2, OuterScopes
  <2>4. scopes' = R
    BY <1>0
  <2> HIDE DEF R
  <2> QED BY <2>3, <2>4
<1>3. Front(frames) \in Seq(Frames)
  BY <1>a, <1>1, FrontFacts
<1>4. deadset' \subseteq Values
  BY <1>0, OwnershipAssumptions DEF Inv, TypeOK, Values
<1>5. TypeOK'
  BY <1>0, <1>2, <1>3, <1>4 DEF Inv, TypeOK
<1>6. Leaves(L)
  BY <1>a, <1>0, <1>1, <1>2 DEF Leaves
<1>7. /\ Alive' = OuterOwners \ deadset'
      /\ Owners' = OwnersTo(m - 1) \cup (scopes[m].owners \ L) /\ Owners' \subseteq OuterOwners
  BY <1>a, <1>5, <1>6, LeavesShape
<1>8. ~pt'.ret => RunsAre(pt, Alive)' /\ CRunsAre(pt, Objs(Alive))'
  <2>1. Objs(Alive)' = Objs(OuterOwners \ deadset')
    BY <1>0, <1>7 DEF Objs
  <2>2. ~pt'.ret => RunsAre(pt', Alive')
    BY <1>0, <1>7
  <2> QED BY <1>0, <2>1, <2>2 DEF RunsAre, CRunsAre, Objs
<1>9. Lost(Top)'
  <2>1. Top' = sc
    BY <1>2 DEF Top, Last
  <2> QED BY <1>0, <1>1, <2>1 DEF Lost
<1>10. Untouched(pt)'
  BY <1>0 DEF Untouched
<1>11. \A v \in Owners' : pt'.live[v] = IF v \in deadset' \ Last(frames).entry_deadset
                                        THEN "dead" ELSE Last(frames).entry.live[v]
  <2>1. \A v \in OwnersTo(m - 1) : v \notin scopes[m].owners
    <3>1. \A v \in OwnersTo(m - 1) : \E k \in 1 .. m - 1 : v \in scopes[k].owners
      BY DEF OwnersTo
    <3>2. \A k \in 1 .. m - 1 : k \in DOMAIN scopes /\ k # m
      BY <1>1, ScopeFacts DEF Inv
    <3>3. m \in DOMAIN scopes
      BY <1>1, ScopeFacts DEF Inv
    <3>4. \A k \in 1 .. m - 1 : scopes[k].owners \cap scopes[m].owners = {}
      BY <3>2, <3>3 DEF Inv, ScopesOK
    <3> QED BY <3>1, <3>4
  <2>2. \A v \in Owners' : v \in OuterOwners \ (L \cap scopes[m].owners)
    BY <1>7, <2>1
  <2> QED BY <1>0, <2>2
<1>12. /\ Decided(pt, Owners, deadset)' /\ MadeInBranch(pt, Len(scopes))'
       /\ \A i \in 1 .. Len(frames) - 1 : frames[i].kind # "block" => Follows(pt, deadset, i)'
  BY <1>0, <1>5, <1>6, <1>10, <1>11, BranchLive
<1>13. IRDropsOnce' /\ CDropsOnceIfNotLost'
  BY <1>0 DEF Inv, IRDropsOnce, CDropsOnceIfNotLost
<1>14. ghost.lost \subseteq ghost'.lost /\ (pt'.ret => pt'.cruns = {})
  BY <1>0
<1> QED BY <1>5, <1>6, <1>8, <1>9, <1>10, <1>12, <1>13, <1>14, LeavesInv

\* What the liveness variables say at the end of a branch, of the owners around it.
LEMMA LiveAtBranchEnd ==
  ASSUME Inv, frames # << >>, Last(frames).kind # "block"
  PROVE  LET f == Last(frames)
         IN  /\ f \in Frames /\ RunsAre(f.entry, OuterOwners \ f.entry_deadset)
             /\ CRunsAre(f.entry, Objs(OuterOwners \ f.entry_deadset)) /\ ~f.entry.ret
             /\ Injective(OuterOwners \ f.entry_deadset)
             /\ \A v \in OuterOwners :
                  pt.live[v] = IF v \in deadset \ f.entry_deadset THEN "dead" ELSE f.entry.live[v]
             /\ \A v \in Values : v > nvals => pt.live[v] = "none" /\ f.entry.live[v] = "none"
             /\ f.kind = "else" =>
                  /\ f.entry_deadset \subseteq f.then_deadset /\ f.then_deadset \subseteq 1 .. nvals
                  /\ ~f.then.ret => /\ RunsAre(f.then, OuterOwners \ f.then_deadset)
                                    /\ CRunsAre(f.then, Objs(OuterOwners \ f.then_deadset))
                  /\ \A v \in OuterOwners :
                       f.then.live[v] = IF v \in f.then_deadset \ f.entry_deadset
                                        THEN "dead" ELSE f.entry.live[v]
                  /\ \A v \in Values : v > nvals => f.then.live[v] = "none"
<1>a. PICK m : m = Len(frames)
  OBVIOUS
<1>b. PICK f : f = Last(frames)
  OBVIOUS
<1>1. /\ m \in Nat \ {0} /\ DOMAIN frames = 1 .. m
      /\ f = frames[m] /\ f \in Frames /\ OuterOwners = OwnersTo(m)
      /\ f.kind # "block"
  BY <1>a, <1>b, InFrame
<1>2. m \in DOMAIN frames /\ m >= m
  BY <1>1
<1>3. /\ RunsAre(f.entry, OuterOwners \ f.entry_deadset)
      /\ CRunsAre(f.entry, Objs(OuterOwners \ f.entry_deadset))
      /\ Injective(OuterOwners \ f.entry_deadset) /\ ~f.entry.ret
      /\ f.kind = "else" /\ ~f.then.ret => /\ RunsAre(f.then, OuterOwners \ f.then_deadset)
                                           /\ CRunsAre(f.then, Objs(OuterOwners \ f.then_deadset))
  <2>1. AliveAt(m) = OuterOwners \ f.entry_deadset /\ AliveThen(m) = OuterOwners \ f.then_deadset
    BY <1>1 DEF AliveAt, AliveThen
  <2>2. ~f.entry.ret
    BY <1>1, <1>2 DEF Inv, FramesOK
  <2> QED BY <1>1, <1>2, <2>1, <2>2 DEF Inv, AliveOK, FramesAliveOK, CAliveOK, FramesCAliveOK
<1>4. /\ Follows(pt, deadset, m) /\ Untouched(pt) /\ Untouched(f.entry)
      /\ f.kind = "else" => Follows(f.then, f.then_deadset, m) /\ Untouched(f.then)
  BY <1>1, <1>2 DEF Inv, LiveOK
<1>5. f.kind = "else" => f.entry_deadset \subseteq f.then_deadset /\ f.then_deadset \subseteq 1 .. nvals
  BY <1>1, <1>2 DEF Inv, FramesOK
<1>6. /\ \A v \in OuterOwners :
           pt.live[v] = IF v \in deadset \ f.entry_deadset THEN "dead" ELSE f.entry.live[v]
      /\ f.kind = "else" =>
           \A v \in OuterOwners :
             f.then.live[v] = IF v \in f.then_deadset \ f.entry_deadset THEN "dead" ELSE f.entry.live[v]
  BY <1>1, <1>4 DEF Follows
<1>7. /\ \A v \in Values : v > nvals => pt.live[v] = "none" /\ f.entry.live[v] = "none"
      /\ f.kind = "else" => \A v \in Values : v > nvals => f.then.live[v] = "none"
  BY <1>4 DEF Untouched
<1> QED BY <1>b, <1>1, <1>3, <1>5, <1>6, <1>7

LEMMA ElseEndThenReturnedInv ==
  ASSUME Inv, result' = result, ElseEndThenReturned
  PROVE  Inv'
<1>a. PICK m : m = Len(frames)
  OBVIOUS
<1>b. PICK f : f = Last(frames)
  OBVIOUS
<1> DEFINE S == Top.owners \ deadset
<1>1. /\ status = "building" /\ frames # << >> /\ f.kind = "else"
      /\ scopes' = Front(scopes) /\ frames' = Front(frames)
      /\ nvals' = nvals /\ obj' = obj /\ deadset' = deadset /\ stmts' = stmts /\ status' = status
  BY <1>b DEF ElseEndThenReturned, InBranch
<1>2. pt' = Behind(Left(S), f.then) /\ ghost' = LeftGhost(S)
  BY <1>b, <1>1, BranchDropsFacts DEF ElseEndThenReturned
<1>3. /\ Left(S) \in Points /\ Left(S).live = pt.live /\ Left(S).ret = pt.ret
      /\ ~pt.ret => RunsAre(Left(S), OuterOwners \ deadset) /\ CRunsAre(Left(S), Objs(OuterOwners \ deadset))
      /\ pt.ret => Left(S).cruns = {}
      /\ ghost' \in Ghosts /\ ghost'.doubled = ghost.doubled /\ ghost'.leaked = ghost.leaked
      /\ ghost'.lost = ghost.lost /\ ghost'.misused = ghost.misused
      /\ ghost'.cdoubled \cup ghost'.cleaked \subseteq ghost.lost
  BY <1>1, <1>2, LeaveFacts
<1> HIDE DEF S
<1>4. /\ m \in Nat \ {0} /\ scopes \in Seq(Scopes) /\ scopes[m] \in Scopes /\ Len(scopes) = m + 1
      /\ f.entry_deadset \subseteq deadset /\ deadset \subseteq 1 .. nvals
  BY <1>a, <1>b, <1>1, InFrame
<1>5. /\ \A v \in OuterOwners :
           pt.live[v] = IF v \in deadset \ f.entry_deadset THEN "dead" ELSE f.entry.live[v]
      /\ \A v \in Values : v > nvals => pt.live[v] = "none"
  BY <1>b, <1>1, LiveAtBranchEnd
<1>6. scopes' = [Front(scopes) EXCEPT ![m] = scopes[m]]
  <2>1. PICK n \in Nat \ {0} : n = m + 1 /\ n - 1 = m
    BY <1>4
  <2>2. /\ Front(scopes) \in Seq(Scopes) /\ DOMAIN Front(scopes) = 1 .. n - 1
        /\ \A i \in 1 .. n - 1 : Front(scopes)[i] = scopes[i]
    BY <1>4, <2>1, FrontFacts
  <2>3. m \in 1 .. n - 1
    BY <1>4, <2>1
  <2> QED BY <1>1, <2>2, <2>3
<1>7. {} \in SUBSET Values /\ Objs({}) = {} /\ scopes[m].owners = scopes[m].owners \ {}
      /\ ToSet(scopes[m].drops) \subseteq ToSet(scopes[m].drops) \cup Objs({})
      /\ ghost.lost = ghost.lost \cup Objs({})
  BY DEF Objs
<1>13. /\ pt' \in Points /\ pt'.runs = Left(S).runs /\ pt'.cruns = Left(S).cruns
       /\ pt'.ret = Left(S).ret /\ pt'.live = Left(S).live
  <2>1. f.then \in Points
    BY <1>b, <1>1, LiveAtBranchEnd DEF Frames
  <2> QED BY <1>2, <1>3, <2>1, BehindFacts
<1>8. ~pt'.ret => /\ RunsAre(pt', OuterOwners \ deadset')
                  /\ \A r \in pt'.cruns : r \ ghost'.lost = Objs(OuterOwners \ deadset') \ ghost'.lost
  BY <1>1, <1>13, <1>3 DEF CRunsAre, RunsAre
<1>9. \A v \in OuterOwners \ ({} \cap scopes[m].owners) :
        pt'.live[v] = IF v \in deadset' \ Last(frames).entry_deadset
                      THEN "dead" ELSE Last(frames).entry.live[v]
  BY <1>b, <1>1, <1>13, <1>3, <1>5
<1>10. Last(frames).kind # "block" /\ {} \subseteq deadset' /\ Last(frames).entry_deadset \subseteq deadset'
       /\ deadset' \subseteq 1 .. nvals
  BY <1>b, <1>1, <1>4
<1>11. /\ pt' \in Points /\ (pt'.ret => pt'.cruns = {})
       /\ ghost'.lost = ghost.lost \cup Objs({}) /\ ghost'.cdoubled \cup ghost'.cleaked \subseteq ghost'.lost
       /\ \A v \in Values : v > nvals => pt'.live[v] = "none"
  BY <1>13, <1>3, <1>5, <1>7
<1>12. BranchEnds({}, scopes[m])
  BY <1>a, <1>1, <1>3, <1>4, <1>6, <1>7, <1>8, <1>9, <1>10, <1>11 DEF BranchEnds
<1> QED BY <1>12, BranchEndInv

\* At p the owners in A, and no others, have what is alive.
At(p, A) ==
  p \in Points /\ A \in SUBSET Values /\ Injective(A) /\ RunsAre(p, A) /\ CRunsAre(p, Objs(A))

\* The owners in L of A are lost there, in the scope sc, with the objects in more.
Loses(p, sc, A, L, more) ==
  At(p, A) /\ sc \in Scopes /\ L \in SUBSET A /\ ghost.lost \cup Objs(L) \subseteq more

\* The end of a block where the owners in L of those in A are lost.
\* After it no run drops one of them twice, and those in A and not in L have what is alive.
LostAt(p, sc, A, L, more) ==
  /\ DropDoubled(p, L) = {} /\ RunsAre(LostPoint(p, sc, L), A \ L)
  /\ \A r \in LostPoint(p, sc, L).cruns : r \ more = Objs(A \ L) \ more

LEMMA LostEnd ==
  ASSUME NEW p, NEW sc, NEW A, NEW L, NEW more, Loses(p, sc, A, L, more)
  PROVE  LostAt(p, sc, A, L, more)
<1>1. DropDoubled(p, L) = {} /\ RunsAre(drop(p, L), A \ L)
  BY DropExact DEF Loses, At
<1>2. LostPoint(p, sc, L).runs = drop(p, L).runs /\ LostPoint(p, sc, L).cruns = p.cruns
  <2>1. p \in Points /\ L \in SUBSET Values
    BY DEF Loses, At
  <2> QED BY <2>1, LostPointFacts
<1>3. Objs(A) = Objs(A \ L) \cup Objs(L)
  BY DEF Loses, Objs
<1>4. \A r \in p.cruns : r \ ghost.lost = Objs(A) \ ghost.lost
  BY DEF Loses, At, CRunsAre
<1>5. \A r \in p.cruns : r \ more = Objs(A \ L) \ more
  BY <1>3, <1>4 DEF Loses
<1> QED BY <1>1, <1>2, <1>5 DEF RunsAre, LostAt

\* The scope around an "if", when one branch or the other lost L.
LEMMA OuterLost ==
  ASSUME Inv, NEW m \in Nat \ {0}, Len(scopes) = m + 1
  PROVE  Front(scopes)[m] = scopes[m] /\ m \in DOMAIN Front(scopes)
<1>1. scopes \in Seq(Scopes)
  BY DEF Inv, TypeOK
<1>2. PICK n \in Nat \ {0} : n = m + 1 /\ n - 1 = m /\ m \in 1 .. n - 1
  OBVIOUS
<1>3. DOMAIN Front(scopes) = 1 .. n - 1 /\ \A i \in 1 .. n - 1 : Front(scopes)[i] = scopes[i]
  BY <1>1, <1>2, FrontFacts
<1> QED BY <1>2, <1>3

LEMMA IfEndInv ==
  ASSUME Inv, result' = result, IfEnd
  PROVE  Inv'
<1>a. PICK m : m = Len(frames)
  OBVIOUS
<1>b. PICK f : f = Last(frames)
  OBVIOUS
<1> DEFINE S == Top.owners \ deadset
           O == OuterOwners \ deadset
           A == OuterOwners \ f.entry_deadset
           sc == scopes[m]
<1>1. /\ status = "building" /\ frames # << >> /\ f.kind = "then" /\ frames' = Front(frames)
      /\ nvals' = nvals /\ obj' = obj /\ stmts' = stmts /\ status' = status
  BY <1>b DEF IfEnd, InBranch
<1>2. /\ m \in Nat \ {0} /\ scopes[m] \in Scopes /\ Len(scopes) = m + 1 /\ Len(scopes) - 1 = m
      /\ f.entry_deadset \subseteq deadset /\ deadset \subseteq 1 .. nvals /\ OuterOwners \subseteq Values
  BY <1>a, <1>b, <1>1, InFrame
<1>3. BranchDrops = S
  BY <1>1, BranchDropsFacts
<1>4. PICK L : L = IF pt.ret THEN {} ELSE {v \in OuterOwners : v \notin f.entry_deadset /\ v \in deadset}
  OBVIOUS
<1>5. PICK g : g = LeftGhost(S)
  OBVIOUS
<1>6. /\ Left(S) \in Points /\ Left(S).live = pt.live /\ Left(S).ret = pt.ret
      /\ ~pt.ret => RunsAre(Left(S), O) /\ CRunsAre(Left(S), Objs(O))
      /\ g \in Ghosts /\ g.doubled = ghost.doubled /\ g.leaked = ghost.leaked
      /\ g.lost = ghost.lost /\ g.misused = ghost.misused
      /\ g.cdoubled \cup g.cleaked \subseteq ghost.lost
  BY <1>1, <1>5, LeaveFacts
<1>7. /\ deadset' = IF pt.ret THEN f.entry_deadset ELSE deadset
      /\ pt' = IF pt.ret THEN Behind(f.entry, Left(S)) ELSE Join(LostPoint(f.entry, sc, L), Left(S))
      /\ scopes' = [Front(scopes) EXCEPT ![m] = LostScope(@, L)]
      /\ ghost' = LostGhost(g, f.entry, L)
  BY <1>b, <1>2, <1>3, <1>4, <1>5, <1>6 DEF IfEnd, UndoneDeadset, owners_find_lost
<1> HIDE DEF S
<1>8. scopes' = [Front(scopes) EXCEPT ![m] = LostScope(sc, L)]
  BY <1>2, <1>7, OuterLost
<1>9. /\ f \in Frames /\ RunsAre(f.entry, A) /\ CRunsAre(f.entry, Objs(A)) /\ ~f.entry.ret
      /\ Injective(A)
      /\ \A v \in OuterOwners :
           pt.live[v] = IF v \in deadset \ f.entry_deadset THEN "dead" ELSE f.entry.live[v]
      /\ \A v \in Values : v > nvals => pt.live[v] = "none" /\ f.entry.live[v] = "none"
  BY <1>b, <1>1, LiveAtBranchEnd
<1>10. f.entry \in Points /\ A \in SUBSET Values
  BY <1>2, <1>9 DEF Frames
<1>11. L \in SUBSET A /\ L \in SUBSET Values /\ L \subseteq deadset' /\ deadset' \subseteq 1 .. nvals
       /\ f.entry_deadset \subseteq deadset' /\ A \ L = OuterOwners \ deadset'
  <2>1. CASE pt.ret
    BY <2>1, <1>2, <1>4, <1>7
  <2>2. CASE ~pt.ret
    BY <2>2, <1>2, <1>4, <1>7
  <2> QED BY <2>1, <2>2
<1> HIDE DEF A
<1>12. /\ DropDoubled(f.entry, L) = {} /\ RunsAre(LostPoint(f.entry, sc, L), A \ L)
       /\ \A r \in LostPoint(f.entry, sc, L).cruns :
            r \ (ghost.lost \cup Objs(L)) = Objs(A \ L) \ (ghost.lost \cup Objs(L))
  <2>1. PICK more : more = ghost.lost \cup Objs(L)
    OBVIOUS
  <2>2. Loses(f.entry, sc, A, L, more)
    BY <1>2, <1>9, <1>10, <1>11, <2>1 DEF Loses, At
  <2>4. LostAt(f.entry, sc, A, L, more)
    BY <2>2, LostEnd
  <2>3. /\ DropDoubled(f.entry, L) = {} /\ RunsAre(LostPoint(f.entry, sc, L), A \ L)
        /\ \A r \in LostPoint(f.entry, sc, L).cruns : r \ more = Objs(A \ L) \ more
    BY <2>4 DEF LostAt
  <2> QED BY <2>1, <2>3
<1>13. /\ ghost' \in Ghosts /\ ghost'.doubled = ghost.doubled /\ ghost'.leaked = ghost.leaked
       /\ ghost'.misused = ghost.misused /\ ghost'.lost = ghost.lost \cup Objs(L)
       /\ ghost'.cdoubled \cup ghost'.cleaked \subseteq ghost'.lost
  <2>1. LET h == LostGhost(g, f.entry, L)
        IN  /\ h \in Ghosts /\ h.doubled = g.doubled /\ h.leaked = g.leaked
            /\ h.cdoubled = g.cdoubled /\ h.cleaked = g.cleaked
            /\ h.misused = g.misused /\ h.lost = g.lost \cup Objs(L)
    BY <1>6, <1>10, <1>11, <1>12, LostGhostFacts DEF Inv
  <2> QED BY <1>6, <1>7, <2>1
<1>14. /\ LostScope(sc, L) \in Scopes /\ LostScope(sc, L).vars = sc.vars
       /\ LostScope(sc, L).owners = sc.owners \ L
       /\ ToSet(LostScope(sc, L).drops) \subseteq ToSet(sc.drops) \cup Objs(L)
  BY <1>2, <1>11, LostScopeFacts DEF Inv
<1>15. /\ pt' \in Points /\ ~pt'.ret /\ RunsAre(pt', A \ L)
       /\ \A r \in pt'.cruns : r \ ghost'.lost = Objs(A \ L) \ ghost'.lost
       /\ \A v \in Values : v > nvals => pt'.live[v] = "none"
       /\ \A v \in OuterOwners \ (L \cap sc.owners) :
            pt'.live[v] = IF v \in deadset' \ f.entry_deadset THEN "dead" ELSE f.entry.live[v]
  <2>1. CASE pt.ret
    <3>1. pt' = Behind(f.entry, Left(S)) /\ L = {} /\ deadset' = f.entry_deadset /\ A \ L = A
      BY <1>4, <1>7, <2>1
    <3>4. /\ pt' \in Points /\ pt'.runs = f.entry.runs /\ pt'.cruns = f.entry.cruns
          /\ pt'.ret = f.entry.ret /\ pt'.live = f.entry.live
      BY <1>6, <1>10, <3>1, BehindFacts
    <3>2. \A r \in pt'.cruns : r \ ghost.lost = Objs(A \ L) \ ghost.lost
      BY <1>9, <3>1, <3>4 DEF CRunsAre
    <3>3. \A r \in pt'.cruns : r \ ghost'.lost = Objs(A \ L) \ ghost'.lost
      BY <1>13, <3>2
    <3>5. RunsAre(pt', A \ L)
      BY <1>9, <3>1, <3>4 DEF RunsAre
    <3> QED BY <1>9, <1>10, <3>1, <3>3, <3>4, <3>5
  <2>2. CASE ~pt.ret
    <3> DEFINE P == LostPoint(f.entry, sc, L)
               Q == Left(S)
    <3>0. pt' = Join(P, Q) /\ deadset' = deadset /\ L = {v \in OuterOwners : v \notin f.entry_deadset /\ v \in deadset}
      BY <1>4, <1>7, <2>2
    <3>1. /\ P \in Points
          /\ \A v \in Values : P.live[v] = IF v \in L \ sc.owners THEN "dead" ELSE f.entry.live[v]
      BY <1>10, LostPointFacts
    <3> HIDE DEF P, Q
    <3>2. /\ pt' \in Points /\ pt'.runs = P.runs \cup Q.runs /\ pt'.cruns = P.cruns \cup Q.cruns /\ ~pt'.ret
          /\ \A v \in Values : pt'.live[v] = IF P.live[v] = Q.live[v] THEN P.live[v] ELSE "phi"
      BY <1>6, <3>0, <3>1, JoinFacts DEF Q
    <3>3. RunsAre(Q, A \ L) /\ CRunsAre(Q, Objs(A \ L)) /\ Q.live = pt.live
      BY <1>6, <1>11, <2>2, <3>0 DEF Q
    <3>4. RunsAre(pt', A \ L)
      BY <1>12, <3>2, <3>3 DEF RunsAre, P
    <3>5. \A r \in pt'.cruns : r \ ghost'.lost = Objs(A \ L) \ ghost'.lost
      <4>1. \A r \in P.cruns : r \ ghost'.lost = Objs(A \ L) \ ghost'.lost
        BY <1>12, <1>13 DEF P
      <4>2. \A r \in Q.cruns : r \ ghost.lost = Objs(A \ L) \ ghost.lost
        BY <3>3 DEF CRunsAre
      <4>3. \A r \in Q.cruns : r \ ghost'.lost = Objs(A \ L) \ ghost'.lost
        BY <1>13, <4>2
      <4> QED BY <3>2, <4>1, <4>3
    <3>6. \A v \in Values : v > nvals => pt'.live[v] = "none"
      <4>1. \A v \in Values : v > nvals => v \notin L
        BY <1>2, <3>0 DEF Inv, TypeOK
      <4> QED BY <1>9, <3>1, <3>2, <3>3, <4>1
    <3>7. \A v \in OuterOwners \ (L \cap sc.owners) :
            pt'.live[v] = IF v \in deadset' \ f.entry_deadset THEN "dead" ELSE f.entry.live[v]
      <4> TAKE v \in OuterOwners \ (L \cap sc.owners)
      <4>1. v \in Values /\ (v \in L <=> v \in deadset \ f.entry_deadset)
        BY <1>2, <3>0
      <4>2. Q.live[v] = IF v \in L THEN "dead" ELSE f.entry.live[v]
        BY <1>9, <3>3, <4>1
      <4>3. P.live[v] = IF v \in L THEN "dead" ELSE f.entry.live[v]
        BY <3>1, <4>1
      <4>4. pt'.live[v] = IF v \in L THEN "dead" ELSE f.entry.live[v]
        BY <3>2, <4>1, <4>2, <4>3
      <4> QED BY <3>0, <4>1, <4>4
    <3> QED BY <3>2, <3>4, <3>5, <3>6, <3>7
  <2> QED BY <2>1, <2>2
<1>16. BranchEnds(L, LostScope(sc, L))
  BY <1>a, <1>b, <1>1, <1>8, <1>11, <1>13, <1>14, <1>15 DEF BranchEnds
<1> QED BY <1>16, BranchEndInv

LEMMA ElseEndInv ==
  ASSUME Inv, result' = result, ElseEnd
  PROVE  Inv'
<1>a. PICK m : m = Len(frames)
  OBVIOUS
<1>b. PICK f : f = Last(frames)
  OBVIOUS
<1> DEFINE S == Top.owners \ deadset
           O == OuterOwners \ deadset
           T == OuterOwners \ f.then_deadset
           sc == scopes[m]
<1>1. /\ status = "building" /\ frames # << >> /\ f.kind = "else" /\ ~f.then.ret
      /\ frames' = Front(frames)
      /\ nvals' = nvals /\ obj' = obj /\ stmts' = stmts /\ status' = status
  BY <1>b DEF ElseEnd, InBranch
<1>2. /\ m \in Nat \ {0} /\ scopes[m] \in Scopes /\ Len(scopes) = m + 1 /\ Len(scopes) - 1 = m
      /\ f.entry_deadset \subseteq deadset /\ deadset \subseteq 1 .. nvals /\ OuterOwners \subseteq Values
  BY <1>a, <1>b, <1>1, InFrame
<1>3. BranchDrops = S
  BY <1>1, BranchDropsFacts
<1>4. PICK L1 : L1 = {v \in OuterOwners : v \notin deadset /\ v \in f.then_deadset}
  OBVIOUS
<1>5. PICK L2 : L2 = IF pt.ret THEN {}
                     ELSE {v \in OuterOwners \ L1 : v \notin f.then_deadset /\ v \in deadset}
  OBVIOUS
<1>6. PICK g : g = LeftGhost(S)
  OBVIOUS
<1>7. /\ Left(S) \in Points /\ Left(S).live = pt.live /\ Left(S).ret = pt.ret
      /\ ~pt.ret => RunsAre(Left(S), O) /\ CRunsAre(Left(S), Objs(O))
      /\ g \in Ghosts /\ g.doubled = ghost.doubled /\ g.leaked = ghost.leaked
      /\ g.lost = ghost.lost /\ g.misused = ghost.misused
      /\ g.cdoubled \cup g.cleaked \subseteq ghost.lost
  BY <1>1, <1>6, LeaveFacts
<1>8. PICK P, Q : P = LostPoint(Left(S), sc, L1) /\ Q = LostPoint(f.then, sc, L2)
  OBVIOUS
<1>9. /\ deadset' = IF pt.ret THEN f.then_deadset ELSE deadset \cup f.then_deadset
      /\ pt' = IF pt.ret THEN Behind(Q, Left(S)) ELSE Join(P, Q)
      /\ scopes' = [Front(scopes) EXCEPT ![m] = LostScope(LostScope(@, L1), L2)]
      /\ ghost' = LostGhost(LostGhost(g, Left(S), L1), f.then, L2)
  BY <1>b, <1>2, <1>3, <1>4, <1>5, <1>6, <1>7, <1>8 DEF ElseEnd, UndoneDeadset, owners_find_lost
<1>10. scopes' = [Front(scopes) EXCEPT ![m] = LostScope(LostScope(sc, L1), L2)]
  BY <1>2, <1>9, OuterLost
<1>11. /\ f \in Frames /\ RunsAre(f.then, T) /\ CRunsAre(f.then, Objs(T))
       /\ f.entry_deadset \subseteq f.then_deadset /\ f.then_deadset \subseteq 1 .. nvals
       /\ Injective(OuterOwners \ f.entry_deadset)
       /\ \A v \in OuterOwners :
            /\ pt.live[v] = IF v \in deadset \ f.entry_deadset THEN "dead" ELSE f.entry.live[v]
            /\ f.then.live[v] = IF v \in f.then_deadset \ f.entry_deadset THEN "dead" ELSE f.entry.live[v]
       /\ \A v \in Values : v > nvals => pt.live[v] = "none" /\ f.then.live[v] = "none"
  BY <1>b, <1>1, LiveAtBranchEnd
<1>12. /\ f.then \in Points /\ O \in SUBSET Values /\ T \in SUBSET Values
       /\ Injective(O) /\ Injective(T)
  BY <1>2, <1>11 DEF Frames, Injective
<1>13. PICK B : B = OuterOwners \ deadset'
  OBVIOUS
<1>14. /\ L1 \in SUBSET O /\ L2 \in SUBSET T /\ T \ L2 = B /\ (~pt.ret => O \ L1 = B)
       /\ L1 \in SUBSET Values /\ L2 \in SUBSET Values
       /\ L1 \cup L2 \subseteq deadset' /\ deadset' \subseteq 1 .. nvals
       /\ f.entry_deadset \subseteq deadset'
  <2>1. CASE pt.ret
    BY <2>1, <1>2, <1>4, <1>5, <1>9, <1>11, <1>13
  <2>2. CASE ~pt.ret
    BY <2>2, <1>2, <1>4, <1>5, <1>9, <1>11, <1>13
  <2> QED BY <2>1, <2>2
<1> HIDE DEF S, O, T
<1>15. PICK more : more = (ghost.lost \cup Objs(L1)) \cup Objs(L2)
  OBVIOUS
<1>16. /\ DropDoubled(f.then, L2) = {} /\ RunsAre(Q, B)
       /\ \A r \in Q.cruns : r \ more = Objs(B) \ more
  <2>1. Loses(f.then, sc, T, L2, more)
    BY <1>2, <1>11, <1>12, <1>14, <1>15 DEF Loses, At
  <2>4. LostAt(f.then, sc, T, L2, more)
    BY <2>1, LostEnd
  <2>2. /\ DropDoubled(f.then, L2) = {} /\ RunsAre(LostPoint(f.then, sc, L2), T \ L2)
        /\ \A r \in LostPoint(f.then, sc, L2).cruns : r \ more = Objs(T \ L2) \ more
    BY <2>4 DEF LostAt
  <2> QED BY <1>8, <1>14, <2>2
<1>17. ~pt.ret => /\ DropDoubled(Left(S), L1) = {} /\ RunsAre(P, B)
                  /\ \A r \in P.cruns : r \ more = Objs(B) \ more
  <2> SUFFICES ASSUME ~pt.ret
               PROVE  /\ DropDoubled(Left(S), L1) = {} /\ RunsAre(P, B)
                      /\ \A r \in P.cruns : r \ more = Objs(B) \ more
    OBVIOUS
  <2>1. Loses(Left(S), sc, O, L1, more)
    BY <1>2, <1>7, <1>12, <1>14, <1>15 DEF Loses, At
  <2>4. LostAt(Left(S), sc, O, L1, more)
    BY <2>1, LostEnd
  <2>2. /\ DropDoubled(Left(S), L1) = {} /\ RunsAre(LostPoint(Left(S), sc, L1), O \ L1)
        /\ \A r \in LostPoint(Left(S), sc, L1).cruns : r \ more = Objs(O \ L1) \ more
    BY <2>4 DEF LostAt
  <2> QED BY <1>8, <1>14, <2>2
<1>18. /\ ghost' \in Ghosts /\ ghost'.doubled = ghost.doubled /\ ghost'.leaked = ghost.leaked
       /\ ghost'.misused = ghost.misused /\ ghost'.lost = more
       /\ ghost'.cdoubled \cup ghost'.cleaked \subseteq ghost'.lost
  <2> DEFINE h == LostGhost(g, Left(S), L1)
             k == LostGhost(h, f.then, L2)
  <2>1. /\ h \in Ghosts /\ h.doubled = g.doubled /\ h.leaked = g.leaked
        /\ h.cdoubled = g.cdoubled /\ h.cleaked = g.cleaked
        /\ h.misused = g.misused /\ h.lost = g.lost \cup Objs(L1)
    <3>1. Left(S).ret \/ DropDoubled(Left(S), L1) = {}
      BY <1>7, <1>17
    <3>2. TypeOK /\ g \in Ghosts /\ Left(S) \in Points /\ L1 \in SUBSET Values
      BY <1>7, <1>14 DEF Inv
    <3> QED BY <3>1, <3>2, LostGhostFacts
  <2> HIDE DEF h
  <2>2. /\ k \in Ghosts /\ k.doubled = h.doubled /\ k.leaked = h.leaked
        /\ k.cdoubled = h.cdoubled /\ k.cleaked = h.cleaked
        /\ k.misused = h.misused /\ k.lost = h.lost \cup Objs(L2)
    BY <1>12, <1>14, <1>16, <2>1, LostGhostFacts DEF Inv
  <2>3. ghost' = k
    BY <1>9 DEF h
  <2> HIDE DEF k
  <2> QED BY <1>7, <1>15, <2>1, <2>2, <2>3
<1>19. PICK s1 : s1 = LostScope(sc, L1)
  OBVIOUS
<1>20. PICK s2 : s2 = LostScope(s1, L2)
  OBVIOUS
<1>21. /\ s2 \in Scopes /\ s2.vars = sc.vars /\ s2.owners = sc.owners \ (L1 \cup L2)
       /\ ToSet(s2.drops) \subseteq ToSet(sc.drops) \cup Objs(L1 \cup L2)
       /\ ghost'.lost = ghost.lost \cup Objs(L1 \cup L2)
       /\ scopes' = [Front(scopes) EXCEPT ![m] = s2]
  <2>1. /\ s1 \in Scopes /\ s1.vars = sc.vars /\ s1.owners = sc.owners \ L1
        /\ ToSet(s1.drops) = ToSet(sc.drops) \cup Objs(L1)
    BY <1>2, <1>14, <1>19, LostScopeFacts DEF Inv
  <2>2. /\ s2 \in Scopes /\ s2.vars = s1.vars /\ s2.owners = s1.owners \ L2
        /\ ToSet(s2.drops) = ToSet(s1.drops) \cup Objs(L2)
    BY <1>14, <1>20, <2>1, LostScopeFacts DEF Inv
  <2>3. Objs(L1 \cup L2) = Objs(L1) \cup Objs(L2)
    BY DEF Objs
  <2>4. scopes' = [Front(scopes) EXCEPT ![m] = s2]
    BY <1>10, <1>19, <1>20
  <2> QED BY <1>15, <1>18, <2>1, <2>2, <2>3, <2>4
<1>22. /\ Q \in Points /\ Q.ret = f.then.ret
       /\ \A v \in Values : Q.live[v] = IF v \in L2 \ sc.owners THEN "dead" ELSE f.then.live[v]
  BY <1>8, <1>12, LostPointFacts
<1>23. /\ P \in Points
       /\ \A v \in Values : P.live[v] = IF v \in L1 \ sc.owners THEN "dead" ELSE pt.live[v]
  <2>1. /\ P \in Points
        /\ \A v \in Values : P.live[v] = IF v \in L1 \ sc.owners THEN "dead" ELSE Left(S).live[v]
    BY <1>7, <1>8, LostPointFacts
  <2> QED BY <1>7, <2>1
<1>24. \A v \in Values : v > nvals => v \notin L1 /\ v \notin L2
  BY <1>2, <1>4, <1>5, <1>11, <1>14 DEF Inv, TypeOK
<1>25. /\ pt' \in Points /\ ~pt'.ret /\ RunsAre(pt', B)
       /\ \A r \in pt'.cruns : r \ more = Objs(B) \ more
       /\ \A v \in Values : v > nvals => pt'.live[v] = "none"
       /\ \A v \in OuterOwners \ ((L1 \cup L2) \cap sc.owners) :
            pt'.live[v] = IF v \in deadset' \ f.entry_deadset THEN "dead" ELSE f.entry.live[v]
  <2>1. CASE pt.ret
    <3>1. pt' = Behind(Q, Left(S)) /\ L2 = {} /\ deadset' = f.then_deadset
      BY <1>5, <1>9, <2>1
    <3>5. /\ pt' \in Points /\ pt'.runs = Q.runs /\ pt'.cruns = Q.cruns
          /\ pt'.ret = Q.ret /\ pt'.live = Q.live
      BY <1>7, <1>22, <3>1, BehindFacts
    <3>2. \A v \in Values : pt'.live[v] = f.then.live[v]
      BY <1>22, <3>1, <3>5
    <3>6. RunsAre(pt', B) /\ \A r \in pt'.cruns : r \ more = Objs(B) \ more
      BY <1>16, <3>5 DEF RunsAre
    <3>3. \A v \in OuterOwners : pt'.live[v] = IF v \in deadset' \ f.entry_deadset THEN "dead" ELSE f.entry.live[v]
      BY <1>2, <1>11, <3>1, <3>2
    <3>4. \A v \in Values : v > nvals => pt'.live[v] = "none"
      BY <1>11, <3>1, <3>2
    <3> QED BY <1>1, <1>22, <3>3, <3>4, <3>5, <3>6
  <2>2. CASE ~pt.ret
    <3>1. /\ pt' = Join(P, Q) /\ deadset' = deadset \cup f.then_deadset
          /\ L2 = {v \in OuterOwners \ L1 : v \notin f.then_deadset /\ v \in deadset}
      BY <1>5, <1>9, <2>2
    <3>2. /\ pt' \in Points /\ pt'.runs = P.runs \cup Q.runs /\ pt'.cruns = P.cruns \cup Q.cruns /\ ~pt'.ret
          /\ \A v \in Values : pt'.live[v] = IF P.live[v] = Q.live[v] THEN P.live[v] ELSE "phi"
      BY <1>22, <1>23, <3>1, JoinFacts
    <3>3. RunsAre(pt', B) /\ \A r \in pt'.cruns : r \ more = Objs(B) \ more
      BY <1>16, <1>17, <2>2, <3>2 DEF RunsAre
    <3>4. \A v \in Values : v > nvals => pt'.live[v] = "none"
      BY <1>11, <1>22, <1>23, <1>24, <3>2
    <3>5. \A v \in OuterOwners \ ((L1 \cup L2) \cap sc.owners) :
            pt'.live[v] = IF v \in deadset' \ f.entry_deadset THEN "dead" ELSE f.entry.live[v]
      <4> TAKE v \in OuterOwners \ ((L1 \cup L2) \cap sc.owners)
      <4>1. /\ v \in Values /\ v \in OuterOwners
            /\ v \in L1 <=> v \notin deadset /\ v \in f.then_deadset
            /\ v \in L2 <=> v \notin f.then_deadset /\ v \in deadset
            /\ v \in f.entry_deadset => v \in deadset /\ v \in f.then_deadset
        BY <1>2, <1>4, <1>11, <3>1
      <4>2. /\ P.live[v] = IF v \in L1 THEN "dead" ELSE pt.live[v]
            /\ Q.live[v] = IF v \in L2 THEN "dead" ELSE f.then.live[v]
        BY <1>22, <1>23, <4>1
      <4>3. /\ pt.live[v] = IF v \in deadset \ f.entry_deadset THEN "dead" ELSE f.entry.live[v]
            /\ f.then.live[v] = IF v \in f.then_deadset \ f.entry_deadset THEN "dead" ELSE f.entry.live[v]
        BY <1>11, <4>1
      <4>4. P.live[v] = IF v \in deadset' \ f.entry_deadset THEN "dead" ELSE f.entry.live[v]
        BY <3>1, <4>1, <4>2, <4>3
      <4>5. Q.live[v] = IF v \in deadset' \ f.entry_deadset THEN "dead" ELSE f.entry.live[v]
        BY <3>1, <4>1, <4>2, <4>3
      <4> QED BY <3>2, <4>1, <4>4, <4>5
    <3> QED BY <3>2, <3>3, <3>4, <3>5
  <2> QED BY <2>1, <2>2
<1>26. BranchEnds(L1 \cup L2, s2)
  <2>1. L1 \cup L2 \in SUBSET Values /\ f.kind # "block"
    BY <1>1, <1>14
  <2> QED BY <2>1, <1>a, <1>b, <1>1, <1>13, <1>14, <1>18, <1>21, <1>25 DEF BranchEnds
<1> QED BY <1>26, BranchEndInv

LEMMA IfElseFacts ==
  ASSUME Inv, result' = result, IfElse, NEW m, m = Len(frames)
  PROVE  LET f == frames[m]
             S == Top.owners \ deadset
         IN  /\ TypeOK' /\ m \in Nat \ {0} /\ Len(scopes) = m + 1
             /\ DOMAIN scopes = 1 .. m + 1 /\ DOMAIN frames = 1 .. m
             /\ DOMAIN scopes' = 1 .. m + 1 /\ DOMAIN frames' = 1 .. m
             /\ Len(scopes') = m + 1 /\ Len(frames') = m
             /\ \A i \in 1 .. m : scopes'[i] = scopes[i]
             /\ \A i \in 1 .. m - 1 : frames'[i] = frames[i]
             /\ scopes'[m + 1] = NoScope
             /\ f.kind = "then" /\ frames'[m].kind = "else" /\ frames'[m].entry = f.entry
             /\ frames'[m].entry_deadset = f.entry_deadset
             /\ frames'[m].then = Left(S) /\ frames'[m].then_deadset = deadset
             /\ Left(S).live = pt.live /\ Left(S).ret = pt.ret
             /\ ~pt.ret => /\ RunsAre(Left(S), OuterOwners \ deadset)
                           /\ CRunsAre(Left(S), Objs(OuterOwners \ deadset))
             /\ pt' = f.entry /\ deadset' = f.entry_deadset
             /\ nvals' = nvals /\ obj' = obj /\ status' = status
             /\ ghost'.doubled = ghost.doubled /\ ghost'.leaked = ghost.leaked
             /\ ghost'.lost = ghost.lost /\ ghost'.misused = ghost.misused
             /\ ghost'.cdoubled \cup ghost'.cleaked \subseteq ghost.lost
<1> DEFINE S == Top.owners \ deadset
<1>b. PICK f : f = frames[m]
  OBVIOUS
<1>1. status = "building" /\ frames # << >>
  BY DEF IfElse, InBranch
<1>2. /\ m \in Nat \ {0} /\ Len(scopes) = m + 1 /\ DOMAIN scopes = 1 .. m + 1 /\ DOMAIN frames = 1 .. m
      /\ frames \in Seq(Frames) /\ scopes \in Seq(Scopes)
      /\ Last(frames) = f /\ f \in Frames /\ f.entry_deadset \subseteq deadset
      /\ deadset \subseteq 1 .. nvals
  BY <1>b, <1>1, InFrame
<1>3. BranchDrops = S
  BY <1>1, BranchDropsFacts
<1>4. /\ f.kind = "then" /\ stmts < MaxStmts /\ stmts' = stmts + 1
      /\ scopes' = Append(Front(scopes), NoScope)
      /\ frames' = [frames EXCEPT ![m] = [@ EXCEPT !.kind = "else", !.then = Left(S), !.then_deadset = deadset]]
      /\ deadset' = f.entry_deadset /\ pt' = f.entry /\ ghost' = LeftGhost(S)
      /\ nvals' = nvals /\ obj' = obj /\ status' = status
  BY <1>2, <1>3 DEF IfElse, InBranch
<1>5. /\ Left(S) \in Points /\ Left(S).live = pt.live /\ Left(S).ret = pt.ret
      /\ ~pt.ret => /\ RunsAre(Left(S), OuterOwners \ deadset)
                    /\ CRunsAre(Left(S), Objs(OuterOwners \ deadset))
      /\ ghost' \in Ghosts /\ ghost'.doubled = ghost.doubled /\ ghost'.leaked = ghost.leaked
      /\ ghost'.lost = ghost.lost /\ ghost'.misused = ghost.misused
      /\ ghost'.cdoubled \cup ghost'.cleaked \subseteq ghost.lost
  BY <1>1, <1>4, LeaveFacts
<1> HIDE DEF S
<1>6. /\ scopes' \in Seq(Scopes) /\ Len(scopes') = m + 1 /\ DOMAIN scopes' = 1 .. m + 1
      /\ \A i \in 1 .. m : scopes'[i] = scopes[i]
      /\ scopes'[m + 1] = NoScope
  <2>1. PICK n \in Nat \ {0} : n = m + 1 /\ n - 1 = m
    BY <1>2
  <2>2. /\ Front(scopes) \in Seq(Scopes) /\ Len(Front(scopes)) = m
        /\ \A i \in 1 .. m : Front(scopes)[i] = scopes[i]
    <3>1. /\ Front(scopes) \in Seq(Scopes) /\ Len(Front(scopes)) = n - 1
          /\ \A i \in 1 .. n - 1 : Front(scopes)[i] = scopes[i]
      <4>1. scopes \in Seq(Scopes) /\ Len(scopes) = n
        BY <1>2, <2>1
      <4> QED BY <4>1, FrontFacts
    <3> QED BY <3>1, <2>1
  <2>3. NoScope \in Scopes /\ m \in Nat
    BY <1>2, NoScopeFacts
  <2>4. LET R == Append(Front(scopes), NoScope)
        IN  /\ R \in Seq(Scopes) /\ Len(R) = m + 1 /\ DOMAIN R = 1 .. m + 1
            /\ \A i \in 1 .. m : R[i] = Front(scopes)[i]
            /\ R[m + 1] = NoScope
    BY <2>2, <2>3, AppendFacts
  <2> QED BY <1>4, <2>2, <2>4
<1>7. PICK e : e = [f EXCEPT !.kind = "else", !.then = Left(S), !.then_deadset = deadset]
  OBVIOUS
<1>8. /\ e \in Frames /\ e.kind = "else" /\ e.entry = f.entry /\ e.entry_deadset = f.entry_deadset
      /\ e.then = Left(S) /\ e.then_deadset = deadset
  <2>1. deadset \in SUBSET Values
    BY DEF Inv, TypeOK
  <2> QED BY <1>2, <1>5, <1>7, <2>1 DEF Frames
<1>9. /\ frames' \in Seq(Frames) /\ Len(frames') = m /\ DOMAIN frames' = 1 .. m
      /\ \A i \in 1 .. m - 1 : frames'[i] = frames[i]
      /\ frames'[m] = e
  <2>1. frames' = [frames EXCEPT ![m] = e]
    BY <1>b, <1>4, <1>7
  <2>2. m \in 1 .. m /\ \A i \in 1 .. m - 1 : i \in 1 .. m /\ i # m
    BY <1>2
  <2>3. Len(frames) = m
    OBVIOUS
  <2> QED BY <1>2, <1>8, <2>1, <2>2, <2>3
<1>10. TypeOK'
  <2>1. f.entry \in Points /\ f.entry_deadset \subseteq Values
    BY <1>2 DEF Frames
  <2> QED BY <1>4, <1>5, <1>6, <1>9, <2>1, OwnershipAssumptions DEF Inv, TypeOK
<1> QED BY <1>b, <1>2, <1>4, <1>5, <1>6, <1>8, <1>9, <1>10 DEF S

LEMMA IfElseInv ==
  ASSUME Inv, result' = result, IfElse
  PROVE  Inv'
<1>a. PICK m : m = Len(frames)
  OBVIOUS
<1>b. PICK S : S = Top.owners \ deadset
  OBVIOUS
<1>c. PICK f : f = frames[m]
  OBVIOUS
<1>1. /\ TypeOK' /\ m \in Nat \ {0} /\ Len(scopes) = m + 1
      /\ DOMAIN scopes = 1 .. m + 1 /\ DOMAIN frames = 1 .. m
      /\ DOMAIN scopes' = 1 .. m + 1 /\ DOMAIN frames' = 1 .. m
      /\ Len(scopes') = m + 1 /\ Len(frames') = m
      /\ \A i \in 1 .. m : scopes'[i] = scopes[i]
      /\ \A i \in 1 .. m - 1 : frames'[i] = frames[i]
      /\ scopes'[m + 1] = NoScope
      /\ f.kind = "then" /\ frames'[m].kind = "else" /\ frames'[m].entry = f.entry
      /\ frames'[m].entry_deadset = f.entry_deadset
      /\ frames'[m].then = Left(S) /\ frames'[m].then_deadset = deadset
      /\ Left(S).live = pt.live /\ Left(S).ret = pt.ret
      /\ ~pt.ret => /\ RunsAre(Left(S), OuterOwners \ deadset)
                    /\ CRunsAre(Left(S), Objs(OuterOwners \ deadset))
      /\ pt' = f.entry /\ deadset' = f.entry_deadset
      /\ nvals' = nvals /\ obj' = obj /\ status' = status
      /\ ghost'.doubled = ghost.doubled /\ ghost'.leaked = ghost.leaked
      /\ ghost'.lost = ghost.lost /\ ghost'.misused = ghost.misused
      /\ ghost'.cdoubled \cup ghost'.cleaked \subseteq ghost.lost
  BY <1>a, <1>b, <1>c, IfElseFacts
<1>2. /\ \A i \in 1 .. m + 1 : i = m + 1 \/ i \in 1 .. m
      /\ \A i \in 1 .. m : i \in 1 .. m + 1 /\ i <= m /\ (i = m \/ i \in 1 .. m - 1)
      /\ \A i \in 1 .. m - 1 : i \in 1 .. m /\ i < m
      /\ m \in 1 .. m /\ (m + 1) - 1 = m
  <2>1. m \in Nat \ {0}
    BY <1>1
  <2> QED BY <2>1
<1>3. \A i \in 1 .. m : /\ frames'[i].entry = frames[i].entry
                        /\ frames'[i].entry_deadset = frames[i].entry_deadset
                        /\ frames'[i].kind # "block" <=> frames[i].kind # "block"
  BY <1>c, <1>1, <1>2
<1>4. /\ Top' = NoScope
      /\ \A i \in 1 .. m : OwnersTo(i)' = OwnersTo(i)
      /\ OuterOwners = OwnersTo(m) /\ Owners' = OwnersTo(m) /\ Alive' = AliveAt(m)
  <2>1. ASSUME NEW i \in 1 .. m
        PROVE  OwnersTo(i)' = OwnersTo(i)
    <3>1. \A k \in 1 .. i : scopes'[k] = scopes[k]
      BY <1>1
    <3> QED BY <3>1 DEF OwnersTo
  <2>2. Owners' = OwnersTo(m)
    <3>1. \A v : v \in Owners' <=> \E k \in 1 .. m + 1 : v \in scopes'[k].owners
      BY <1>1 DEF Owners, OwnersTo
    <3>2. \A v : v \in OwnersTo(m) <=> \E k \in 1 .. m : v \in scopes[k].owners
      BY DEF OwnersTo
    <3>3. \A v : v \in Owners' <=> v \in OwnersTo(m)
      BY <1>1, <1>2, <3>1, <3>2, NoScopeFacts
    <3> QED BY <3>3
  <2>3. Top' = NoScope
    BY <1>1 DEF Top, Last
  <2>4. OuterOwners = OwnersTo(m)
    BY <1>1, <1>2 DEF OuterOwners
  <2>5. Alive' = AliveAt(m)
    BY <1>c, <1>1, <2>2 DEF Alive, AliveAt
  <2> QED BY <2>1, <2>2, <2>3, <2>4, <2>5
<1>5. ValuesOK'
  <2>1. f.entry_deadset \subseteq deadset
    BY <1>c, <1>1, <1>2 DEF Inv, FramesOK
  <2> QED BY <1>1, <2>1 DEF Inv, ValuesOK
<1>6. ScopesOK'
  <2>1. \A i \in 1 .. m : /\ scopes[i].owners \subseteq scopes[i].vars /\ scopes[i].vars \subseteq 1 .. nvals
                          /\ \A j \in 1 .. m : i # j => scopes[i].vars \cap scopes[j].vars = {}
    BY <1>1, <1>2 DEF Inv, ScopesOK
  <2>2. \A i \in 1 .. m + 1 :
          /\ scopes'[i].owners \subseteq scopes'[i].vars /\ scopes'[i].vars \subseteq 1 .. nvals'
          /\ \A j \in 1 .. m + 1 : i # j => scopes'[i].vars \cap scopes'[j].vars = {}
    <3> TAKE i \in 1 .. m + 1
    <3>1. CASE i = m + 1
      BY <1>1, <3>1, NoScopeFacts
    <3>2. CASE i \in 1 .. m
      <4>1. scopes'[i] = scopes[i]
        BY <1>1, <3>2
      <4>2. \A j \in 1 .. m + 1 : i # j => scopes[i].vars \cap scopes'[j].vars = {}
        <5> TAKE j \in 1 .. m + 1
        <5>1. CASE j = m + 1
          BY <1>1, <5>1, NoScopeFacts
        <5>2. CASE j \in 1 .. m
          <6>1. scopes'[j] = scopes[j]
            BY <1>1, <5>2
          <6> QED BY <2>1, <3>2, <5>2, <6>1
        <5> QED BY <1>2, <5>1, <5>2
      <4> QED BY <1>1, <2>1, <3>2, <4>1, <4>2
    <3> QED BY <1>2, <3>1, <3>2
  <2> QED BY <1>1, <1>4, <2>2, NoScopeFacts DEF ScopesOK
<1>7. FramesOK'
  <2> SUFFICES ASSUME NEW i \in 1 .. m
               PROVE  LET e == frames'[i] IN
                      /\ ~e.entry.ret
                      /\ e.entry_deadset \subseteq deadset'
                      /\ \A j \in 1 .. m + 1 :
                           IF j <= i THEN scopes'[j].vars \subseteq scopes'[j].owners \cup e.entry_deadset
                                     ELSE scopes'[j].vars \cap e.entry_deadset = {}
                      /\ e.kind = "else" => e.entry_deadset \subseteq e.then_deadset /\ e.then_deadset \subseteq 1 .. nvals'
                      /\ \A j \in 1 .. m : i < j => e.entry_deadset \subseteq frames'[j].entry_deadset
    BY <1>1 DEF FramesOK
  <2>1. LET e == frames[i] IN
        /\ ~e.entry.ret
        /\ e.entry_deadset \subseteq deadset
        /\ \A j \in 1 .. m :
             IF j <= i THEN scopes[j].vars \subseteq scopes[j].owners \cup e.entry_deadset
                       ELSE scopes[j].vars \cap e.entry_deadset = {}
        /\ e.kind = "else" => e.entry_deadset \subseteq e.then_deadset /\ e.then_deadset \subseteq 1 .. nvals
        /\ \A j \in 1 .. m : i < j => e.entry_deadset \subseteq frames[j].entry_deadset
    BY SMTT(30), <1>1, <1>2 DEF Inv, FramesOK
  <2>2. frames[i].entry_deadset \subseteq deadset'
    BY <1>c, <1>1, <1>2, <2>1
  <2>3. \A j \in 1 .. m + 1 :
          IF j <= i THEN scopes'[j].vars \subseteq scopes'[j].owners \cup frames[i].entry_deadset
                    ELSE scopes'[j].vars \cap frames[i].entry_deadset = {}
    <3> TAKE j \in 1 .. m + 1
    <3>1. CASE j = m + 1
      <4>1. ~(j <= i)
        BY <1>1, <3>1
      <4> QED BY <1>1, <3>1, <4>1, NoScopeFacts
    <3>2. CASE j \in 1 .. m
      BY <1>1, <2>1, <3>2
    <3> QED BY <1>2, <3>1, <3>2
  <2>4. frames'[i].kind = "else" => /\ frames[i].entry_deadset \subseteq frames'[i].then_deadset
                                    /\ frames'[i].then_deadset \subseteq 1 .. nvals'
    <3>1. CASE i = m
      BY <1>1, <2>1, <3>1 DEF Inv, ValuesOK
    <3>2. CASE i # m
      BY <1>1, <1>2, <2>1, <3>2
    <3> QED BY <3>1, <3>2
  <2>5. \A j \in 1 .. m : i < j => frames[i].entry_deadset \subseteq frames'[j].entry_deadset
    BY <1>3, <2>1
  <2> QED BY <1>3, <2>1, <2>2, <2>3, <2>4, <2>5
<1>8. ASSUME NEW i \in 1 .. m
      PROVE  /\ Injective(AliveAt(i)) /\ RunsAre(frames[i].entry, AliveAt(i))
             /\ CRunsAre(frames[i].entry, Objs(AliveAt(i)))
             /\ AliveAt(i)' = AliveAt(i)
             /\ Injective(AliveAt(i))' /\ RunsAre(frames[i].entry, AliveAt(i))'
             /\ CRunsAre(frames[i].entry, Objs(AliveAt(i)))'
  <2>1. /\ Injective(AliveAt(i)) /\ RunsAre(frames[i].entry, AliveAt(i))
        /\ CRunsAre(frames[i].entry, Objs(AliveAt(i)))
    BY <1>1 DEF Inv, AliveOK, FramesAliveOK, CAliveOK, FramesCAliveOK
  <2>2. AliveAt(i)' = AliveAt(i)
    BY <1>3, <1>4 DEF AliveAt
  <2>3. Injective(AliveAt(i))' /\ Objs(AliveAt(i))' = Objs(AliveAt(i))
    BY <1>1, <2>1, <2>2 DEF Injective, Objs
  <2> QED BY <1>1, <1>3, <2>1, <2>2, <2>3 DEF RunsAre, CRunsAre
<1>9. ASSUME NEW i \in 1 .. m, frames'[i].kind = "else", ~frames'[i].then.ret
      PROVE  RunsAre(frames[i].then, AliveThen(i))' /\ CRunsAre(frames[i].then, Objs(AliveThen(i)))'
  <2>1. CASE i = m
    <3>1. AliveThen(i)' = OuterOwners \ deadset
      BY <1>1, <1>4, <2>1 DEF AliveThen
    <3>2. Objs(AliveThen(i))' = Objs(OuterOwners \ deadset)
      BY <1>1, <3>1 DEF Objs
    <3>3. frames'[i].then = Left(S) /\ ~pt.ret
      BY <1>1, <1>9, <2>1
    <3> QED BY <1>1, <3>2, <3>3 DEF RunsAre, CRunsAre
  <2>2. CASE i # m
    <3>1. frames'[i] = frames[i]
      BY <1>1, <1>2, <2>2
    <3>2. RunsAre(frames[i].then, AliveThen(i)) /\ CRunsAre(frames[i].then, Objs(AliveThen(i)))
      BY <1>1, <1>9, <3>1 DEF Inv, AliveOK, FramesAliveOK, CAliveOK, FramesCAliveOK
    <3>3. Objs(AliveThen(i))' = Objs(AliveThen(i))
      BY <1>1, <1>4, <3>1 DEF Objs, AliveThen
    <3> QED BY <1>1, <3>1, <3>2, <3>3 DEF RunsAre, CRunsAre
  <2> QED BY <2>1, <2>2
<1>10. FramesAliveOK' /\ FramesCAliveOK'
  BY <1>1, <1>8, <1>9 DEF FramesAliveOK, FramesCAliveOK
<1>11. /\ Injective(Alive)' /\ RunsAre(pt, Alive)' /\ CRunsAre(pt, Objs(Alive))'
  <2>1. Injective(AliveAt(m)) /\ RunsAre(f.entry, AliveAt(m)) /\ CRunsAre(f.entry, Objs(AliveAt(m)))
    BY <1>c, <1>2, <1>8
  <2>2. Injective(Alive)' /\ Objs(Alive)' = Objs(AliveAt(m))
    BY <1>1, <1>4, <2>1 DEF Injective, Objs
  <2> QED BY <1>1, <2>1, <2>2 DEF RunsAre, CRunsAre
<1>12. AliveOK'
  BY <1>10, <1>11 DEF AliveOK
<1>13. CAliveOK'
  <2>1. \A i \in 1 .. m : Lost(scopes[i])'
    <3> TAKE i \in 1 .. m
    <3>1. Lost(scopes[i]) /\ scopes'[i] = scopes[i]
      BY <1>1, <1>2 DEF Inv, CAliveOK
    <3> QED BY <1>1, <3>1 DEF Lost
  <2>2. Lost(Top)'
    BY <1>4, NoScopeFacts DEF Lost
  <2>3. ~pt'.ret
    BY <1>1, <1>c, <1>2 DEF Inv, FramesOK
  <2>4. Len(scopes') - 1 = m
    BY <1>1, <1>2
  <2> QED BY <1>10, <1>11, <2>1, <2>2, <2>3, <2>4 DEF CAliveOK
<1>14. LiveOK'
  <2>0. ASSUME NEW i \in 1 .. m
        PROVE  /\ Untouched(frames[i].entry) /\ Decided(frames[i].entry, OwnersTo(i), frames[i].entry_deadset)
               /\ MadeInBranch(frames[i].entry, i)
               /\ frames[i].kind = "else" => Untouched(frames[i].then)
    BY <1>1 DEF Inv, LiveOK
  <2>1. ASSUME NEW i \in 1 .. m
        PROVE  MadeInBranch(frames[i].entry, i)'
    <3>1. \A j \in 1 .. i : j \in 1 .. m /\ \A k \in 1 .. j - 1 : k \in 1 .. m
      BY <1>1
    <3>2. MadeInBranch(frames[i].entry, i)
      BY <2>0
    <3> QED BY SMTT(30), <1>1, <1>3, <3>1, <3>2 DEF MadeInBranch
  <2>2. /\ Untouched(pt)' /\ Decided(pt, Owners, deadset)'
    BY <1>c, <1>1, <1>2, <1>4, <2>0 DEF Untouched, Decided
  <2>3. MadeInBranch(pt, Len(scopes))'
    <3>1. MadeInBranch(frames[m].entry, m)' /\ pt' = frames'[m].entry
      BY <1>1, <1>2, <2>1
    <3> QED BY <1>1, <1>2, <3>1, NoScopeFacts DEF MadeInBranch
  <2>4. ASSUME NEW i \in 1 .. m
        PROVE  /\ Untouched(frames[i].entry)' /\ Decided(frames[i].entry, OwnersTo(i), frames[i].entry_deadset)'
               /\ (frames[i].kind = "else" => Untouched(frames[i].then))'
    <3>1. Untouched(frames[i].entry)' /\ Decided(frames[i].entry, OwnersTo(i), frames[i].entry_deadset)'
      BY <1>1, <1>3, <1>4, <2>0 DEF Untouched, Decided
    <3>2. CASE i = m
      <4>1. Untouched(pt) /\ frames'[i].then.live = pt.live
        BY <1>1, <3>2 DEF Inv, LiveOK
      <4> QED BY <1>1, <3>1, <4>1 DEF Untouched
    <3>3. CASE i # m
      <4>1. frames'[i] = frames[i]
        BY <1>1, <1>2, <3>3
      <4> QED BY <1>1, <2>0, <3>1, <4>1 DEF Untouched
    <3> QED BY <3>2, <3>3
  <2>5. ASSUME NEW i \in 1 .. m, frames'[i].kind # "block"
        PROVE  /\ Follows(pt, deadset, i)'
               /\ \A j \in 1 .. m :
                    /\ j > i => Follows(frames[j].entry, frames[j].entry_deadset, i)'
                    /\ j >= i /\ frames'[j].kind = "else" => Follows(frames[j].then, frames[j].then_deadset, i)'
    <3>1. /\ Follows(pt, deadset, i)
          /\ \A j \in 1 .. m :
               /\ j > i => Follows(frames[j].entry, frames[j].entry_deadset, i)
               /\ j >= i /\ frames[j].kind = "else" => Follows(frames[j].then, frames[j].then_deadset, i)
      BY <1>1, <1>3, <2>5 DEF Inv, LiveOK
    <3>2. Follows(pt, deadset, i)'
      <4>1. CASE i = m
        BY <1>1, <4>1 DEF Follows
      <4>2. CASE i # m
        <5>1. Follows(f.entry, f.entry_deadset, i)
          BY <1>c, <1>2, <3>1, <4>2
        <5> QED BY <1>1, <1>3, <1>4, <5>1 DEF Follows
      <4> QED BY <4>1, <4>2
    <3>3. ASSUME NEW j \in 1 .. m, j > i
          PROVE  Follows(frames[j].entry, frames[j].entry_deadset, i)'
      BY <1>3, <1>4, <3>1, <3>3 DEF Follows
    <3>4. ASSUME NEW j \in 1 .. m, j >= i, frames'[j].kind = "else"
          PROVE  Follows(frames[j].then, frames[j].then_deadset, i)'
      <4>1. CASE j = m
        BY <1>1, <1>3, <1>4, <3>1, <4>1 DEF Follows
      <4>2. CASE j # m
        <5>1. frames'[j] = frames[j]
          BY <1>1, <1>2, <4>2
        <5> QED BY <1>3, <1>4, <3>1, <3>4, <5>1 DEF Follows
      <4> QED BY <4>1, <4>2
    <3> QED BY <3>2, <3>3, <3>4
  <2> QED BY <1>1, <2>1, <2>2, <2>3, <2>4, <2>5 DEF LiveOK
<1>15. IRDropsOnce' /\ CDropsOnceIfNotLost'
  BY <1>1 DEF Inv, IRDropsOnce, CDropsOnceIfNotLost
<1> QED BY <1>1, <1>5, <1>6, <1>7, <1>12, <1>13, <1>14, <1>15 DEF Inv

-----------------------------------------------------------------------------
(***************************************************************************)
(* The end of the function.                                                *)
(***************************************************************************)

LEMMA FunEndFacts ==
  ASSUME Inv, result' = result, FunEnd
  PROVE  /\ TypeOK' /\ frames = << >> /\ frames' = frames /\ Len(scopes) = 1 /\ Len(scopes') = 1
         /\ scopes'[1].vars = scopes[1].vars /\ scopes'[1].owners = {}
         /\ nvals' = nvals /\ obj' = obj /\ deadset' = deadset /\ status' = "built"
         /\ pt'.ret /\ pt'.live = pt.live
         /\ ghost'.doubled = ghost.doubled /\ ghost'.leaked = ghost.leaked
         /\ ghost'.lost = ghost.lost /\ ghost'.misused = ghost.misused
         /\ ghost'.cdoubled \cup ghost'.cleaked \subseteq ghost.lost
<1>a. PICK S : S = Top.owners \ deadset
  OBVIOUS
<1>b. PICK sc : sc = RetScopes(S)[1]
  OBVIOUS
<1>c. PICK p : p = gen_drops(pt, sc)
  OBVIOUS
<1>d. PICK more : more = CDoubled(pt, sc)
  OBVIOUS
<1>e. PICK g : g = IF pt.ret THEN Doubling(ghost, pt, S) ELSE RetGhost(pt, S)
  OBVIOUS
<1>1. status = "building" /\ frames = << >>
  BY DEF FunEnd
<1>2. /\ Len(scopes) = 1 /\ Len(scopes) - 1 = 0 /\ Top = scopes[1] /\ DOMAIN frames = {}
      /\ OuterOwners = {} /\ Owners = Top.owners
  <2>1. Len(scopes) = 1 /\ Top = scopes[1] /\ DOMAIN frames = {}
    BY <1>1, ScopeFacts DEF Inv
  <2>2. OuterOwners = {}
    BY <2>1 DEF OuterOwners, OwnersTo
  <2> QED BY <2>1, <2>2, OwnersFacts DEF Inv
<1>3. owners_unwind_scope(deadset) = S /\ owners_unwind_all = S /\ Alive = S
  BY <1>a, <1>2 DEF owners_unwind_scope, owners_unwind_all, Alive
<1>4. /\ scopes' = RetScopes(S) /\ pt' = [Returned(p, S) EXCEPT !.cruns = {}, !.cfell = {}]
      /\ ghost' = [g EXCEPT !.cdoubled = @ \cup more, !.fell = @ \cup CFell(pt, sc),
                            !.cleaked = @ \cup UNION p.cruns]
      /\ nvals' = nvals /\ obj' = obj /\ deadset' = deadset /\ frames' = frames /\ stmts' = stmts
      /\ status' = "built"
  <2>1. CASE pt.ret
    BY <1>b, <1>c, <1>d, <1>e, <1>3, <2>1 DEF FunEnd
  <2>2. CASE ~pt.ret
    BY <1>b, <1>c, <1>d, <1>e, <1>3, <2>2 DEF FunEnd
  <2> QED BY <2>1, <2>2
<1>5. /\ S \in SUBSET Values
      /\ ~pt.ret => CRunsAre(Left(S), Objs(OuterOwners \ deadset))
      /\ LeftGhost(S).cdoubled \cup LeftGhost(S).cleaked \subseteq ghost.lost
  BY <1>a, <1>1, LeaveFacts
<1>6. /\ RetScopes(S) \in Seq(Scopes) /\ Len(RetScopes(S)) = 1
      /\ sc \in Scopes /\ sc.vars = Top.vars /\ sc.owners = {} /\ sc.drops = Unwound(S).drops
  BY <1>b, <1>2, <1>5, RetScopesFacts DEF Inv
<1>7. /\ p \in Points /\ p.runs = pt.runs /\ p.live = pt.live
      /\ p.cruns = gen_drops(pt, Unwound(S)).cruns
      /\ ~pt.ret => p.cruns = Left(S).cruns
  <2>1. pt \in Points
    BY DEF Inv, TypeOK
  <2>2. /\ gen_drops(pt, Unwound(S)).cruns = Without(pt.cruns, ToSet(Top.drops) \cup Objs(S))
        /\ ToSet(Unwound(S).drops) = ToSet(Top.drops) \cup Objs(S)
        /\ ~pt.ret => Left(S).cruns = Without(pt.cruns, ToSet(Top.drops) \cup Objs(S))
    BY <1>5, LeftFacts DEF Inv
  <2>3. /\ p \in Points /\ p.runs = pt.runs /\ p.live = pt.live
        /\ p.cruns = Without(pt.cruns, ToSet(sc.drops))
    BY <1>c, <2>1, GenDropsFacts
  <2> QED BY <1>6, <2>2, <2>3
<1>8. more \in SUBSET Values /\ more = CDoubled(pt, Unwound(S))
  BY <1>d, <1>6, CDoubledInValues DEF CDoubled
<1>9. /\ g \in Ghosts /\ g.doubled = ghost.doubled /\ g.leaked = ghost.leaked
      /\ g.cdoubled = ghost.cdoubled /\ g.cleaked = ghost.cleaked /\ g.lost = ghost.lost
      /\ g.misused = ghost.misused
  <2>1. CASE pt.ret
    <3>1. g = Doubling(ghost, pt, S) /\ ghost \in Ghosts /\ pt \in Points
      BY <1>e, <2>1 DEF Inv, TypeOK
    <3> QED BY <1>5, <2>1, <3>1, DoublingFacts DEF Inv
  <2>2. CASE ~pt.ret
    <3>1. g = RetGhost(pt, S)
      BY <1>e, <2>2
    <3>2. Injective(S) /\ RunsAre(pt, S) /\ pt \in Points
      BY <1>3, <2>2 DEF Inv, AliveOK, TypeOK
    <3> QED BY <1>5, <3>1, <3>2, RetGhostFacts DEF Inv
  <2> QED BY <2>1, <2>2
<1>10. /\ more \subseteq LeftGhost(S).cdoubled
       /\ pt.ret => UNION p.cruns \subseteq LeftGhost(S).cleaked
  <2>1. PICK h : h = Doubling(ghost, pt, S)
    OBVIOUS
  <2>2. LeftGhost(S) = [h EXCEPT !.cdoubled = @ \cup CDoubled(pt, Unwound(S)),
                                 !.fell = @ \cup CFell(pt, Unwound(S)),
                                 !.cleaked = IF pt.ret THEN @ \cup UNION gen_drops(pt, Unwound(S)).cruns ELSE @]
    BY <2>1 DEF LeftGhost
  <2>3. DropDoubled(pt, S) \in SUBSET Values
    BY <1>5, DoubledInValues DEF Inv
  <2>4. h \in Ghosts
    <3>1. ghost \in Ghosts
      BY DEF Inv, TypeOK
    <3> QED BY <2>1, <2>3, <3>1 DEF Doubling, Ghosts
  <2> QED BY <1>7, <1>8, <2>2, <2>4 DEF Ghosts
<1>11. UNION p.cruns \subseteq ghost.lost /\ UNION p.cruns \subseteq Values
  <2>1. CASE pt.ret
    BY <1>5, <1>7, <1>10, <2>1 DEF Points
  <2>2. CASE ~pt.ret
    <3>1. Objs(OuterOwners \ deadset) = {}
      BY <1>2 DEF Objs
    <3>2. \A r \in p.cruns : r \ ghost.lost = {}
      BY <1>5, <1>7, <2>2, <3>1 DEF CRunsAre
    <3> QED BY <1>7, <3>2 DEF Points
  <2> QED BY <2>1, <2>2
<1>12. more \subseteq ghost.lost /\ ghost.cdoubled \cup ghost.cleaked \subseteq ghost.lost
  BY <1>5, <1>10 DEF Inv, CDropsOnceIfNotLost
<1>13. /\ ghost' \in Ghosts /\ ghost'.doubled = g.doubled /\ ghost'.leaked = g.leaked
       /\ ghost'.lost = g.lost /\ ghost'.misused = g.misused
       /\ ghost'.cdoubled = g.cdoubled \cup more /\ ghost'.cleaked = g.cleaked \cup UNION p.cruns
  <2>1. PICK leak : leak = UNION p.cruns
    OBVIOUS
  <2>2. ghost' = [g EXCEPT !.cdoubled = @ \cup more, !.fell = @ \cup CFell(pt, sc), !.cleaked = @ \cup leak]
    BY <1>4, <2>1
  <2>3. leak \in SUBSET Values /\ more \in SUBSET Values /\ CFell(pt, sc) \in SUBSET Values
    BY <1>6, <1>8, <1>11, <2>1, CFellInValues
  <2> QED BY <1>9, <2>1, <2>2, <2>3 DEF Ghosts
<1>14. pt' \in Points /\ pt'.ret /\ pt'.live = pt.live
  <2>1. PICK q : q = Returned(p, S)
    OBVIOUS
  <2>2. q \in Points /\ q.ret /\ q.live = p.live
    BY <1>7, <2>1, ReturnedFacts
  <2>3. pt' = [q EXCEPT !.cruns = {}, !.cfell = {}]
    BY <1>4, <2>1
  <2> QED BY <1>7, <2>2, <2>3 DEF Points
<1>15. TypeOK'
  BY <1>4, <1>6, <1>13, <1>14 DEF Inv, TypeOK
<1>16. scopes'[1].vars = scopes[1].vars /\ scopes'[1].owners = {} /\ Len(scopes') = 1
  BY <1>b, <1>2, <1>4, <1>6
<1>17. ghost'.cdoubled \cup ghost'.cleaked \subseteq ghost.lost
  BY <1>9, <1>11, <1>12, <1>13
<1> QED BY <1>1, <1>2, <1>4, <1>9, <1>13, <1>14, <1>15, <1>16, <1>17

LEMMA FunEndInv ==
  ASSUME Inv, result' = result, FunEnd
  PROVE  Inv'
<1>1. /\ TypeOK' /\ frames = << >> /\ frames' = frames /\ Len(scopes) = 1 /\ Len(scopes') = 1
      /\ scopes'[1].vars = scopes[1].vars /\ scopes'[1].owners = {}
      /\ nvals' = nvals /\ obj' = obj /\ deadset' = deadset /\ status' = "built"
      /\ pt'.ret /\ pt'.live = pt.live
      /\ ghost'.doubled = ghost.doubled /\ ghost'.leaked = ghost.leaked
      /\ ghost'.lost = ghost.lost /\ ghost'.misused = ghost.misused
      /\ ghost'.cdoubled \cup ghost'.cleaked \subseteq ghost.lost
  BY FunEndFacts
<1>2. /\ DOMAIN frames = {} /\ DOMAIN frames' = {} /\ Len(frames') = 0
      /\ DOMAIN scopes = {1} /\ DOMAIN scopes' = {1} /\ 1 .. Len(scopes') = {1}
      /\ 1 .. Len(scopes') - 1 = {}
  <2>1. DOMAIN scopes = 1 .. 1 /\ DOMAIN scopes' = 1 .. 1
    BY <1>1, ScopeFacts DEF Inv, TypeOK
  <2> QED BY <1>1, <2>1
<1>3. Owners' = {} /\ Alive' = {}
  BY <1>1, <1>2 DEF Owners, OwnersTo, Alive
<1>4. ValuesOK'
  BY <1>1 DEF Inv, ValuesOK
<1>5. ScopesOK'
  <2>1. scopes[1].vars \subseteq 1 .. nvals
    BY <1>2 DEF Inv, ScopesOK
  <2> QED BY <1>1, <1>2, <2>1 DEF ScopesOK
<1>6. FramesOK' /\ FramesAliveOK' /\ FramesCAliveOK'
  BY <1>2 DEF FramesOK, FramesAliveOK, FramesCAliveOK
<1>7. AliveOK'
  BY <1>1, <1>3, <1>6 DEF AliveOK, Injective
<1>8. CAliveOK'
  BY <1>1, <1>2, <1>6 DEF CAliveOK
<1>9. LiveOK'
  <2>1. Untouched(pt)'
    BY <1>1 DEF Inv, LiveOK, Untouched
  <2> QED BY <1>1, <1>2, <1>3, <2>1 DEF LiveOK, Decided, MadeInBranch
<1>10. IRDropsOnce' /\ CDropsOnceIfNotLost'
  BY <1>1 DEF Inv, IRDropsOnce, CDropsOnceIfNotLost
<1> QED BY <1>1, <1>4, <1>5, <1>6, <1>7, <1>8, <1>9, <1>10 DEF Inv

-----------------------------------------------------------------------------
(***************************************************************************)
(* The invariant and what it says.                                         *)
(***************************************************************************)

LEMMA InitInv ==
  ASSUME Init
  PROVE  Inv
<1>1. Params \in Nat /\ MaxValues \in Nat /\ Params <= MaxValues /\ MaxStmts \in Nat
  BY OwnershipAssumptions
<1>2. PICK P : P = 1 .. Params
  OBVIOUS
<1>3. PICK s : s = [NoScope EXCEPT !.vars = P, !.owners = P]
  OBVIOUS
<1>4. P \in SUBSET Values
  BY <1>1, <1>2 DEF Values
<1>5. s \in Scopes /\ s.vars = P /\ s.owners = P /\ s.drops = << >>
  <2>1. s = [vars |-> P, owners |-> P, drops |-> << >>]
    BY <1>3 DEF NoScope
  <2>2. << >> \in Seq(Values)
    OBVIOUS
  <2> QED BY <1>4, <2>1, <2>2 DEF Scopes
<1>6. /\ nvals = Params /\ obj = [v \in Values |-> v] /\ scopes = << s >> /\ deadset = {}
      /\ pt = [runs |-> {P}, cruns |-> {P}, cfell |-> {}, ret |-> FALSE, live |-> [v \in Values |-> "none"]]
      /\ frames = << >> /\ stmts = 0 /\ status = "building"
      /\ ghost = [doubled |-> {}, leaked |-> {}, cdoubled |-> {}, cleaked |-> {},
                  fell |-> {}, lost |-> {}, late |-> {}, misused |-> FALSE]
  BY <1>2, <1>3 DEF Init
<1>7. pt \in Points /\ ghost \in Ghosts
  BY <1>4, <1>6 DEF Points, Ghosts, Lives
<1>8. TypeOK
  BY <1>1, <1>5, <1>6, <1>7 DEF TypeOK, Init
<1>9. /\ DOMAIN scopes = {1} /\ Len(scopes) = 1 /\ scopes[1] = s /\ DOMAIN frames = {} /\ Len(frames) = 0
      /\ Top = s /\ 1 .. Len(scopes) - 1 = {} /\ 1 .. Len(scopes) = {1}
  BY <1>6 DEF Top, Last
<1>10. Owners = P /\ Alive = P /\ Objs(P) = P
  BY <1>4, <1>5, <1>6, <1>9 DEF Owners, OwnersTo, Alive, Objs
<1>11. ValuesOK
  BY <1>1, <1>6 DEF ValuesOK, Values
<1>12. ScopesOK
  <2>1. P \subseteq 1 .. nvals /\ Len(scopes) = Len(frames) + 1
    BY <1>2, <1>6, <1>9
  <2>2. \A i \in DOMAIN scopes : scopes[i] = s /\ \A j \in DOMAIN scopes : i = j
    BY <1>9
  <2> QED BY <1>5, <1>9, <2>1, <2>2 DEF ScopesOK
<1>13. FramesOK /\ FramesAliveOK /\ FramesCAliveOK
  BY <1>9 DEF FramesOK, FramesAliveOK, FramesCAliveOK
<1>14. AliveOK
  <2>1. Injective(Alive) /\ RunsAre(pt, Alive)
    BY <1>4, <1>6, <1>10 DEF Injective, RunsAre
  <2> QED BY <1>13, <2>1 DEF AliveOK
<1>15. CAliveOK
  <2>1. Lost(Top) /\ CRunsAre(pt, Objs(Alive))
    BY <1>5, <1>6, <1>9, <1>10 DEF Lost, CRunsAre, ToSet
  <2> QED BY <1>6, <1>9, <1>13, <2>1 DEF CAliveOK
<1>16. LiveOK
  <2>1. Untouched(pt) /\ Decided(pt, Owners, deadset) /\ MadeInBranch(pt, Len(scopes))
    BY <1>4, <1>5, <1>6, <1>9, <1>10 DEF Untouched, Decided, MadeInBranch
  <2> QED BY <1>9, <2>1 DEF LiveOK
<1>17. IRDropsOnce /\ CDropsOnceIfNotLost
  BY <1>6 DEF IRDropsOnce, CDropsOnceIfNotLost
<1> QED BY <1>8, <1>11, <1>12, <1>13, <1>14, <1>15, <1>16, <1>17 DEF Inv

LEMMA NextInv ==
  ASSUME Inv, [Next]_vars
  PROVE  Inv'
<1>0. result' = result
  BY DEF Next, vars
<1>1. ASSUME NEW x \in Visible, LetMove(x)
      PROVE  Inv'
  BY <1>0, <1>1, LetMoveInv
<1>2. ASSUME NEW x \in Visible, Consume(x)
      PROVE  Inv'
  BY <1>0, <1>2, ConsumeInv
<1>3. ASSUME NEW x \in Visible, Ret(x)
      PROVE  Inv'
  BY <1>0, <1>3, RetInv
<1>4. CASE LetCall
  BY <1>0, <1>4, LetCallInv
<1>5. CASE RetNone
  BY <1>0, <1>5, RetNoneInv
<1>6. CASE BlockEnter
  BY <1>0, <1>6, EnterInv DEF BlockEnter
<1>7. CASE BlockLeave
  BY <1>0, <1>7, BlockLeaveInv
<1>8. CASE IfThen
  BY <1>0, <1>8, EnterInv DEF IfThen
<1>9. CASE IfElse
  BY <1>0, <1>9, IfElseInv
<1>10. CASE IfEnd
  BY <1>0, <1>10, IfEndInv
<1>11. CASE ElseEnd
  BY <1>0, <1>11, ElseEndInv
<1>12. CASE ElseEndThenReturned
  BY <1>0, <1>12, ElseEndThenReturnedInv
<1>13. CASE FunEnd
  BY <1>0, <1>13, FunEndInv
<1>14. CASE UNCHANGED vars
  <2>1. TypeOK'
    BY <1>14 DEF Inv, TypeOK, vars
  <2> QED BY <1>14, <2>1, SameInv DEF vars
<1> QED
  BY <1>1, <1>2, <1>3, <1>4, <1>5, <1>6, <1>7, <1>8, <1>9, <1>10, <1>11, <1>12, <1>13, <1>14 DEF Next

LEMMA SpecInv == Spec => []Inv
<1>1. Init => Inv
  BY InitInv
<1>2. Inv /\ [Next]_vars => Inv'
  BY NextInv
<1> QED BY <1>1, <1>2, PTL DEF Spec

(* What the analysis keeps of the body it has seen, and what the runs and  *)
(* the generated code have done, has its type: the deadset, the scopes and *)
(* the saved states of ifexpr and blockexpr (ir.c).                        *)
THEOREM OwnershipTypes == Spec => []TypeOK
<1>1. Inv => TypeOK
  BY DEF Inv
<1> QED BY <1>1, SpecInv, PTL

(* Wherever code is added, the deadset is exact: what a run has alive there *)
(* is what the owners that ir.c thinks alive own, for a body of any length, *)
(* with blocks and branches nested to any depth and returns anywhere.      *)
THEOREM OwnersAreExact == Spec => []OwnersExact
<1>1. Inv => OwnersExact
  BY DEF Inv, AliveOK, RunsAre, Injective, Alive, OwnersExact
<1> QED BY <1>1, SpecInv, PTL

(* In a function that ir.c accepts, a MOVE or one DROP ends every object on *)
(* every run, never a dead one; and so does the generated code, for every  *)
(* object that owners_drop_lost has not moved to the drop list of a block  *)
(* around a branch.                                                        *)
THEOREM DropsAreOnce == Spec => []DropsOnce
<1>1. Inv => DropsOnce
  BY DEF Inv, DropsOnce
<1> QED BY <1>1, SpecInv, PTL

(* An owner's liveness variable never has to be decided at run time, so    *)
(* the assertions of owners_unwind_one and write_liveness_var hold and     *)
(* conditional_drop is never called.                                       *)
THEOREM LivenessIsDefinite == Spec => []LivenessDefinite
<1>1. Inv => LivenessDefinite
  BY DEF Inv, LiveOK, Decided, LivenessDefinite
<1> QED BY <1>1, SpecInv, PTL
=============================================================================
