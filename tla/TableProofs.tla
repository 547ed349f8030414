---------------------------- MODULE TableProofs -----------------------------
(***************************************************************************)
(* Proofs about HashTable in the hands of StrSet and of Interning, and     *)
(* about Map and Scope, for any keys, hash functions, sizes and threads.   *)
(*                                                                         *)
(* The invariant of a table (Table) is                                     *)
(*   Chained     between a key's own index and the entry that holds it     *)
(*               there is no free one, so that a probe gets there;         *)
(*   KeysDiffer  no two entries in use have one key;                       *)
(*   Counted     len is at least the number of entries that are not free,  *)
(*               so that the load factor leaves a free one to end a probe. *)
(* A deleted entry is neither free nor in use.  Growth and what a table is *)
(* first filled with are loops over an interval: that a recursive function *)
(* is what its equation says, and that a loop preserves the invariant, is  *)
(* shown by the least number for which it would fail (Least, Induction).   *)
(*                                                                         *)
(* A map is a table of the names of its keys (AsTable), to which the       *)
(* lemmas about tables apply.  It is right (MapRight) if it holds what its *)
(* caller has put into it, its len is that number, and the entries that    *)
(* are not empty are within the load factor.                               *)
(***************************************************************************)
EXTENDS StrSet, Interning, Map, Scope, FiniteSetTheorems, WellFoundedInduction, TLAPS

(***************************************************************************)
(* Minima, induction over an interval and loops over one.                  *)
(***************************************************************************)

LEMMA Least ==
  ASSUME NEW S, S \subseteq Nat, S # {}
  PROVE  /\ Min(S) \in S
         /\ \A n \in S : Min(S) =< n
<1>1. \E m \in S : \A n \in S : ~(<<n, m>> \in OpToRel(<, Nat))
  BY NatLessThanWellFounded, WFMin
<1>2. \E m \in S : \A n \in S : m =< n
  <2>1. PICK m \in S : \A n \in S : ~(<<n, m>> \in OpToRel(<, Nat))
    BY <1>1
  <2>2. ASSUME NEW n \in S PROVE m =< n
    <3>1. ~(n < m)
      BY <2>1 DEF OpToRel
    <3> QED BY <3>1
  <2> QED BY <2>2
<1> QED BY <1>2 DEF Min

LEMMA Induction ==
  ASSUME NEW N \in Nat, NEW S, 0 \in S, \A n \in 1..N : n - 1 \in S => n \in S
  PROVE  0..N \subseteq S
<1> SUFFICES ASSUME (0..N) \ S # {} PROVE FALSE
  OBVIOUS
<1> DEFINE m == Min((0..N) \ S)
<1>1. m \in (0..N) \ S /\ \A n \in (0..N) \ S : m =< n
  BY Least
<1>2. m \in 1..N
  BY <1>1
<1>3. m - 1 \in 0..N /\ ~(m =< m - 1)
  BY <1>2
<1>4. m - 1 \in S
  BY <1>1, <1>3
<1> QED BY <1>1, <1>2, <1>4

(***************************************************************************)
(* CeilPow2.                                                               *)
(***************************************************************************)

Doubled(n, g) == g = [i \in 0..n |-> IF i = 0 THEN 1 ELSE 2 * g[i - 1]]

LEMMA DoubledExists ==
  ASSUME NEW n \in Nat
  PROVE  \E g : Doubled(n, g)
<1> DEFINE S == {k \in 0..n : \E g : Doubled(k, g)}
<1>1. 0 \in S
  <2>1. Doubled(0, [i \in 0..0 |-> 1])
    BY DEF Doubled
  <2> QED BY <2>1
<1>2. ASSUME NEW k \in 1..n, k - 1 \in S
      PROVE  k \in S
  <2>1. PICK g : Doubled(k - 1, g)
    BY <1>2
  <2> DEFINE h == [i \in 0..k |-> IF i = k THEN 2 * g[k - 1] ELSE g[i]]
  <2>2. ASSUME NEW i \in 0..k PROVE h[i] = IF i = 0 THEN 1 ELSE 2 * h[i - 1]
    <3>1. CASE i = k
      <4>1. h[i - 1] = g[k - 1] /\ i # 0
        BY <3>1
      <4> QED BY <4>1, <3>1
    <3>2. CASE i # k
      <4>1. i \in 0..k - 1 /\ h[i] = g[i]
        BY <3>2
      <4>2. i # 0 => i - 1 \in 0..k /\ i - 1 # k /\ h[i - 1] = g[i - 1]
        BY <3>2
      <4>3. g[i] = IF i = 0 THEN 1 ELSE 2 * g[i - 1]
        BY <4>1, <2>1 DEF Doubled
      <4> QED BY <4>1, <4>2, <4>3
    <3> QED BY <3>1, <3>2
  <2>3. Doubled(k, h)
    BY <2>2 DEF Doubled
  <2> QED BY <2>3
<1>3. 0..n \subseteq S
  BY <1>1, <1>2, Induction
<1> QED BY <1>3

LEMMA CeilPow2Right ==
  ASSUME NEW n \in Nat, n >= 2
  PROVE  /\ CeilPow2(n) \in Nat /\ CeilPow2(n) >= n
         /\ \E half \in Nat : CeilPow2(n) = 2 * half
<1> DEFINE g == CHOOSE g : Doubled(n, g)
           at == CHOOSE i \in 0..n : g[i] >= n /\ \A j \in 0..i-1 : g[j] < n
<1>1. Doubled(n, g)
  BY DoubledExists
<1>2. CeilPow2(n) = g[at]
  BY DEF CeilPow2, Doubled
<1> HIDE DEF g
<1> DEFINE S == {k \in 0..n : g[k] \in Nat /\ g[k] > k}
<1>3. 0..n \subseteq S
  <2>1. g[0] = 1
    BY <1>1 DEF Doubled
  <2>2. ASSUME NEW k \in 1..n, k - 1 \in S PROVE k \in S
    <3>1. g[k] = 2 * g[k - 1]
      BY <1>1 DEF Doubled
    <3> QED BY <3>1, <2>2
  <2>3. 0 \in S
    BY <2>1
  <2> QED BY <2>2, <2>3, Induction
<1>4. \A k \in 0..n : g[k] \in Nat
  BY <1>3
<1> DEFINE Big == {k \in 0..n : g[k] >= n}
<1>5. n \in Big
  BY <1>3
<1>6. Min(Big) \in Big /\ \A k \in Big : Min(Big) =< k
  BY <1>5, Least
<1>7. ASSUME NEW j \in 0..Min(Big) - 1
      PROVE  g[j] < n
  <2>1. j \in 0..n /\ ~(Min(Big) =< j)
    BY <1>6
  <2>2. j \notin Big
    BY <2>1, <1>6
  <2> QED BY <2>1, <2>2, <1>4
<1>8. at \in 0..n /\ g[at] >= n
  BY <1>6, <1>7
<1> HIDE DEF at
<1>9. at \in 1..n
  <2>1. g[0] = 1
    BY <1>1 DEF Doubled
  <2> QED BY <2>1, <1>8
<1>10. at - 1 \in 0..n /\ g[at] = 2 * g[at - 1]
  BY <1>1, <1>9 DEF Doubled
<1> QED BY <1>2, <1>4, <1>8, <1>10

(***************************************************************************)
(* A hash table, of entries in E with keys in K.                           *)
(***************************************************************************)

Used(t) == {i \in Indices(t) : t.bits[i] = STATUS_USE}
Taken(t) == {i \in Indices(t) : t.bits[i] # STATUS_FREE}
Content(t) == {t.ents[i] : i \in Used(t)}
Keys(t) == {e.key : e \in Content(t)}

IsTable(t, K, E) ==
  /\ t = [cap |-> t.cap, len |-> t.len, seed |-> t.seed, ents |-> t.ents, bits |-> t.bits]
  /\ t.cap \in Nat /\ t.cap >= 2 /\ t.len \in Nat
  /\ t.seed \in [K -> Nat]
  /\ t.ents = [i \in Indices(t) |-> t.ents[i]]
  /\ t.bits \in [Indices(t) -> {STATUS_FREE, STATUS_USE, 3}]
  /\ \A i \in Used(t) : t.ents[i] \in E /\ t.ents[i].key \in K

\* What lies between where an entry would be and where it is, is not free.
Chained(t) ==
  \A i \in Used(t), j \in Indices(t) :
    ProbeAt(t, t.ents[i].key, j) = i =>
      \A l \in 0..j - 1 : t.bits[ProbeAt(t, t.ents[i].key, l)] # STATUS_FREE
KeysDiffer(t) == \A i, j \in Used(t) : t.ents[i].key = t.ents[j].key => i = j

\* len counts deleted entries, even those that growing has dropped.
Counted(t) == Cardinality(Taken(t)) =< t.len

Table(t, K, E) ==
  /\ IsTable(t, K, E) /\ Chained(t) /\ KeysDiffer(t) /\ Counted(t)
  /\ t.len =< t.cap - t.cap \div 2

Key(t, key) == t.cap \in Nat /\ t.cap >= 2 /\ t.seed[key] \in Nat

LEMMA ProbeAtFacts ==
  ASSUME NEW t, NEW key, Key(t, key)
  PROVE  /\ \A j \in Indices(t) : ProbeAt(t, key, j) \in Indices(t)
         /\ \A j, l \in Indices(t) : ProbeAt(t, key, j) = ProbeAt(t, key, l) => j = l
         /\ \A i \in Indices(t) : \E j \in Indices(t) : ProbeAt(t, key, j) = i
<1> DEFINE h == Home(t, key)
<1>1. h \in Indices(t)
  BY DEF Key, Indices, Home
<1>2. \A j \in Indices(t) : ProbeAt(t, key, j) = IF h + j < t.cap THEN h + j ELSE h + j - t.cap
  BY <1>1 DEF ProbeAt, Indices, Key
<1> HIDE DEF h
<1>3. \A j \in Indices(t) : ProbeAt(t, key, j) \in Indices(t)
  BY <1>1, <1>2 DEF Key, Indices
<1>4. \A j, l \in Indices(t) : ProbeAt(t, key, j) = ProbeAt(t, key, l) => j = l
  BY <1>1, <1>2 DEF Key, Indices
<1>5. ASSUME NEW i \in Indices(t)
      PROVE  \E j \in Indices(t) : ProbeAt(t, key, j) = i
  <2>1. CASE i >= h
    <3>1. i - h \in Indices(t) /\ ProbeAt(t, key, i - h) = i
      BY <1>1, <1>2, <2>1 DEF Key, Indices
    <3> QED BY <3>1
  <2>2. CASE i < h
    <3>1. i - h + t.cap \in Indices(t) /\ ProbeAt(t, key, i - h + t.cap) = i
      BY <1>1, <1>2, <2>2 DEF Key, Indices
    <3> QED BY <3>1
  <2>3. i >= h \/ i < h
    BY <1>1 DEF Indices, Key
  <2> QED BY <2>1, <2>2, <2>3
<1> QED BY <1>3, <1>4, <1>5

LEMMA ProbeFirst ==
  ASSUME NEW t, NEW key, Key(t, key), NEW stops, Indices(t) \cap stops # {}
  PROVE  \E j \in Indices(t) :
           /\ Probe(t, key, stops) = ProbeAt(t, key, j)
           /\ ProbeAt(t, key, j) \in stops
           /\ \A l \in 0..j - 1 : ProbeAt(t, key, l) \notin stops
<1> DEFINE Hits == {j \in Indices(t) : ProbeAt(t, key, j) \in stops}
<1>1. Hits # {}
  <2>1. PICK i \in Indices(t) : i \in stops
    OBVIOUS
  <2>2. PICK j \in Indices(t) : ProbeAt(t, key, j) = i
    BY ProbeAtFacts
  <2> QED BY <2>1, <2>2
<1>2. Probe(t, key, stops) = ProbeAt(t, key, Min(Hits))
  BY <1>1 DEF Probe
<1>3. Hits \subseteq Nat
  BY DEF Indices
<1>4. Min(Hits) \in Hits /\ \A n \in Hits : Min(Hits) =< n
  BY <1>1, <1>3, Least
<1>5. ASSUME NEW l \in 0..Min(Hits) - 1
      PROVE  ProbeAt(t, key, l) \notin stops
  <2>1. l \in Indices(t) /\ ~(Min(Hits) =< l)
    BY <1>4, <1>3 DEF Indices, Key
  <2>2. l \notin Hits
    BY <2>1, <1>4
  <2> QED BY <2>1, <2>2
<1> QED BY <1>2, <1>4, <1>5

LEMMA SomeFree ==
  ASSUME NEW t, NEW K, NEW E, IsTable(t, K, E), Cardinality(Taken(t)) < t.cap
  PROVE  Free(t) # {}
<1> SUFFICES ASSUME Free(t) = {} PROVE FALSE
  OBVIOUS
<1>1. Taken(t) = 0..t.cap - 1
  BY DEF Taken, Free, Indices
<1>2. Cardinality(0..t.cap - 1) = t.cap
  <2>1. 0 \in Int /\ t.cap - 1 \in Int
    BY DEF IsTable
  <2>2. Cardinality(0..t.cap - 1) = IF 0 > t.cap - 1 THEN 0 ELSE t.cap - 1 - 0 + 1
    BY <2>1, FS_Interval
  <2> QED BY <2>2 DEF IsTable
<1> QED BY <1>1, <1>2, SMTT(30) DEF IsTable

LEMMA TableRoom ==
  ASSUME NEW t, NEW K, NEW E, Table(t, K, E)
  PROVE  Free(t) # {}
<1>1. IsFiniteSet(Taken(t)) /\ Cardinality(Taken(t)) \in Nat
  <2>1. IsFiniteSet(Indices(t))
    <3>1. 0 \in Int /\ t.cap - 1 \in Int
      BY DEF Table, IsTable
    <3> QED BY <3>1, FS_Interval DEF Indices
  <2>2. IsFiniteSet(Taken(t))
    BY <2>1, FS_Subset DEF Taken
  <2> QED BY <2>2, FS_CardinalityType
<1>2. Cardinality(Taken(t)) < t.cap
  BY <1>1 DEF Table, IsTable, Counted
<1> QED BY <1>2, SomeFree DEF Table

\* A lookup finds the entry of the key, if there is one.
LEMMA LookupRight ==
  ASSUME NEW t, NEW K, NEW E, IsTable(t, K, E), Chained(t), KeysDiffer(t), Free(t) # {},
         NEW key \in K
  PROVE  LET i == Probe(t, key, Stops(t, key)) IN
         /\ i \in Indices(t)
         /\ IF key \in Keys(t) THEN i \in Used(t) /\ t.ents[i].key = key ELSE i \in Free(t)
         /\ \E j \in Indices(t) :
              /\ i = ProbeAt(t, key, j)
              /\ \A l \in 0..j - 1 : t.bits[ProbeAt(t, key, l)] # STATUS_FREE
<1> DEFINE i == Probe(t, key, Stops(t, key))
<1>1. Key(t, key)
  BY DEF Key, IsTable
<1>2. Indices(t) \cap Stops(t, key) # {}
  BY DEF Stops, StopsAt, Free
<1>3. PICK j \in Indices(t) : /\ i = ProbeAt(t, key, j)
                              /\ i \in Stops(t, key)
                              /\ \A l \in 0..j - 1 : ProbeAt(t, key, l) \notin Stops(t, key)
  BY <1>1, <1>2, ProbeFirst
<1> HIDE DEF i
<1>4. i \in Indices(t) /\ (t.bits[i] = STATUS_FREE \/ (t.bits[i] = STATUS_USE /\ t.ents[i].key = key))
  BY <1>3, <1>1, ProbeAtFacts DEF Stops, StopsAt, Holds
<1>5. ASSUME NEW l \in 0..j - 1
      PROVE  t.bits[ProbeAt(t, key, l)] # STATUS_FREE
  <2>1. l \in Indices(t)
    BY DEF Indices, IsTable
  <2> QED BY <2>1, <1>1, <1>3, ProbeAtFacts DEF Stops, StopsAt
<1>6. CASE key \in Keys(t)
  <2>1. PICK n \in Used(t) : t.ents[n].key = key
    BY <1>6 DEF Keys, Content
  <2>2. n \in Indices(t)
    BY DEF Used
  <2>3. PICK m \in Indices(t) : ProbeAt(t, key, m) = n
    BY <1>1, <2>2, ProbeAtFacts
  <2>4. n \in Stops(t, key)
    BY <2>1, <2>2 DEF Stops, StopsAt, Holds, Used
  <2>5. ~(m < j)
    BY <1>3, <2>3, <2>4 DEF Indices
  <2>6. t.bits[i] # STATUS_FREE
    <3>1. CASE m = j
      BY <3>1, <2>1, <2>3, <1>3 DEF Used, STATUS_USE, STATUS_FREE
    <3>2. CASE j < m
      <4>1. j \in 0..m - 1
        BY <3>2 DEF Indices
      <4> QED BY <4>1, <2>1, <2>3, <1>3 DEF Chained
    <3> QED BY <3>1, <3>2, <2>5 DEF Indices
  <2> QED BY <2>6, <1>3, <1>4, <1>5, <1>6 DEF i, Used
<1>7. CASE key \notin Keys(t)
  <2>1. t.bits[i] = STATUS_FREE
    BY <1>7, <1>4 DEF Keys, Content, Used
  <2> QED BY <2>1, <1>3, <1>4, <1>5, <1>7 DEF i, Free
<1> QED BY <1>6, <1>7

\* Entries that are deleted, and values that change, leave the others findable.
LEMMA SameKeys ==
  ASSUME NEW t, NEW K, NEW E, IsTable(t, K, E), Chained(t), KeysDiffer(t), NEW F, NEW s,
         s = [cap |-> s.cap, len |-> s.len, seed |-> s.seed, ents |-> s.ents, bits |-> s.bits],
         s.cap = t.cap, s.seed = t.seed, s.len \in Nat,
         s.ents = [i \in Indices(t) |-> s.ents[i]],
         s.bits \in [Indices(t) -> {STATUS_FREE, STATUS_USE, 3}],
         Used(s) \subseteq Used(t), Taken(s) = Taken(t),
         \A i \in Used(s) : s.ents[i] \in F /\ s.ents[i].key = t.ents[i].key
  PROVE  IsTable(s, K, F) /\ Chained(s) /\ KeysDiffer(s)
<1>1. Indices(s) = Indices(t)
  BY DEF Indices
<1>2. \A i \in Used(s) : s.ents[i].key \in K
  BY DEF IsTable
<1>3. IsTable(s, K, F)
  BY <1>1, <1>2 DEF IsTable
<1>4. KeysDiffer(s)
  BY DEF KeysDiffer
<1>5. \A key, j : ProbeAt(s, key, j) = ProbeAt(t, key, j)
  BY DEF ProbeAt, Home
<1>6. Chained(s)
  <2> SUFFICES ASSUME NEW n \in Used(s), NEW j \in Indices(t), ProbeAt(t, t.ents[n].key, j) = n,
                      NEW l \in 0..j - 1
               PROVE  s.bits[ProbeAt(t, t.ents[n].key, l)] # STATUS_FREE
    BY <1>1, <1>5 DEF Chained
  <2>1. Key(t, t.ents[n].key) /\ n \in Used(t)
    BY DEF Key, IsTable
  <2>2. l \in Indices(t)
    BY DEF Indices, IsTable
  <2>3. ProbeAt(t, t.ents[n].key, l) \in Indices(t)
    BY <2>1, <2>2, ProbeAtFacts
  <2>4. t.bits[ProbeAt(t, t.ents[n].key, l)] # STATUS_FREE
    BY <2>1 DEF Chained
  <2>5. ProbeAt(t, t.ents[n].key, l) \in Taken(t)
    BY <2>3, <2>4 DEF Taken
  <2> QED BY <2>5 DEF Taken
<1> QED BY <1>3, <1>4, <1>6

\* What does not depend on len.
LEMMA Relen ==
  ASSUME NEW t, NEW K, NEW E, IsTable(t, K, E), NEW n \in Nat
  PROVE  LET s == [t EXCEPT !.len = n] IN
         /\ IsTable(s, K, E) /\ s.cap = t.cap /\ s.len = n /\ s.ents = t.ents /\ s.bits = t.bits
         /\ s.seed = t.seed
         /\ Used(s) = Used(t) /\ Taken(s) = Taken(t) /\ Content(s) = Content(t) /\ Keys(s) = Keys(t)
         /\ Chained(t) => Chained(s)
         /\ KeysDiffer(t) => KeysDiffer(s)
<1> DEFINE s == [t EXCEPT !.len = n]
<1>1. /\ s = [cap |-> t.cap, len |-> n, seed |-> t.seed, ents |-> t.ents, bits |-> t.bits]
      /\ s.cap = t.cap /\ s.len = n /\ s.ents = t.ents /\ s.bits = t.bits /\ s.seed = t.seed
  BY DEF IsTable
<1> HIDE DEF s
<1>2. Indices(s) = Indices(t)
  BY <1>1 DEF Indices
<1>3. Used(s) = Used(t) /\ Taken(s) = Taken(t)
  BY <1>1, <1>2 DEF Used, Taken
<1>4. Content(s) = Content(t)
  BY <1>1, <1>3 DEF Content
<1>5. Keys(s) = Keys(t)
  BY <1>4 DEF Keys
<1>6. IsTable(s, K, E)
  BY <1>1, <1>2, <1>3 DEF IsTable
<1>7. \A key, j : ProbeAt(s, key, j) = ProbeAt(t, key, j)
  BY <1>1 DEF ProbeAt, Home
<1>8. Chained(t) => Chained(s)
  BY <1>1, <1>2, <1>3, <1>7 DEF Chained
<1>9. KeysDiffer(t) => KeysDiffer(s)
  BY <1>1, <1>3 DEF KeysDiffer
<1> QED BY <1>1, <1>3, <1>4, <1>5, <1>6, <1>8, <1>9 DEF s

\* An entry e for whose key i is the first free index.
FirstFree(t, e, i) ==
  /\ i \in Free(t)
  /\ \E j \in Indices(t) :
       /\ i = ProbeAt(t, e.key, j)
       /\ \A l \in 0..j - 1 : t.bits[ProbeAt(t, e.key, l)] # STATUS_FREE

\* s is t with e at i.
IsStored(s, t, e, i) ==
  /\ s.cap = t.cap /\ s.seed = t.seed
  /\ Used(s) = Used(t) \cup {i} /\ Taken(s) = Taken(t) \cup {i}
  /\ \A n \in Used(t) : s.ents[n] = t.ents[n]
  /\ s.ents[i] = e /\ i \notin Taken(t)
  /\ Content(s) = Content(t) \cup {e}

LEMMA StoreRight ==
  ASSUME NEW t, NEW K, NEW E, IsTable(t, K, E), Chained(t), KeysDiffer(t),
         NEW e \in E, e.key \in K \ Keys(t), NEW i, FirstFree(t, e, i)
  PROVE  LET s == Store(t, i, e) IN
         /\ IsTable(s, K, E) /\ Chained(s) /\ KeysDiffer(s) /\ IsStored(s, t, e, i)
         /\ s.len = t.len
         /\ Cardinality(Taken(t)) \in Nat
         /\ Cardinality(Taken(s)) = Cardinality(Taken(t)) + 1
<1> DEFINE s == Store(t, i, e)
<1>1. i \in Indices(t) /\ t.bits[i] = STATUS_FREE
  BY DEF FirstFree, Free
<1>2. /\ s = [cap |-> t.cap, len |-> t.len, seed |-> t.seed, ents |-> s.ents, bits |-> s.bits]
      /\ s.cap = t.cap /\ s.len = t.len /\ s.seed = t.seed
      /\ s.ents = [t.ents EXCEPT ![i] = e]
      /\ s.bits = [t.bits EXCEPT ![i] = STATUS_USE]
  <2>1. bit_set2(t.bits, i, STATUS_USE) = [t.bits EXCEPT ![i] = STATUS_USE]
    BY <1>1 DEF bit_set2
  <2>2. s = [[t EXCEPT !.ents = [t.ents EXCEPT ![i] = e]] EXCEPT !.bits = [t.bits EXCEPT ![i] = STATUS_USE]]
    BY <2>1 DEF Store, IsTable
  <2> QED BY <2>2 DEF IsTable
<1> HIDE DEF s
<1>3. Indices(s) = Indices(t)
  BY <1>2 DEF Indices
<1>4. /\ s.ents = [n \in Indices(t) |-> s.ents[n]]
      /\ s.ents[i] = e /\ \A n \in Indices(t) \ {i} : s.ents[n] = t.ents[n]
  BY <1>1, <1>2 DEF IsTable
<1>5. /\ s.bits \in [Indices(t) -> {STATUS_FREE, STATUS_USE, 3}]
      /\ s.bits[i] = STATUS_USE /\ \A n \in Indices(t) \ {i} : s.bits[n] = t.bits[n]
  BY <1>1, <1>2 DEF IsTable
<1>6. Used(s) = Used(t) \cup {i} /\ Taken(s) = Taken(t) \cup {i} /\ i \notin Taken(t) /\ i \notin Used(t)
  BY <1>1, <1>3, <1>5 DEF Used, Taken, STATUS_USE, STATUS_FREE
<1>7. \A n \in Used(t) : n \in Indices(t) \ {i} /\ s.ents[n] = t.ents[n]
  BY <1>4, <1>6 DEF Used
<1>8. Content(s) = Content(t) \cup {e}
  BY <1>4, <1>6, <1>7 DEF Content
<1>9. IsTable(s, K, E)
  BY <1>2, <1>3, <1>4, <1>5, <1>6, <1>7 DEF IsTable
<1>10. \A key, j : ProbeAt(s, key, j) = ProbeAt(t, key, j)
  BY <1>2 DEF ProbeAt, Home
<1>11. KeysDiffer(s)
  <2>1. \A n \in Used(t) : t.ents[n].key \in Keys(t)
    BY DEF Keys, Content
  <2> QED BY <2>1, <1>4, <1>6, <1>7 DEF KeysDiffer
<1>12. Chained(s)
  <2> SUFFICES ASSUME NEW n \in Used(s), NEW j \in Indices(t), ProbeAt(t, s.ents[n].key, j) = n,
                      NEW l \in 0..j - 1
               PROVE  s.bits[ProbeAt(t, s.ents[n].key, l)] # STATUS_FREE
    BY <1>3, <1>10 DEF Chained
  <2> DEFINE k == s.ents[n].key
  <2>1. Key(t, k)
    BY <1>9, <1>2 DEF Key, IsTable
  <2>2. l \in Indices(t)
    BY DEF Indices, IsTable
  <2>3. ProbeAt(t, k, l) \in Indices(t)
    BY <2>1, <2>2, ProbeAtFacts
  <2>4. t.bits[ProbeAt(t, k, l)] # STATUS_FREE
    <3>1. CASE n = i
      <4>1. k = e.key
        BY <3>1, <1>4
      <4>2. PICK m \in Indices(t) :
              /\ i = ProbeAt(t, e.key, m)
              /\ \A d \in 0..m - 1 : t.bits[ProbeAt(t, e.key, d)] # STATUS_FREE
        BY DEF FirstFree
      <4>3. m = j
        BY <4>1, <4>2, <3>1, <2>1, ProbeAtFacts
      <4> QED BY <4>1, <4>2, <4>3
    <3>2. CASE n # i
      <4>1. n \in Used(t) /\ k = t.ents[n].key
        BY <3>2, <1>6, <1>7
      <4> QED BY <4>1 DEF Chained
    <3> QED BY <3>1, <3>2
  <2> HIDE DEF k
  <2>5. s.bits[ProbeAt(t, k, l)] # STATUS_FREE
    BY <2>3, <2>4, <1>5 DEF STATUS_USE, STATUS_FREE
  <2> QED BY <2>5 DEF k
<1>13. /\ Cardinality(Taken(t)) \in Nat
       /\ Cardinality(Taken(s)) = Cardinality(Taken(t)) + 1
  <2>1. 0 \in Int /\ t.cap - 1 \in Int
    BY DEF IsTable
  <2>2. IsFiniteSet(Taken(t))
    BY <2>1, FS_Interval, FS_Subset DEF Taken, Indices
  <2> QED BY <2>2, <1>6, FS_AddElement, FS_CardinalityType
<1> QED BY <1>2, <1>4, <1>6, <1>7, <1>8, <1>9, <1>11, <1>12, <1>13 DEF IsStored, s

LEMMA Emptied ==
  ASSUME NEW K, NEW E, NEW cap \in Nat, cap >= 2, NEW seed \in [K -> Nat]
  PROVE  LET s == EmptyTable(cap, seed) IN
         /\ Table(s, K, E) /\ s.cap = cap /\ s.seed = seed /\ s.len = 0
         /\ Used(s) = {} /\ Taken(s) = {} /\ Content(s) = {} /\ Keys(s) = {}
<1> DEFINE s == EmptyTable(cap, seed)
<1>1. /\ s = [cap |-> s.cap, len |-> s.len, seed |-> s.seed, ents |-> s.ents, bits |-> s.bits]
      /\ s.cap = cap /\ s.seed = seed /\ s.len = 0
      /\ s.ents = [i \in 0..cap-1 |-> NoEntry] /\ s.bits = [i \in 0..cap-1 |-> STATUS_FREE]
  BY DEF EmptyTable
<1> HIDE DEF s
<1>2. Indices(s) = 0..cap-1
  BY <1>1 DEF Indices
<1>3. Used(s) = {} /\ Taken(s) = {}
  BY <1>1, <1>2 DEF Used, Taken, STATUS_USE, STATUS_FREE
<1>4. Content(s) = {} /\ Keys(s) = {}
  BY <1>3 DEF Content, Keys
<1>5. IsTable(s, K, E)
  <2>1. s.ents = [i \in 0..cap-1 |-> s.ents[i]]
    BY <1>1
  <2>2. s.bits \in [0..cap-1 -> {STATUS_FREE, STATUS_USE, 3}]
    BY <1>1
  <2> QED BY <1>1, <1>2, <1>3, <2>1, <2>2 DEF IsTable
<1>6. Chained(s) /\ KeysDiffer(s)
  BY <1>3 DEF Chained, KeysDiffer
<1>7. Counted(s) /\ s.len =< s.cap - s.cap \div 2
  BY <1>1, <1>3, FS_EmptySet DEF Counted
<1> QED BY <1>1, <1>3, <1>4, <1>5, <1>6, <1>7 DEF Table, s

(***************************************************************************)
(* Growing: the loop of hashtable_grow, when it has seen n entries.        *)
(***************************************************************************)

Upto(old, n, g) ==
  g = [m \in 0..n |->
        IF m = 0 THEN EmptyTable(old.cap * 2, old.seed)
        ELSE IF old.bits[m - 1] = STATUS_USE THEN Moved(g[m - 1], old.ents[m - 1])
        ELSE g[m - 1]]

LEMMA UptoExists ==
  ASSUME NEW old, old.cap \in Nat
  PROVE  \E g : Upto(old, old.cap, g)
<1> DEFINE Next(m, new) == IF old.bits[m - 1] = STATUS_USE THEN Moved(new, old.ents[m - 1]) ELSE new
           S == {k \in 0..old.cap : \E g : Upto(old, k, g)}
<1>1. \A n, g : Upto(old, n, g) <=>
        g = [m \in 0..n |-> IF m = 0 THEN EmptyTable(old.cap * 2, old.seed) ELSE Next(m, g[m - 1])]
  BY DEF Upto
<1> HIDE DEF Next
<1>2. 0 \in S
  <2> DEFINE e == EmptyTable(old.cap * 2, old.seed)
             g == [m \in 0..0 |-> e]
  <2>1. g = [m \in 0..0 |-> IF m = 0 THEN e ELSE Next(m, g[m - 1])]
    OBVIOUS
  <2>2. Upto(old, 0, g)
    BY <2>1, <1>1
  <2> QED BY <2>2
<1>3. ASSUME NEW k \in 1..old.cap, k - 1 \in S
      PROVE  k \in S
  <2>1. PICK g : Upto(old, k - 1, g)
    BY <1>3
  <2> DEFINE h == [m \in 0..k |-> IF m = k THEN Next(k, g[k - 1]) ELSE g[m]]
  <2>2. ASSUME NEW m \in 0..k
        PROVE  h[m] = IF m = 0 THEN EmptyTable(old.cap * 2, old.seed) ELSE Next(m, h[m - 1])
    <3>1. CASE m = k
      <4>1. h[m] = Next(k, g[k - 1]) /\ h[m - 1] = g[k - 1] /\ m # 0
        BY <3>1
      <4> QED BY <4>1, <3>1
    <3>2. CASE m # k
      <4>1. m \in 0..k - 1 /\ h[m] = g[m]
        BY <3>2
      <4>2. m # 0 => m - 1 \in 0..k /\ m - 1 # k /\ h[m - 1] = g[m - 1]
        BY <3>2
      <4>3. g[m] = IF m = 0 THEN EmptyTable(old.cap * 2, old.seed) ELSE Next(m, g[m - 1])
        BY <4>1, <2>1, <1>1
      <4> QED BY <4>1, <4>2, <4>3
    <3> QED BY <3>1, <3>2
  <2>3. Upto(old, k, h)
    <3>1. h = [m \in 0..k |-> IF m = 0 THEN EmptyTable(old.cap * 2, old.seed) ELSE Next(m, h[m - 1])]
      BY <2>2
    <3> QED BY <3>1, <1>1
  <2> QED BY <2>3
<1>4. 0..old.cap \subseteq S
  BY <1>2, <1>3, Induction
<1> QED BY <1>4

UsedUpto(old, n) == Used(old) \cap 0..n - 1

\* What new has when the first n entries of old have been looked at.
HasMoved(new, old, n, K, E) ==
  /\ IsTable(new, K, E) /\ Chained(new) /\ KeysDiffer(new)
  /\ new.cap = old.cap * 2 /\ new.seed = old.seed /\ new.len = 0
  /\ Content(new) = {old.ents[i] : i \in UsedUpto(old, n)}
  /\ Cardinality(Taken(new)) =< Cardinality(UsedUpto(old, n))

LEMMA UsedFinite ==
  ASSUME NEW old, old.cap \in Nat, NEW S, S \subseteq Indices(old)
  PROVE  IsFiniteSet(S) /\ Cardinality(S) \in Nat /\ Cardinality(S) =< old.cap
<1>1. 0 \in Int /\ old.cap - 1 \in Int
  OBVIOUS
<1>2. IsFiniteSet(Indices(old)) /\ Cardinality(Indices(old)) = IF 0 > old.cap - 1 THEN 0 ELSE old.cap - 1 - 0 + 1
  BY <1>1, FS_Interval DEF Indices
<1>3. IsFiniteSet(S) /\ Cardinality(S) =< Cardinality(Indices(old))
  BY <1>2, FS_Subset
<1>4. Cardinality(S) \in Nat
  BY <1>3, FS_CardinalityType
<1> QED BY <1>2, <1>3, <1>4

LEMMA MovedOne ==
  ASSUME NEW old, NEW K, NEW E, IsTable(old, K, E), KeysDiffer(old),
         NEW n \in 1..old.cap, NEW new, HasMoved(new, old, n - 1, K, E),
         old.bits[n - 1] = STATUS_USE
  PROVE  HasMoved(Moved(new, old.ents[n - 1]), old, n, K, E)
<1> DEFINE e == old.ents[n - 1]
           i == Probe(new, e.key, Free(new))
<1>1. n - 1 \in Used(old) /\ e \in E /\ e.key \in K /\ old.cap \in Nat /\ old.cap >= 2
  BY DEF IsTable, Used, Indices
<1>2. UsedUpto(old, n) = UsedUpto(old, n - 1) \cup {n - 1} /\ n - 1 \notin UsedUpto(old, n - 1)
  BY <1>1 DEF UsedUpto
<1>3. /\ IsFiniteSet(UsedUpto(old, n - 1)) /\ Cardinality(UsedUpto(old, n - 1)) \in Nat
      /\ Cardinality(UsedUpto(old, n - 1)) =< old.cap
  BY <1>1, UsedFinite DEF UsedUpto, Used
<1>4. Cardinality(UsedUpto(old, n)) = Cardinality(UsedUpto(old, n - 1)) + 1
  BY <1>2, <1>3, FS_AddElement
<1>5. e.key \notin Keys(new)
  <2> SUFFICES ASSUME NEW m \in UsedUpto(old, n - 1), old.ents[m].key = e.key PROVE FALSE
    BY DEF Keys, HasMoved
  <2> QED BY <1>1, <1>2 DEF UsedUpto, KeysDiffer
<1>6. Key(new, e.key)
  BY <1>1 DEF HasMoved, IsTable, Key
<1>7. Cardinality(Taken(new)) \in Nat /\ Cardinality(Taken(new)) < new.cap
  <2>1. Cardinality(Taken(new)) \in Nat
    BY UsedFinite DEF Taken, HasMoved, IsTable
  <2> QED BY <2>1, <1>1, <1>3 DEF HasMoved
<1>8. Indices(new) \cap Free(new) # {}
  <2>1. Free(new) # {}
    BY <1>7, SomeFree DEF HasMoved
  <2> QED BY <2>1 DEF Free
<1>9. FirstFree(new, e, i)
  <2>1. PICK j \in Indices(new) :
          /\ i = ProbeAt(new, e.key, j) /\ i \in Free(new)
          /\ \A l \in 0..j - 1 : ProbeAt(new, e.key, l) \notin Free(new)
    BY <1>6, <1>8, ProbeFirst
  <2>2. ASSUME NEW l \in 0..j - 1
        PROVE  new.bits[ProbeAt(new, e.key, l)] # STATUS_FREE
    <3>1. l \in Indices(new)
      BY <1>6 DEF Indices, Key
    <3>2. ProbeAt(new, e.key, l) \in Indices(new)
      BY <3>1, <1>6, ProbeAtFacts
    <3> QED BY <3>2, <2>1 DEF Free
  <2> QED BY <2>1, <2>2 DEF FirstFree
<1> HIDE DEF i
<1> DEFINE s == Store(new, i, e)
<1>10. /\ IsTable(s, K, E) /\ Chained(s) /\ KeysDiffer(s) /\ IsStored(s, new, e, i)
       /\ s.len = new.len
       /\ Cardinality(Taken(s)) = Cardinality(Taken(new)) + 1
  BY <1>1, <1>5, <1>9, StoreRight DEF HasMoved
<1> HIDE DEF s
<1>11. Content(s) = {old.ents[m] : m \in UsedUpto(old, n)}
  BY <1>2, <1>10 DEF IsStored, HasMoved
<1>12. Cardinality(Taken(s)) =< Cardinality(UsedUpto(old, n))
  BY <1>3, <1>4, <1>7, <1>10 DEF HasMoved
<1>13. HasMoved(s, old, n, K, E)
  BY <1>10, <1>11, <1>12 DEF HasMoved, IsStored
<1> QED BY <1>13 DEF Moved, s, i

LEMMA RelocatedAll ==
  ASSUME NEW old, NEW K, NEW E, IsTable(old, K, E), KeysDiffer(old)
  PROVE  HasMoved(Relocated(old), old, old.cap, K, E)
<1> DEFINE g == CHOOSE g : Upto(old, old.cap, g)
<1>1. old.cap \in Nat /\ old.cap >= 2 /\ old.seed \in [K -> Nat]
  BY DEF IsTable
<1>2. Upto(old, old.cap, g)
  BY <1>1, UptoExists
<1>3. Relocated(old) = g[old.cap]
  BY DEF Relocated, Upto
<1> HIDE DEF g
<1> DEFINE S == {n \in 0..old.cap : HasMoved(g[n], old, n, K, E)}
<1>4. 0 \in S
  <2>1. g[0] = EmptyTable(old.cap * 2, old.seed)
    BY <1>1, <1>2 DEF Upto
  <2>2. UsedUpto(old, 0) = {}
    BY <1>1 DEF UsedUpto
  <2>3. old.cap * 2 \in Nat /\ old.cap * 2 >= 2
    BY <1>1
  <2>4. HasMoved(EmptyTable(old.cap * 2, old.seed), old, 0, K, E)
    <3>1. PICK c \in Nat : c = old.cap * 2 /\ c >= 2
      BY <2>3
    <3>2. PICK h \in [K -> Nat] : h = old.seed
      BY <1>1
    <3> DEFINE s == EmptyTable(c, h)
    <3>3. /\ Table(s, K, E) /\ s.cap = c /\ s.seed = h /\ s.len = 0
          /\ Taken(s) = {} /\ Content(s) = {}
      BY <3>1, Emptied
    <3> HIDE DEF s
    <3>4. {old.ents[i] : i \in UsedUpto(old, 0)} = {}
      BY <2>2
    <3>5. Cardinality(Taken(s)) = 0 /\ Cardinality(UsedUpto(old, 0)) = 0
      BY <2>2, <3>3, FS_EmptySet
    <3>6. HasMoved(s, old, 0, K, E)
      <4>1. Content(s) = {old.ents[i] : i \in UsedUpto(old, 0)}
        BY <3>3, <3>4
      <4>2. Cardinality(Taken(s)) =< Cardinality(UsedUpto(old, 0))
        BY <3>5
      <4> QED BY <3>1, <3>2, <3>3, <4>1, <4>2 DEF HasMoved, Table
    <3> QED BY <3>1, <3>2, <3>6 DEF s
  <2> QED BY <1>1, <2>1, <2>4
<1>5. ASSUME NEW n \in 1..old.cap, n - 1 \in S
      PROVE  n \in S
  <2>1. g[n] = IF old.bits[n - 1] = STATUS_USE THEN Moved(g[n - 1], old.ents[n - 1]) ELSE g[n - 1]
    BY <1>1, <1>2 DEF Upto
  <2>2. HasMoved(g[n - 1], old, n - 1, K, E)
    BY <1>5
  <2>3. CASE old.bits[n - 1] = STATUS_USE
    BY <2>1, <2>2, <2>3, MovedOne
  <2>4. CASE old.bits[n - 1] # STATUS_USE
    <3>1. UsedUpto(old, n) = UsedUpto(old, n - 1)
      BY <2>4, <1>1 DEF UsedUpto, Used
    <3>2. HasMoved(g[n - 1], old, n, K, E)
      BY <3>1, <2>2 DEF HasMoved
    <3> QED BY <2>1, <2>4, <3>2
  <2> QED BY <2>3, <2>4
<1>6. 0..old.cap \subseteq S
  BY <1>1, <1>4, <1>5, Induction
<1>7. old.cap \in S
  BY <1>1, <1>6
<1> QED BY <1>3, <1>7

\* Growing keeps the entries and makes room for another.
LEMMA Grown ==
  ASSUME NEW t, NEW K, NEW E, Table(t, K, E)
  PROVE  LET s == hashtable_grow(t) IN
         /\ Table(s, K, E) /\ s.cap = t.cap * 2 /\ s.seed = t.seed
         /\ Content(s) = Content(t) /\ Keys(s) = Keys(t)
         /\ s.len < s.cap - s.cap \div 2
<1> DEFINE r == Relocated(t)
           s == [r EXCEPT !.len = t.len]
<1>1. HasMoved(r, t, t.cap, K, E)
  BY RelocatedAll DEF Table
<1> HIDE DEF r
<1>2. t.len \in Nat /\ t.cap \in Nat /\ t.cap >= 2 /\ t.len =< t.cap - t.cap \div 2
  BY DEF Table, IsTable
<1>3. /\ IsTable(s, K, E) /\ s.cap = r.cap /\ s.len = t.len /\ s.seed = r.seed
      /\ Taken(s) = Taken(r) /\ Content(s) = Content(r) /\ Chained(s) /\ KeysDiffer(s)
  BY <1>1, <1>2, Relen DEF HasMoved
<1>4. s = hashtable_grow(t)
  BY DEF hashtable_grow, r
<1> HIDE DEF s
<1>5. UsedUpto(t, t.cap) = Used(t)
  BY <1>2 DEF UsedUpto, Used, Indices
<1>6. Content(s) = Content(t)
  BY <1>1, <1>3, <1>5 DEF HasMoved, Content
<1>7. Keys(s) = Keys(t)
  BY <1>6 DEF Keys
<1>8. Counted(s)
  <2>1. /\ IsFiniteSet(Taken(t)) /\ Cardinality(Taken(t)) \in Nat
    BY <1>2, UsedFinite DEF Taken
  <2>2. Used(t) \subseteq Taken(t)
    BY DEF Used, Taken, STATUS_USE, STATUS_FREE
  <2>3. Cardinality(Used(t)) =< Cardinality(Taken(t)) /\ Cardinality(Used(t)) \in Nat
    BY <2>1, <2>2, FS_Subset, FS_CardinalityType
  <2>4. Cardinality(Taken(s)) \in Nat
    BY <1>3, UsedFinite DEF Taken, IsTable
  <2> QED BY <1>1, <1>2, <1>3, <1>5, <2>1, <2>3, <2>4 DEF Counted, HasMoved, Table
<1>9. s.cap = t.cap * 2 /\ s.seed = t.seed /\ s.len = t.len
  BY <1>1, <1>3 DEF HasMoved
<1>10. s.len < s.cap - s.cap \div 2 /\ s.len =< s.cap - s.cap \div 2
  BY <1>2, <1>9
<1> QED BY <1>3, <1>4, <1>6, <1>7, <1>8, <1>9, <1>10 DEF Table

\* An assignment adds the entry if there is none of its key, and keeps the others;
\* where they are, unless the table grows.
LEMMA AssignRight ==
  ASSUME NEW t, NEW K, NEW E, Table(t, K, E), NEW e \in E, e.key \in K
  PROVE  LET a == hashtable_assign(t, e) IN
         /\ Table(a.ht, K, E) /\ a.ht.seed = t.seed
         /\ a.added = (e.key \notin Keys(t))
         /\ Content(a.ht) = IF e.key \in Keys(t) THEN Content(t) ELSE Content(t) \cup {e}
         /\ a.index \in Used(a.ht) /\ a.ht.ents[a.index].key = e.key
         /\ \/ a.ht.cap = t.cap * 2
            \/ a.ht.cap = t.cap /\ \A n \in Used(t) : n \in Used(a.ht) /\ a.ht.ents[n] = t.ents[n]
<1> DEFINE u == IF MustGrow(t) THEN hashtable_grow(t) ELSE t
           i == Probe(u, e.key, Stops(u, e.key))
           found == Holds(u, i, e.key)
           a == hashtable_assign(t, e)
<1>1. a = [ht |-> IF found THEN u ELSE [Store(u, i, e) EXCEPT !.len = @ + 1],
           index |-> i, added |-> ~found]
  BY DEF hashtable_assign
<1>2. /\ Table(u, K, E) /\ u.seed = t.seed /\ Content(u) = Content(t) /\ Keys(u) = Keys(t)
      /\ u.len < u.cap - u.cap \div 2
      /\ u.cap = t.cap * 2 \/ u = t
  <2>1. CASE MustGrow(t)
    <3>1. u = hashtable_grow(t)
      BY <2>1
    <3> QED BY <3>1, Grown
  <2>2. CASE ~MustGrow(t)
    <3>1. u = t
      BY <2>2
    <3> QED BY <3>1, <2>2 DEF MustGrow, Table, IsTable
  <2> QED BY <2>1, <2>2
<1> HIDE DEF u
<1>3. IsTable(u, K, E) /\ Chained(u) /\ KeysDiffer(u) /\ Free(u) # {} /\ u.len \in Nat /\ u.cap \in Nat
      /\ Cardinality(Taken(u)) =< u.len
  BY <1>2, TableRoom DEF Table, IsTable, Counted
<1>4. /\ i \in Indices(u)
      /\ IF e.key \in Keys(u) THEN i \in Used(u) /\ u.ents[i].key = e.key ELSE i \in Free(u)
      /\ \E j \in Indices(u) :
           /\ i = ProbeAt(u, e.key, j)
           /\ \A l \in 0..j - 1 : u.bits[ProbeAt(u, e.key, l)] # STATUS_FREE
  BY <1>3, LookupRight
<1> HIDE DEF i
<1>5. CASE e.key \in Keys(u)
  <2>1. found
    BY <1>4, <1>5 DEF Holds, Used
  <2>2. a = [ht |-> u, index |-> i, added |-> FALSE]
    <3> HIDE DEF found, a
    <3> QED BY <1>1, <2>1, Zenon
  <2>3. a.ht = u /\ a.index = i /\ a.added = FALSE
    BY <2>2
  <2> QED BY <1>2, <1>4, <1>5, <2>3
<1>6. CASE e.key \notin Keys(u)
  <2>1. i \in Free(u) /\ ~found /\ FirstFree(u, e, i)
    BY <1>4, <1>6 DEF Holds, Free, FirstFree, STATUS_USE, STATUS_FREE
  <2> DEFINE s == Store(u, i, e)
  <2>2. /\ IsTable(s, K, E) /\ Chained(s) /\ KeysDiffer(s) /\ IsStored(s, u, e, i)
        /\ s.len = u.len
        /\ Cardinality(Taken(u)) \in Nat
        /\ Cardinality(Taken(s)) = Cardinality(Taken(u)) + 1
    BY <1>3, <1>6, <2>1, StoreRight
  <2>3. a = [ht |-> [s EXCEPT !.len = u.len + 1], index |-> i, added |-> TRUE]
    BY <1>1, <2>1, <2>2
  <2> HIDE DEF s
  <2> DEFINE r == [s EXCEPT !.len = u.len + 1]
  <2>4. /\ IsTable(r, K, E) /\ r.cap = s.cap /\ r.len = u.len + 1 /\ r.ents = s.ents
        /\ r.seed = s.seed /\ Used(r) = Used(s) /\ Taken(r) = Taken(s) /\ Content(r) = Content(s)
        /\ Chained(r) /\ KeysDiffer(r)
    <3>1. u.len + 1 \in Nat
      BY <1>3
    <3> QED BY <3>1, <2>2, Relen
  <2>5. a.ht = r /\ a.index = i /\ a.added = TRUE
    BY <2>3
  <2> HIDE DEF r
  <2>6. Counted(r) /\ r.len =< r.cap - r.cap \div 2
    BY <1>2, <1>3, <2>2, <2>4 DEF Counted, IsStored
  <2>7. Table(r, K, E) /\ r.seed = t.seed
    BY <2>2, <2>4, <2>6, <1>2 DEF Table, IsStored
  <2>8. Content(r) = Content(t) \cup {e}
    BY <1>2, <2>2, <2>4 DEF IsStored
  <2>9. i \in Used(r) /\ r.ents[i] = e
    BY <2>2, <2>4 DEF IsStored
  <2>10. r.cap = t.cap * 2 \/ (r.cap = t.cap /\ \A n \in Used(t) : n \in Used(r) /\ r.ents[n] = t.ents[n])
    BY <1>2, <2>2, <2>4 DEF IsStored
  <2> QED BY <1>2, <1>6, <2>5, <2>7, <2>8, <2>9, <2>10
<1> QED BY <1>5, <1>6

\* A deleted entry stays in the way of the others.
LEMMA Deleted ==
  ASSUME NEW t, NEW K, NEW E, Table(t, K, E), NEW i \in Used(t)
  PROVE  LET s == MarkDeleted(t, i) IN
         /\ Table(s, K, E) /\ s.seed = t.seed
         /\ Keys(s) = Keys(t) \ {t.ents[i].key}
<1> DEFINE s == MarkDeleted(t, i)
<1>1. i \in Indices(t) /\ t.bits[i] = STATUS_USE
  BY DEF Used
<1>2. /\ s = [cap |-> t.cap, len |-> t.len, seed |-> t.seed, ents |-> t.ents, bits |-> s.bits]
      /\ s.cap = t.cap /\ s.len = t.len /\ s.seed = t.seed /\ s.ents = t.ents
      /\ s.bits = [t.bits EXCEPT ![i] = 3]
  <2>1. bit_set2(t.bits, i, STATUS_DEL) = [t.bits EXCEPT ![i] = 3]
    BY <1>1 DEF bit_set2, STATUS_USE, STATUS_DEL, STATUS_FREE
  <2>2. s = [t EXCEPT !.bits = [t.bits EXCEPT ![i] = 3]]
    BY <2>1 DEF MarkDeleted, Table, IsTable
  <2> QED BY <2>2 DEF Table, IsTable
<1> HIDE DEF s
<1>3. Indices(s) = Indices(t)
  BY <1>2 DEF Indices
<1>4. /\ s.bits \in [Indices(t) -> {STATUS_FREE, STATUS_USE, 3}]
      /\ s.bits[i] = 3 /\ \A n \in Indices(t) \ {i} : s.bits[n] = t.bits[n]
  BY <1>1, <1>2 DEF Table, IsTable
<1>5. Used(s) = Used(t) \ {i} /\ Taken(s) = Taken(t)
  BY <1>1, <1>3, <1>4 DEF Used, Taken, STATUS_USE, STATUS_FREE
<1>6. IsTable(s, K, E) /\ Chained(s) /\ KeysDiffer(s)
  <2>1. IsTable(t, K, E) /\ Chained(t) /\ KeysDiffer(t)
    BY DEF Table
  <2>2. \A n \in Used(s) : n \in Used(t) /\ s.ents[n] \in E /\ s.ents[n].key = t.ents[n].key
    BY <2>1, <1>2, <1>5 DEF IsTable
  <2>3. /\ s = [cap |-> s.cap, len |-> s.len, seed |-> s.seed, ents |-> s.ents, bits |-> s.bits]
        /\ s.cap = t.cap /\ s.seed = t.seed /\ s.len \in Nat
        /\ s.ents = [n \in Indices(t) |-> s.ents[n]]
        /\ s.bits \in [Indices(t) -> {STATUS_FREE, STATUS_USE, 3}]
        /\ Used(s) \subseteq Used(t) /\ Taken(s) = Taken(t)
    BY <2>1, <1>2, <1>4, <1>5 DEF IsTable
  <2> QED BY <2>1, <2>2, <2>3, SameKeys
<1>10. Keys(s) = Keys(t) \ {t.ents[i].key}
  <2>1. \A n \in Used(t) : t.ents[n].key = t.ents[i].key => n = i
    BY DEF Table, KeysDiffer
  <2> QED BY <2>1, <1>2, <1>5 DEF Keys, Content
<1>11. Table(s, K, E)
  BY <1>2, <1>5, <1>6 DEF Table, Counted
<1> QED BY <1>2, <1>10, <1>11 DEF s

(***************************************************************************)
(* What the tables start with, and what a lookup answers.                  *)
(***************************************************************************)

LEMMA Initialised ==
  ASSUME NEW K, NEW E, NEW lenhint \in Nat \ {0}, NEW seed \in [K -> Nat]
  PROVE  LET s == hashtable_init(lenhint, seed) IN
         Table(s, K, E) /\ s.seed = seed /\ Content(s) = {} /\ Keys(s) = {}
<1>1. lenhint + 1 + (lenhint + 2) \div 2 \in Nat /\ lenhint + 1 + (lenhint + 2) \div 2 >= 2
  OBVIOUS
<1>2. PICK cap \in Nat : cap = idealcap(lenhint) /\ cap >= 2
  BY <1>1, CeilPow2Right DEF idealcap
<1> DEFINE s == EmptyTable(cap, seed)
<1>3. Table(s, K, E) /\ s.seed = seed /\ Content(s) = {} /\ Keys(s) = {}
  BY <1>2, Emptied
<1> HIDE DEF s
<1>4. hashtable_init(lenhint, seed) = s
  BY <1>2 DEF hashtable_init, s
<1> QED BY <1>3, <1>4

LEMMA Cleared ==
  ASSUME NEW t, NEW K, NEW E, Table(t, K, E)
  PROVE  LET s == hashtable_clear(t) IN Table(s, K, E) /\ Keys(s) = {}
<1>1. t.cap \in Nat /\ t.cap >= 2 /\ t.seed \in [K -> Nat]
  BY DEF Table, IsTable
<1>2. PICK cap \in Nat : cap = t.cap /\ cap >= 2
  BY <1>1
<1>3. PICK seed \in [K -> Nat] : seed = t.seed
  BY <1>1
<1> DEFINE s == EmptyTable(cap, seed)
<1>4. Table(s, K, E) /\ Keys(s) = {}
  BY <1>2, Emptied
<1> HIDE DEF s
<1>5. hashtable_clear(t) = s
  BY <1>2, <1>3 DEF hashtable_clear, s
<1> QED BY <1>4, <1>5

LEMMA Lookups ==
  ASSUME NEW t, NEW K, NEW E, Table(t, K, E), NEW key \in K
  PROVE  LET i == hashtable_lookup(t, key) IN
         /\ key \in Keys(t) => i \in Used(t) /\ i # NotFound /\ t.ents[i].key = key
         /\ key \notin Keys(t) => i = NotFound
<1> DEFINE p == Probe(t, key, Stops(t, key))
<1>1. /\ p \in Indices(t)
      /\ IF key \in Keys(t) THEN p \in Used(t) /\ t.ents[p].key = key ELSE p \in Free(t)
  BY LookupRight, TableRoom DEF Table
<1>2. hashtable_lookup(t, key) = IF p # NotFound /\ Holds(t, p, key) THEN p ELSE NotFound
  BY DEF hashtable_lookup
<1> HIDE DEF p
<1>3. p # NotFound
  BY <1>1 DEF Indices, NotFound, Table, IsTable
<1>4. CASE key \in Keys(t)
  <2>1. Holds(t, p, key)
    BY <1>1, <1>4 DEF Holds, Used
  <2> QED BY <1>1, <1>2, <1>3, <1>4, <2>1
<1>5. CASE key \notin Keys(t)
  <2>1. ~Holds(t, p, key)
    BY <1>1, <1>5 DEF Holds, Free, STATUS_USE, STATUS_FREE
  <2> QED BY <1>2, <1>5, <2>1
<1> QED BY <1>4, <1>5

-----------------------------------------------------------------------------
(***************************************************************************)
(* A table in the hands of one caller is the set of its keys.              *)
(***************************************************************************)

StrEntries == [key : StrKeys]

StrInv ==
  /\ Table(strset, StrKeys, StrEntries)
  /\ Keys(strset) = strs
  /\ strAnswer = TRUE

LEMMA StrInvInit == StrInit => StrInv
<1> SUFFICES ASSUME StrInit PROVE StrInv
  OBVIOUS
<1>1. PICK h \in StrHashes : strset = hashtable_init(StrLenHint, h)
  BY DEF StrInit
<1>2. h \in [StrKeys -> Nat] /\ StrLenHint \in Nat \ {0}
  BY StrSetAssumptions
<1>3. Table(strset, StrKeys, StrEntries) /\ Keys(strset) = {}
  BY <1>1, <1>2, Initialised
<1> QED BY <1>3 DEF StrInit, StrInv

LEMMA StrAssigned ==
  ASSUME StrInv, NEW k \in StrKeys, NEW ok \in BOOLEAN, strset_assign(k, ok)
  PROVE  StrInv'
<1> DEFINE e == [key |-> k]
           a == hashtable_assign(strset, e)
<1>1. e \in StrEntries /\ e.key = k
  BY DEF StrEntries
<1>2. /\ Table(a.ht, StrKeys, StrEntries)
      /\ a.added = (k \notin strs)
      /\ Content(a.ht) = IF k \in strs THEN Content(strset) ELSE Content(strset) \cup {e}
      /\ a.index \in Used(a.ht) /\ a.ht.ents[a.index].key = k
  BY <1>1, AssignRight DEF StrInv
<1>3. /\ strset' = IF ok \/ ~a.added THEN a.ht ELSE MarkDeleted(a.ht, a.index)
      /\ strs' = IF ok \/ ~a.added THEN strs \cup {k} ELSE strs
      /\ strAnswer' = (a.added = (k \notin strs))
  BY DEF strset_assign
<1> HIDE DEF a
<1>4. Keys(a.ht) = strs \cup {k}
  BY <1>1, <1>2 DEF Keys, StrInv
<1>5. strAnswer' = TRUE
  BY <1>2, <1>3
<1>6. CASE ok \/ ~a.added
  BY <1>2, <1>3, <1>4, <1>5, <1>6 DEF StrInv
<1>7. CASE ~(ok \/ ~a.added)
  <2>1. k \notin strs
    BY <1>2, <1>7
  <2>2. strset' = MarkDeleted(a.ht, a.index) /\ strs' = strs
    BY <1>3, <1>7
  <2>3. /\ Table(MarkDeleted(a.ht, a.index), StrKeys, StrEntries)
        /\ Keys(MarkDeleted(a.ht, a.index)) = Keys(a.ht) \ {k}
    BY <1>2, Deleted
  <2> QED BY <1>4, <1>5, <2>1, <2>2, <2>3 DEF StrInv
<1> QED BY <1>6, <1>7

LEMMA StrRemoved ==
  ASSUME StrInv, NEW k \in StrKeys, strset_del(k)
  PROVE  StrInv'
<1> DEFINE i == hashtable_lookup(strset, k)
<1>1. /\ k \in strs => i \in Used(strset) /\ i # NotFound /\ strset.ents[i].key = k
      /\ k \notin strs => i = NotFound
  BY Lookups DEF StrInv
<1>2. /\ strset' = IF i = NotFound THEN strset ELSE MarkDeleted(strset, i)
      /\ strs' = strs \ {k}
      /\ strAnswer' = ((i # NotFound) = (k \in strs))
  BY DEF strset_del
<1> HIDE DEF i
<1>3. strAnswer' = TRUE
  <2>1. (i # NotFound) <=> (k \in strs)
    BY <1>1
  <2>2. ((i # NotFound) = (k \in strs)) = TRUE
    BY <2>1
  <2> QED BY <1>2, <2>2
<1>4. CASE k \in strs
  <2>1. Table(MarkDeleted(strset, i), StrKeys, StrEntries) /\ Keys(MarkDeleted(strset, i)) = strs \ {k}
    BY <1>1, <1>4, Deleted DEF StrInv
  <2> QED BY <1>1, <1>2, <1>3, <1>4, <2>1 DEF StrInv
<1>5. CASE k \notin strs
  BY <1>1, <1>2, <1>3, <1>5 DEF StrInv
<1> QED BY <1>4, <1>5

LEMMA StrEntryRemoved ==
  ASSUME StrInv, NEW k \in StrKeys, hashtable_del_entry(k)
  PROVE  StrInv'
<1> DEFINE i == hashtable_lookup(strset, k)
           r == hashtable_del(strset, k)
<1>1. /\ k \in strs => i \in Used(strset) /\ i # NotFound /\ strset.ents[i].key = k
      /\ k \notin strs => i = NotFound
  BY Lookups DEF StrInv
<1>2. /\ strset.len = 1 => k \in strs
      /\ strset' = r.ht
      /\ strs' = strs \ {k}
      /\ strAnswer' = (r.ok = (k \in strs))
  BY DEF hashtable_del_entry
<1>3. r = IF strset.len = 1 THEN [ht |-> hashtable_clear(strset), ok |-> TRUE]
          ELSE IF i = NotFound THEN [ht |-> strset, ok |-> FALSE]
          ELSE [ht |-> MarkDeleted(strset, i), ok |-> TRUE]
  BY DEF hashtable_del
<1> HIDE DEF i, r
<1>4. CASE strset.len = 1
  <2>1. r.ht = hashtable_clear(strset) /\ r.ok = TRUE /\ k \in strs
    BY <1>2, <1>3, <1>4
  <2>2. Table(hashtable_clear(strset), StrKeys, StrEntries) /\ Keys(hashtable_clear(strset)) = {}
    BY Cleared DEF StrInv
  <2>3. Used(strset) = {i}
    <3>1. i \in Used(strset)
      BY <1>1, <2>1
    <3>2. IsFiniteSet(Taken(strset)) /\ Cardinality(Taken(strset)) \in Nat /\ Cardinality(Taken(strset)) =< 1
      BY <1>4, UsedFinite DEF StrInv, Table, IsTable, Counted, Taken
    <3>3. Used(strset) \subseteq Taken(strset)
      BY DEF Used, Taken, STATUS_USE, STATUS_FREE
    <3>4. IsFiniteSet(Taken(strset) \ {i}) /\ Cardinality(Taken(strset) \ {i}) = Cardinality(Taken(strset)) - 1
      BY <3>1, <3>2, <3>3, FS_RemoveElement
    <3>5. Cardinality(Taken(strset) \ {i}) \in Nat
      BY <3>4, FS_CardinalityType
    <3>6. Cardinality(Taken(strset) \ {i}) = 0
      BY <3>2, <3>4, <3>5
    <3>7. Taken(strset) \ {i} = {}
      BY <3>4, <3>6, FS_EmptySet
    <3> QED BY <3>1, <3>3, <3>7
  <2>4. strs = {k}
    BY <2>1, <2>3, <1>1 DEF StrInv, Keys, Content
  <2> QED BY <1>2, <2>1, <2>2, <2>4 DEF StrInv
<1>5. CASE strset.len # 1 /\ k \in strs
  <2>1. r.ht = MarkDeleted(strset, i) /\ r.ok = TRUE
    BY <1>1, <1>3, <1>5
  <2>2. Table(MarkDeleted(strset, i), StrKeys, StrEntries) /\ Keys(MarkDeleted(strset, i)) = strs \ {k}
    BY <1>1, <1>5, Deleted DEF StrInv
  <2> QED BY <1>2, <1>5, <2>1, <2>2 DEF StrInv
<1>6. CASE strset.len # 1 /\ k \notin strs
  <2>1. r.ht = strset /\ r.ok = FALSE
    BY <1>1, <1>3, <1>6
  <2>2. (r.ok = (k \in strs)) = TRUE
    <3>1. (k \in strs) = FALSE
      BY <1>6
    <3>2. (FALSE = (k \in strs)) = TRUE
      BY <3>1
    <3> QED BY <3>2, <2>1, Zenon
  <2>3. strset' = strset /\ strs' = strs /\ strAnswer' = TRUE
    BY <1>2, <1>6, <2>1, <2>2
  <2> QED BY <2>3 DEF StrInv
<1> QED BY <1>4, <1>5, <1>6

LEMMA StrInvNext == StrInv /\ [StrNext]_strVars => StrInv'
<1> SUFFICES ASSUME StrInv, [StrNext]_strVars PROVE StrInv'
  OBVIOUS
<1>1. ASSUME NEW k \in StrKeys, NEW ok \in BOOLEAN, strset_assign(k, ok) PROVE StrInv'
  BY <1>1, StrAssigned
<1>2. ASSUME NEW k \in StrKeys, strset_del(k) PROVE StrInv'
  BY <1>2, StrRemoved
<1>3. ASSUME NEW k \in StrKeys, hashtable_del_entry(k) PROVE StrInv'
  BY <1>3, StrEntryRemoved
<1>4. CASE strset_clear
  BY <1>4, Cleared DEF strset_clear, StrInv
<1>5. CASE UNCHANGED strVars
  BY <1>5 DEF strVars, StrInv
<1> QED BY <1>1, <1>2, <1>3, <1>4, <1>5 DEF StrNext

(* A hash table is the set of its keys, for any strings, hash functions    *)
(* (so any collisions) and sizes, after any assignments, failed            *)
(* assignments, deletions, growth and clearing; a lookup never runs on     *)
(* forever, as a free entry is left.                                       *)
THEOREM StrSetIsSet == StrSpec => []TableIsSet
<1>1. StrInv => TableIsSet
  <2> SUFFICES ASSUME StrInv PROVE TableIsSet
    OBVIOUS
  <2>1. Free(strset) # {}
    BY TableRoom DEF StrInv
  <2>2. \E i \in DOMAIN strset.bits : strset.bits[i] = STATUS_FREE
    BY <2>1 DEF Free, StrInv, Table, IsTable
  <2>3. \A k \in StrKeys : (hashtable_lookup(strset, k) # NotFound) <=> (k \in strs)
    BY Lookups DEF StrInv
  <2> QED BY <2>2, <2>3 DEF TableIsSet, StrInv
<1> QED BY <1>1, StrInvInit, StrInvNext, PTL DEF StrSpec

-----------------------------------------------------------------------------
(***************************************************************************)
(* Tables that threads share: one value for each key.                      *)
(***************************************************************************)

IEntries == [key : IKeys, value : Nat]
Pairs(C) == {<<e.key, e.value>> : e \in C}
ValuesDiffer(C) == \A e, f \in C : e.value = f.value => e = f

TypesOK ==
  /\ igen \in Nat /\ inext \in Nat /\ idangled \in BOOLEAN
  /\ ipc \in [IThreads -> {"idle", "rlock", "lookup", "lock", "assign", "use"}]
  /\ ikey \in [IThreads -> IKeys \cup {NoKey}]
  /\ imode \in [IThreads -> IModes \cup {"none"}]
  /\ ient \in [IThreads -> [gen : Nat, index : Int]]

\* An address of the table as it is now is that of the entry that was asked for.
AddressOK(t) ==
  /\ ient[t].gen =< igen
  /\ ient[t].gen = igen =>
       ient[t].index \in Used(itable) /\ itable.ents[ient[t].index].key = ikey[t]

IInv ==
  /\ TypesOK
  /\ Table(itable, IKeys, IEntries)
  /\ ValuesDiffer(Content(itable))
  /\ \A e \in Content(itable) : e.value < inext
  /\ ~idangled => igiven \subseteq Pairs(Content(itable))
  /\ \A t \in IThreads : ipc[t] # "idle" => ikey[t] \in IKeys
  /\ \A t \in IThreads : ipc[t] = "use" => AddressOK(t)

\* The loop of sym_init, after n symbols.
PredefinedUpto(empty, n, g) ==
  g = [m \in 0..n |-> IF m = 0 THEN empty ELSE hashtable_assign(g[m - 1], Predefined(m)).ht]

LEMMA PredefinedExists ==
  ASSUME NEW empty, NEW N \in Nat
  PROVE  \E g : PredefinedUpto(empty, N, g)
<1> DEFINE Next(m, new) == hashtable_assign(new, Predefined(m)).ht
           S == {k \in 0..N : \E g : PredefinedUpto(empty, k, g)}
<1>1. \A n, g : PredefinedUpto(empty, n, g) <=>
        g = [m \in 0..n |-> IF m = 0 THEN empty ELSE Next(m, g[m - 1])]
  BY DEF PredefinedUpto
<1> HIDE DEF Next
<1>2. 0 \in S
  <2> DEFINE g == [m \in 0..0 |-> empty]
  <2>1. g = [m \in 0..0 |-> IF m = 0 THEN empty ELSE Next(m, g[m - 1])]
    OBVIOUS
  <2>2. PredefinedUpto(empty, 0, g)
    BY <2>1, <1>1
  <2> QED BY <2>2
<1>3. ASSUME NEW k \in 1..N, k - 1 \in S
      PROVE  k \in S
  <2>1. PICK g : PredefinedUpto(empty, k - 1, g)
    BY <1>3
  <2> DEFINE h == [m \in 0..k |-> IF m = k THEN Next(k, g[k - 1]) ELSE g[m]]
  <2>2. ASSUME NEW m \in 0..k
        PROVE  h[m] = IF m = 0 THEN empty ELSE Next(m, h[m - 1])
    <3>1. CASE m = k
      <4>1. h[m] = Next(k, g[k - 1]) /\ h[m - 1] = g[k - 1] /\ m # 0
        BY <3>1
      <4> QED BY <4>1, <3>1
    <3>2. CASE m # k
      <4>1. m \in 0..k - 1 /\ h[m] = g[m]
        BY <3>2
      <4>2. m # 0 => m - 1 \in 0..k /\ m - 1 # k /\ h[m - 1] = g[m - 1]
        BY <3>2
      <4>3. g[m] = IF m = 0 THEN empty ELSE Next(m, g[m - 1])
        BY <4>1, <2>1, <1>1
      <4> QED BY <4>1, <4>2, <4>3
    <3> QED BY <3>1, <3>2
  <2>3. PredefinedUpto(empty, k, h)
    <3>1. h = [m \in 0..k |-> IF m = 0 THEN empty ELSE Next(m, h[m - 1])]
      BY <2>2
    <3> QED BY <3>1, <1>1
  <2> QED BY <2>3
<1>4. 0..N \subseteq S
  BY <1>2, <1>3, Induction
<1> QED BY <1>4

LEMMA AllPredefinedAdded ==
  ASSUME NEW empty, Table(empty, IKeys, IEntries), Content(empty) = {}
  PROVE  /\ Table(AllPredefined(empty), IKeys, IEntries)
         /\ Content(AllPredefined(empty)) = {Predefined(n) : n \in 1..Len(IPredefined)}
<1> DEFINE N == Len(IPredefined)
           g == CHOOSE g : PredefinedUpto(empty, N, g)
<1>1. N \in Nat /\ \A n \in 1..N : IPredefined[n] \in IKeys
  BY InternAssumptions
<1>2. PredefinedUpto(empty, N, g)
  BY <1>1, PredefinedExists
<1>3. AllPredefined(empty) = g[N]
  BY DEF AllPredefined, PredefinedUpto
<1>4. \A m, n \in 1..N : IPredefined[m] = IPredefined[n] => m = n
  BY InternAssumptions
<1> HIDE DEF g, N
<1> DEFINE S == {n \in 0..N : /\ Table(g[n], IKeys, IEntries)
                              /\ Content(g[n]) = {Predefined(m) : m \in 1..n}}
<1>5. 0 \in S
  <2>1. g[0] = empty
    BY <1>1, <1>2 DEF PredefinedUpto
  <2>2. {Predefined(m) : m \in 1..0} = {}
    OBVIOUS
  <2> QED BY <1>1, <2>1, <2>2
<1>6. ASSUME NEW n \in 1..N, n - 1 \in S
      PROVE  n \in S
  <2>1. g[n] = hashtable_assign(g[n - 1], Predefined(n)).ht
    BY <1>1, <1>2 DEF PredefinedUpto
  <2>2. Table(g[n - 1], IKeys, IEntries) /\ Content(g[n - 1]) = {Predefined(m) : m \in 1..n - 1}
    BY <1>6
  <2>3. /\ Predefined(n) \in IEntries /\ Predefined(n).key \in IKeys
        /\ \A m \in 1..N : Predefined(m).key = IPredefined[m]
    BY <1>1 DEF Predefined, IEntries
  <2>4. Predefined(n).key \notin Keys(g[n - 1])
    <3> SUFFICES ASSUME NEW m \in 1..n - 1, Predefined(m).key = Predefined(n).key
                 PROVE  FALSE
      BY <2>2 DEF Keys
    <3>1. m \in 1..N /\ m # n
      BY <1>1
    <3> QED BY <3>1, <2>3, <1>4
  <2> DEFINE old == g[n - 1]
             a == hashtable_assign(old, Predefined(n))
  <2>5. /\ Table(a.ht, IKeys, IEntries)
        /\ Content(a.ht) = IF Predefined(n).key \in Keys(old) THEN Content(old)
                           ELSE Content(old) \cup {Predefined(n)}
    <3> HIDE DEF old
    <3>1. Table(old, IKeys, IEntries)
      BY <2>2 DEF old
    <3> QED BY <3>1, <2>3, AssignRight
  <2>6. {Predefined(m) : m \in 1..n} = {Predefined(m) : m \in 1..n - 1} \cup {Predefined(n)}
    BY <1>1
  <2>7. Table(g[n], IKeys, IEntries) /\ Content(g[n]) = {Predefined(m) : m \in 1..n}
    BY <2>1, <2>2, <2>4, <2>5, <2>6
  <2> QED BY <2>7
<1>7. 0..N \subseteq S
  BY <1>1, <1>5, <1>6, Induction
<1>8. N \in S
  BY <1>1, <1>7
<1> QED BY <1>3, <1>8 DEF N

LEMMA IInvInit == InternInit => IInv
<1> SUFFICES ASSUME InternInit PROVE IInv
  OBVIOUS
<1>1. PICK h \in IHashes : itable = AllPredefined(hashtable_init(ILenHint, h))
  BY DEF InternInit
<1>2. h \in [IKeys -> Nat] /\ ILenHint \in Nat \ {0} /\ Len(IPredefined) \in Nat
  BY InternAssumptions
<1> DEFINE empty == hashtable_init(ILenHint, h)
<1>3. Table(empty, IKeys, IEntries) /\ Content(empty) = {}
  BY <1>2, Initialised
<1> HIDE DEF empty
<1>4. /\ Table(itable, IKeys, IEntries)
      /\ Content(itable) = {Predefined(n) : n \in 1..Len(IPredefined)}
  BY <1>1, <1>3, AllPredefinedAdded DEF empty
<1>5. \A n : Predefined(n).key = IPredefined[n] /\ Predefined(n).value = n
  BY DEF Predefined
<1>6. ValuesDiffer(Content(itable))
  BY <1>4, <1>5 DEF ValuesDiffer
<1>7. \A e \in Content(itable) : e.value < inext
  BY <1>2, <1>4, <1>5 DEF InternInit
<1>8. igiven \subseteq Pairs(Content(itable))
  <2>1. igiven = {<<IPredefined[n], n>> : n \in 1..Len(IPredefined)}
    BY InternAssumptions DEF InternInit
  <2>2. ASSUME NEW n \in 1..Len(IPredefined)
        PROVE  <<IPredefined[n], n>> \in Pairs(Content(itable))
    <3>1. Predefined(n) \in Content(itable)
      BY <1>4
    <3> QED BY <3>1, <1>5 DEF Pairs
  <2> QED BY <2>1, <2>2
<1>9. TypesOK
  <2>1. Nowhere \in [gen : Nat, index : Int]
    BY DEF Nowhere, NotFound
  <2>2. ient \in [IThreads -> [gen : Nat, index : Int]]
    BY <2>1 DEF InternInit
  <2>3. ikey \in [IThreads -> IKeys \cup {NoKey}] /\ imode \in [IThreads -> IModes \cup {"none"}]
    BY DEF InternInit
  <2>4. ipc \in [IThreads -> {"idle", "rlock", "lookup", "lock", "assign", "use"}]
    BY DEF InternInit
  <2>5. igen \in Nat /\ inext \in Nat /\ idangled \in BOOLEAN
    <3>1. igen = 1 /\ inext = Len(IPredefined) + 1 /\ idangled = FALSE
      BY DEF InternInit
    <3>2. igen \in Nat /\ inext \in Nat
      BY <1>2, <3>1
    <3>3. idangled \in BOOLEAN
      BY <3>1, Zenon
    <3> QED BY <3>2, <3>3, Zenon
  <2> QED BY <2>2, <2>3, <2>4, <2>5 DEF TypesOK
<1> QED BY <1>4, <1>6, <1>7, <1>8, <1>9 DEF InternInit, IInv

\* A step that leaves the table alone, of thread t.
LEMMA ISameTable ==
  ASSUME IInv, NEW t \in IThreads, TypesOK', UNCHANGED <<itable, igen, inext, igiven, idangled>>,
         ipc'[t] # "idle" => ikey'[t] \in IKeys,
         ipc'[t] = "use" => AddressOK(t)',
         \A u \in IThreads \ {t} : ipc'[u] = ipc[u] /\ ikey'[u] = ikey[u] /\ ient'[u] = ient[u]
  PROVE  IInv'
<1>1. \A u \in IThreads : ipc'[u] # "idle" => ikey'[u] \in IKeys
  BY DEF IInv
<1>2. ASSUME NEW u \in IThreads, ipc'[u] = "use"
      PROVE  AddressOK(u)'
  <2>1. CASE u = t
    BY <1>2, <2>1
  <2>2. CASE u # t
    <3>1. AddressOK(u)
      BY <1>2, <2>2 DEF IInv
    <3> QED BY <2>2, <3>1 DEF AddressOK
  <2> QED BY <2>1, <2>2
<1>3. /\ Table(itable, IKeys, IEntries)' /\ ValuesDiffer(Content(itable))'
      /\ (\A e \in Content(itable) : e.value < inext)'
      /\ (~idangled => igiven \subseteq Pairs(Content(itable)))'
  BY DEF IInv
<1> QED BY <1>1, <1>2, <1>3 DEF IInv

LEMMA ICallInv ==
  ASSUME IInv, NEW t \in IThreads, NEW k \in IKeys, NEW mode \in IModes, InternCall(t, k, mode)
  PROVE  IInv'
<1>1. /\ ikey' = [ikey EXCEPT ![t] = k] /\ imode' = [imode EXCEPT ![t] = mode]
      /\ ipc' = [ipc EXCEPT ![t] = IF mode = "add" THEN "lock" ELSE "rlock"]
      /\ UNCHANGED <<itable, igen, inext, igiven, idangled>> /\ ient' = ient
  BY DEF InternCall
<1>2. TypesOK'
  BY <1>1 DEF IInv, TypesOK
<1>3. ikey'[t] = k /\ ipc'[t] # "use"
  BY <1>1 DEF IInv, TypesOK
<1>4. \A u \in IThreads \ {t} : ipc'[u] = ipc[u] /\ ikey'[u] = ikey[u] /\ ient'[u] = ient[u]
  BY <1>1 DEF IInv, TypesOK
<1> QED BY <1>1, <1>2, <1>3, <1>4, ISameTable

\* The steps that take a lock.
LEMMA ILockInv ==
  ASSUME IInv, NEW t \in IThreads, ReadLock(t) \/ WriteLock(t)
  PROVE  IInv'
<1>1. /\ ipc' = [ipc EXCEPT ![t] = "lookup"] \/ ipc' = [ipc EXCEPT ![t] = "assign"]
      /\ UNCHANGED <<itable, igen, inext, igiven, idangled>>
      /\ ikey' = ikey /\ imode' = imode /\ ient' = ient
  BY DEF ReadLock, WriteLock
<1>2. ipc[t] # "idle"
  BY DEF ReadLock, WriteLock
<1>3. TypesOK'
  BY <1>1 DEF IInv, TypesOK
<1>4. ikey'[t] \in IKeys /\ ipc'[t] # "use"
  BY <1>1, <1>2 DEF IInv, TypesOK
<1>5. \A u \in IThreads \ {t} : ipc'[u] = ipc[u] /\ ikey'[u] = ikey[u] /\ ient'[u] = ient[u]
  BY <1>1 DEF IInv, TypesOK
<1> QED BY <1>1, <1>3, <1>4, <1>5, ISameTable

LEMMA ILookupInv ==
  ASSUME IInv, NEW t \in IThreads, Lookup(t)
  PROVE  IInv'
<1> DEFINE i == hashtable_lookup(itable, ikey[t])
           pc == IF i # NotFound THEN "use" ELSE IF imode[t] = "intern" THEN "lock" ELSE "idle"
<1>1. /\ ipc[t] = "lookup"
      /\ ient' = [ient EXCEPT ![t] = AddressOf(i)]
      /\ ipc' = [ipc EXCEPT ![t] = pc]
      /\ UNCHANGED <<itable, igen, inext, igiven, idangled>> /\ ikey' = ikey /\ imode' = imode
  BY DEF Lookup
<1>2. ikey[t] \in IKeys
  BY <1>1 DEF IInv
<1>3. IF ikey[t] \in Keys(itable) THEN i \in Used(itable) /\ i # NotFound /\ itable.ents[i].key = ikey[t]
                                  ELSE i = NotFound
  BY <1>2, Lookups DEF IInv
<1> HIDE DEF i
<1>4. AddressOf(i) \in [gen : Nat, index : Int]
  <2>1. i # NotFound => i \in Int
    BY <1>3 DEF Used, Indices
  <2>2. Nowhere \in [gen : Nat, index : Int]
    BY DEF Nowhere, NotFound
  <2> QED BY <2>1, <2>2 DEF AddressOf, IInv, TypesOK
<1>5. pc \in {"use", "lock", "idle"} /\ (pc = "use" => i # NotFound)
  OBVIOUS
<1> HIDE DEF pc
<1>6. TypesOK'
  <2>1. ipc' \in [IThreads -> {"idle", "rlock", "lookup", "lock", "assign", "use"}]
    BY <1>1, <1>5 DEF IInv, TypesOK
  <2>2. ient' \in [IThreads -> [gen : Nat, index : Int]]
    BY <1>1, <1>4 DEF IInv, TypesOK
  <2> QED BY <1>1, <2>1, <2>2 DEF IInv, TypesOK
<1>7. ipc'[t] = pc /\ ient'[t] = AddressOf(i)
  BY <1>1 DEF IInv, TypesOK
<1>8. ipc'[t] = "use" => AddressOK(t)'
  <2> SUFFICES ASSUME pc = "use" PROVE AddressOK(t)'
    BY <1>7
  <2>1. ient'[t] = [gen |-> igen, index |-> i]
    BY <1>5, <1>7 DEF AddressOf
  <2> QED BY <1>1, <1>3, <1>5, <2>1 DEF AddressOK, IInv, TypesOK
<1>9. \A u \in IThreads \ {t} : ipc'[u] = ipc[u] /\ ikey'[u] = ikey[u] /\ ient'[u] = ient[u]
  BY <1>1 DEF IInv, TypesOK
<1> QED BY <1>1, <1>2, <1>6, <1>8, <1>9, ISameTable

LEMMA IAssignInv ==
  ASSUME IInv, NEW t \in IThreads, Assign(t)
  PROVE  IInv'
<1> DEFINE e == [key |-> ikey[t], value |-> inext]
           a == hashtable_assign(itable, e)
           known == ikey[t] \in Keys(itable)
<1>1. /\ ipc[t] = "assign"
      /\ itable' = a.ht
      /\ igen' = IF a.ht.cap = itable.cap THEN igen ELSE igen + 1
      /\ inext' = IF a.added THEN inext + 1 ELSE inext
      /\ ient' = [ient EXCEPT ![t] = [gen |-> igen', index |-> a.index]]
      /\ ipc' = [ipc EXCEPT ![t] = "use"]
      /\ ikey' = ikey /\ imode' = imode /\ igiven' = igiven /\ idangled' = idangled
  BY DEF Assign, Assigned
<1>2. ikey[t] \in IKeys
  BY <1>1 DEF IInv
<1>3. e \in IEntries /\ e.key = ikey[t] /\ e.value = inext
  BY <1>2 DEF IEntries, IInv, TypesOK
<1>4. /\ Table(a.ht, IKeys, IEntries)
      /\ a.added = (ikey[t] \notin Keys(itable))
      /\ Content(a.ht) = IF ikey[t] \in Keys(itable) THEN Content(itable) ELSE Content(itable) \cup {e}
      /\ a.index \in Used(a.ht) /\ a.ht.ents[a.index].key = ikey[t]
      /\ \/ a.ht.cap = itable.cap * 2
         \/ a.ht.cap = itable.cap /\ \A n \in Used(itable) : n \in Used(a.ht) /\ a.ht.ents[n] = itable.ents[n]
  BY <1>2, <1>3, AssignRight DEF IInv
<1> HIDE DEF a, e
<1>5. /\ igen \in Nat /\ inext \in Nat /\ itable.cap \in Nat /\ itable.cap >= 2
      /\ igen' \in Nat /\ igen =< igen' /\ inext' \in Nat
  BY <1>1 DEF IInv, TypesOK, Table, IsTable
<1>6. IF known THEN inext' = inext ELSE inext' = inext + 1
  BY <1>1, <1>4
<1>7. /\ ValuesDiffer(Content(a.ht))
      /\ \A f \in Content(a.ht) : f.value < inext'
  <2>1. \A f \in Content(itable) : f.value < inext /\ f.value \in Nat
    BY DEF IInv, Table, IsTable, Content, IEntries
  <2>2. CASE known
    BY <2>2, <1>4, <1>6, <2>1 DEF IInv
  <2>3. CASE ~known
    <3>1. Content(a.ht) = Content(itable) \cup {e} /\ inext' = inext + 1
      BY <2>3, <1>4, <1>6
    <3>2. \A f \in Content(itable) : f.value # e.value
      BY <1>3, <1>5, <2>1
    <3>3. ValuesDiffer(Content(a.ht))
      BY <3>1, <3>2 DEF ValuesDiffer, IInv
    <3> QED BY <1>3, <1>5, <2>1, <3>1, <3>3
  <2> QED BY <2>2, <2>3
<1>8. Content(itable) \subseteq Content(a.ht)
  BY <1>4
<1>9. ~idangled' => igiven' \subseteq Pairs(Content(itable))'
  BY <1>1, <1>8 DEF IInv, Pairs
<1>10. a.index \in Int /\ ient'[t] = [gen |-> igen', index |-> a.index]
  BY <1>1, <1>4 DEF Used, Indices, IInv, TypesOK
<1>11. TypesOK'
  <2>1. ipc' \in [IThreads -> {"idle", "rlock", "lookup", "lock", "assign", "use"}]
    BY <1>1 DEF IInv, TypesOK
  <2>2. ient' \in [IThreads -> [gen : Nat, index : Int]]
    BY <1>1, <1>5, <1>10 DEF IInv, TypesOK
  <2> QED BY <1>1, <1>5, <2>1, <2>2 DEF IInv, TypesOK
<1>12. \A u \in IThreads : ipc'[u] # "idle" => ikey'[u] \in IKeys
  BY <1>1, <1>2 DEF IInv, TypesOK
<1>13. ASSUME NEW u \in IThreads, ipc'[u] = "use"
       PROVE  AddressOK(u)'
  <2>1. CASE u = t
    BY <1>1, <1>4, <1>5, <1>10, <2>1 DEF AddressOK
  <2>2. CASE u # t
    <3>1. ipc[u] = "use" /\ ient'[u] = ient[u] /\ ikey'[u] = ikey[u] /\ ient[u].gen \in Nat
      BY <1>1, <1>13, <2>2 DEF IInv, TypesOK
    <3>2. AddressOK(u)
      BY <3>1 DEF IInv
    <3>3. CASE a.ht.cap = itable.cap
      <4>1. igen' = igen /\ \A n \in Used(itable) : n \in Used(a.ht) /\ a.ht.ents[n] = itable.ents[n]
        BY <3>3, <1>1, <1>4, <1>5
      <4> QED BY <4>1, <3>1, <3>2, <1>1 DEF AddressOK
    <3>4. CASE a.ht.cap # itable.cap
      <4>1. ient[u].gen < igen'
        BY <3>4, <3>1, <3>2, <1>1, <1>5 DEF AddressOK
      <4> QED BY <4>1, <3>1, <1>5 DEF AddressOK
    <3> QED BY <3>3, <3>4
  <2> QED BY <2>1, <2>2
<1> QED BY <1>1, <1>4, <1>7, <1>9, <1>11, <1>12, <1>13 DEF IInv

\* The pair that a call returns is one of the table, if the entry's address is.
LEMMA IReturnInv ==
  ASSUME IInv, NEW t \in IThreads, NEW v, Return(t, v), ipc[t] = "use",
         idangled' \in BOOLEAN, idangled' = FALSE => idangled = FALSE,
         idangled' = FALSE => <<ikey[t], v>> \in Pairs(Content(itable))
  PROVE  IInv'
<1>1. /\ igiven' = igiven \cup {<<ikey[t], v>>}
      /\ ipc' = [ipc EXCEPT ![t] = "idle"] /\ ient' = [ient EXCEPT ![t] = Nowhere]
      /\ ikey' = [ikey EXCEPT ![t] = NoKey] /\ imode' = [imode EXCEPT ![t] = "none"]
      /\ itable' = itable /\ igen' = igen /\ inext' = inext
  BY DEF Return
<1>2. Nowhere \in [gen : Nat, index : Int]
  BY DEF Nowhere, NotFound
<1>3. TypesOK'
  <2>1. ipc' \in [IThreads -> {"idle", "rlock", "lookup", "lock", "assign", "use"}]
    BY <1>1 DEF IInv, TypesOK
  <2>2. ient' \in [IThreads -> [gen : Nat, index : Int]]
    BY <1>1, <1>2 DEF IInv, TypesOK
  <2>3. ikey' \in [IThreads -> IKeys \cup {NoKey}] /\ imode' \in [IThreads -> IModes \cup {"none"}]
    BY <1>1 DEF IInv, TypesOK
  <2> QED BY <1>1, <2>1, <2>2, <2>3 DEF IInv, TypesOK
<1>4. /\ ipc'[t] = "idle"
      /\ \A u \in IThreads \ {t} : ipc'[u] = ipc[u] /\ ikey'[u] = ikey[u] /\ ient'[u] = ient[u]
  BY <1>1 DEF IInv, TypesOK
<1>5. \A u \in IThreads : ipc'[u] # "idle" => ikey'[u] \in IKeys
  BY <1>4 DEF IInv
<1>6. ASSUME NEW u \in IThreads, ipc'[u] = "use"
      PROVE  AddressOK(u)'
  <2>1. u # t /\ ipc[u] = "use"
    BY <1>4, <1>6
  <2>2. AddressOK(u)
    BY <2>1 DEF IInv
  <2> QED BY <1>1, <1>4, <2>1, <2>2 DEF AddressOK
<1>7. ~idangled' => igiven' \subseteq Pairs(Content(itable))
  BY <1>1 DEF IInv
<1> QED BY <1>1, <1>3, <1>5, <1>6, <1>7 DEF IInv

LEMMA IUseInv ==
  ASSUME IInv, NEW t \in IThreads, Use(t)
  PROVE  IInv'
<1> DEFINE n == ient[t].index
           v == itable.ents[n].value
<1>1. ipc[t] = "use" /\ ient[t].gen = igen /\ Return(t, v) /\ idangled' = idangled
  BY DEF Use
<1>2. n \in Used(itable) /\ itable.ents[n].key = ikey[t]
  BY <1>1 DEF IInv, AddressOK
<1>3. itable.ents[n] \in Content(itable)
  BY <1>2 DEF Content
<1>4. <<ikey[t], v>> \in Pairs(Content(itable))
  BY <1>2, <1>3 DEF Pairs
<1>5. idangled' \in BOOLEAN /\ (idangled' = FALSE => idangled = FALSE)
  BY <1>1 DEF IInv, TypesOK
<1> HIDE DEF v
<1> QED BY <1>1, <1>4, <1>5, IReturnInv

LEMMA IUseFreedInv ==
  ASSUME IInv, NEW t \in IThreads, UseFreed(t)
  PROVE  IInv'
<1>1. ipc[t] = "use" /\ idangled' = TRUE /\ \E v : Return(t, v)
  BY DEF UseFreed
<1>2. PICK v : Return(t, v)
  BY <1>1
<1> QED BY <1>1, <1>2, IReturnInv

LEMMA IInvNext == IInv /\ [InternNext]_iVars => IInv'
<1> SUFFICES ASSUME IInv, [InternNext]_iVars PROVE IInv'
  OBVIOUS
<1>1. ASSUME NEW t \in IThreads, NEW k \in IKeys, NEW mode \in IModes, InternCall(t, k, mode)
      PROVE  IInv'
  BY <1>1, ICallInv
<1>2. ASSUME NEW t \in IThreads, ReadLock(t) \/ WriteLock(t) PROVE IInv'
  BY <1>2, ILockInv
<1>3. ASSUME NEW t \in IThreads, Lookup(t) PROVE IInv'
  BY <1>3, ILookupInv
<1>4. ASSUME NEW t \in IThreads, Assign(t) PROVE IInv'
  BY <1>4, IAssignInv
<1>5. ASSUME NEW t \in IThreads, Use(t) PROVE IInv'
  BY <1>5, IUseInv
<1>6. ASSUME NEW t \in IThreads, UseFreed(t) PROVE IInv'
  BY <1>6, IUseFreedInv
<1>7. CASE UNCHANGED iVars
  BY <1>7 DEF iVars, IInv, TypesOK, AddressOK
<1> QED BY <1>1, <1>2, <1>3, <1>4, <1>5, <1>6, <1>7 DEF InternNext

(* Symbols, type ids and type functions: any number of threads that intern *)
(* any keys get equal values for equal keys only, through any collisions   *)
(* and growth of the table, until one of them reads an entry of memory     *)
(* that was freed after it had released the lock.                          *)
THEOREM ValuesIdentifyKeys == InternSpec => []OneValuePerKey
<1>1. IInv => OneValuePerKey
  <2> SUFFICES ASSUME IInv, ~idangled, NEW p \in igiven, NEW q \in igiven
               PROVE  p[1] = q[1] <=> p[2] = q[2]
    BY DEF OneValuePerKey
  <2>1. PICK e \in Content(itable) : p = <<e.key, e.value>>
    BY DEF IInv, Pairs
  <2>2. PICK f \in Content(itable) : q = <<f.key, f.value>>
    BY DEF IInv, Pairs
  <2>3. e.key = f.key => e = f
    BY DEF IInv, Table, KeysDiffer, Content
  <2>4. e.value = f.value => e = f
    BY DEF IInv, ValuesDiffer
  <2> QED BY <2>1, <2>2, <2>3, <2>4
<1> QED BY <1>1, IInvInit, IInvNext, PTL DEF InternSpec

-----------------------------------------------------------------------------
(***************************************************************************)
(* A map as a hash table of the names of its keys.                         *)
(***************************************************************************)

Vals == MValues \cup {NULL} \cup {MNodes[k] : k \in MKeys}
Names(kind) == {Name(k, kind) : k \in MKeys}
NamedEntries(kind) == [key : Names(kind), value : Vals]

IsMap(m) ==
  /\ m = [cap |-> m.cap, len |-> m.len, seed |-> m.seed, ents |-> m.ents]
  /\ m.cap \in Nat /\ m.cap >= 4 /\ m.len \in Nat /\ m.seed \in MHashes
  /\ m.ents \in [0..m.cap-1 -> [key : MKeys \cup {EMPTY, DELMARK}, value : Vals]]

Filled(m) == {i \in 0..m.cap-1 : m.ents[i].key # EMPTY}
NoMarks(m) == \A i \in 0..m.cap-1 : m.ents[i].key # DELMARK

Named(ent, kind) == [key |-> Name(ent.key, kind), value |-> ent.value]

AsTable(m, kind) ==
  [cap |-> m.cap, len |-> 0, seed |-> [n \in Names(kind) |-> m.seed[n]],
   ents |-> [i \in 0..m.cap-1 |-> Named(m.ents[i], kind)],
   bits |-> [i \in 0..m.cap-1 |-> IF m.ents[i].key = EMPTY THEN STATUS_FREE
                                  ELSE IF m.ents[i].key = DELMARK THEN 3 ELSE STATUS_USE]]

LEMMA MarksAreNoKeys ==
  /\ EMPTY \notin MKeys /\ DELMARK \notin MKeys /\ EMPTY # DELMARK
  /\ \A key \in MKeys \cup {EMPTY, DELMARK} : key \notin {EMPTY, DELMARK} <=> key \in MKeys
<1>1. EMPTY # DELMARK
  BY DEF EMPTY, DELMARK
<1> QED BY <1>1, MapAssumptions

LEMMA AsTableFacts ==
  ASSUME NEW m, NEW kind, IsMap(m)
  PROVE  LET t == AsTable(m, kind) IN
         /\ IsTable(t, Names(kind), NamedEntries(kind))
         /\ t.cap = m.cap /\ t.len = 0 /\ Indices(t) = 0..m.cap-1
         /\ \A n \in Names(kind) : t.seed[n] = m.seed[n]
         /\ \A i \in 0..m.cap-1 : t.ents[i] = Named(m.ents[i], kind)
         /\ \A i \in 0..m.cap-1 :
              t.bits[i] = IF m.ents[i].key = EMPTY THEN STATUS_FREE
                          ELSE IF m.ents[i].key = DELMARK THEN 3 ELSE STATUS_USE
         /\ Used(t) = Live(m) /\ Taken(t) = Filled(m)
         /\ Free(t) = {i \in 0..m.cap-1 : m.ents[i].key = EMPTY}
         /\ \A i \in 0..m.cap-1 : i \in Live(m) <=> m.ents[i].key \in MKeys
<1> DEFINE t == AsTable(m, kind)
<1>1. /\ t = [cap |-> t.cap, len |-> t.len, seed |-> t.seed, ents |-> t.ents, bits |-> t.bits]
      /\ t.cap = m.cap /\ t.len = 0 /\ t.seed = [n \in Names(kind) |-> m.seed[n]]
      /\ t.ents = [i \in 0..m.cap-1 |-> Named(m.ents[i], kind)]
      /\ t.bits = [i \in 0..m.cap-1 |-> IF m.ents[i].key = EMPTY THEN STATUS_FREE
                                        ELSE IF m.ents[i].key = DELMARK THEN 3 ELSE STATUS_USE]
  BY DEF AsTable
<1> HIDE DEF t
<1>2. Indices(t) = 0..m.cap-1
  BY <1>1 DEF Indices
<1>3. /\ \A i \in 0..m.cap-1 : m.ents[i].key \in MKeys \cup {EMPTY, DELMARK} /\ m.ents[i].value \in Vals
      /\ \A i \in 0..m.cap-1 : i \in Live(m) <=> m.ents[i].key \in MKeys
  <2>1. \A i \in 0..m.cap-1 : m.ents[i].key \in MKeys \cup {EMPTY, DELMARK} /\ m.ents[i].value \in Vals
    BY DEF IsMap
  <2> QED BY <2>1, MarksAreNoKeys DEF Live, IsLive
<1>4. /\ \A i \in 0..m.cap-1 : t.ents[i] = Named(m.ents[i], kind)
      /\ \A i \in 0..m.cap-1 :
           t.bits[i] = IF m.ents[i].key = EMPTY THEN STATUS_FREE
                       ELSE IF m.ents[i].key = DELMARK THEN 3 ELSE STATUS_USE
  BY <1>1
<1>5. Used(t) = Live(m) /\ Taken(t) = Filled(m) /\ Free(t) = {i \in 0..m.cap-1 : m.ents[i].key = EMPTY}
  <2>1. Used(t) = Live(m)
    BY <1>2, <1>3, <1>4, MarksAreNoKeys DEF Used, Live, IsLive, STATUS_FREE, STATUS_USE
  <2>2. Taken(t) = Filled(m)
    BY <1>2, <1>3, <1>4, MarksAreNoKeys DEF Taken, Filled, STATUS_FREE, STATUS_USE
  <2>3. Free(t) = {i \in 0..m.cap-1 : m.ents[i].key = EMPTY}
    BY <1>2, <1>3, <1>4, MarksAreNoKeys DEF Free, STATUS_FREE, STATUS_USE
  <2> QED BY <2>1, <2>2, <2>3
<1>6. t.seed \in [Names(kind) -> Nat]
  <2>1. \A k \in MKeys : m.seed[k] \in Nat /\ m.seed[MBytes[k]] \in Nat
    BY MapAssumptions DEF IsMap
  <2>2. \A n \in Names(kind) : m.seed[n] \in Nat
    BY <2>1 DEF Names, Name
  <2> QED BY <2>2, <1>1
<1>7. t.bits \in [Indices(t) -> {STATUS_FREE, STATUS_USE, 3}]
  BY <1>1, <1>2
<1>8. \A i \in Used(t) : t.ents[i] \in NamedEntries(kind) /\ t.ents[i].key \in Names(kind)
  <2> SUFFICES ASSUME NEW i \in Live(m)
               PROVE  t.ents[i] \in NamedEntries(kind) /\ t.ents[i].key \in Names(kind)
    BY <1>5
  <2>1. i \in 0..m.cap-1
    BY DEF Live
  <2>2. m.ents[i].key \in MKeys /\ m.ents[i].value \in Vals /\ t.ents[i] = Named(m.ents[i], kind)
    BY <2>1, <1>3, <1>4
  <2>3. Name(m.ents[i].key, kind) \in Names(kind)
    BY <2>2 DEF Names
  <2> QED BY <2>2, <2>3 DEF Named, NamedEntries
<1>9. IsTable(t, Names(kind), NamedEntries(kind))
  <2>1. t.cap \in Nat /\ t.cap >= 2 /\ t.len \in Nat
    BY <1>1 DEF IsMap
  <2>2. t.ents = [i \in Indices(t) |-> t.ents[i]]
    BY <1>1, <1>2
  <2> QED BY <1>1, <1>6, <1>7, <1>8, <2>1, <2>2 DEF IsTable
<1>10. \A n \in Names(kind) : t.seed[n] = m.seed[n]
  BY <1>1
<1> QED BY <1>1, <1>2, <1>3, <1>4, <1>5, <1>9, <1>10 DEF t

LEMMA FilledFinite ==
  ASSUME NEW m, IsMap(m), NEW S, S \subseteq 0..m.cap-1
  PROVE  IsFiniteSet(S) /\ Cardinality(S) \in Nat /\ Cardinality(S) =< m.cap
<1>1. m.cap \in Nat /\ S \subseteq Indices(m)
  BY DEF IsMap, Indices
<1> QED BY <1>1, UsedFinite

\* Where k, or one of the marks, is first met.
MapStops(m, k, kind, marks) ==
  {i \in 0..m.cap-1 : m.ents[i].key \in marks \/ KeyEq(m.ents[i].key, k, kind)}

LEMMA FirstAtIs ==
  ASSUME NEW m, NEW kind, IsMap(m), NEW k \in MKeys, NEW marks
  PROVE  FirstAt(m, k, kind, marks) = Probe(AsTable(m, kind), Name(k, kind), MapStops(m, k, kind, marks))
<1> DEFINE t == AsTable(m, kind)
           n == Name(k, kind)
           own == m.seed[n] % m.cap
           At(j) == IF own + j < m.cap THEN own + j ELSE own + j - m.cap
<1>1. n \in Names(kind)
  BY DEF Names
<1>2. t.cap = m.cap /\ Indices(t) = 0..m.cap-1 /\ t.seed[n] = m.seed[n]
  BY <1>1, AsTableFacts
<1>3. Key(t, n)
  <2>1. IsTable(t, Names(kind), NamedEntries(kind))
    BY AsTableFacts
  <2> QED BY <2>1, <1>1 DEF IsTable, Key
<1> HIDE DEF t, n
<1>4. \A j \in 0..m.cap-1 : At(j) = ProbeAt(t, n, j)
  <2>1. Home(t, n) = own
    BY <1>2 DEF Home
  <2>2. own \in Int /\ m.cap \in Int
    BY <1>2, <1>3 DEF Key
  <2> HIDE DEF own
  <2> QED BY <1>2, <2>1, <2>2 DEF ProbeAt
<1> HIDE DEF At
<1>5. \A j \in 0..m.cap-1 : At(j) \in 0..m.cap-1
  <2>1. \A j \in Indices(t) : ProbeAt(t, n, j) \in Indices(t)
    BY <1>3, ProbeAtFacts
  <2> QED BY <2>1, <1>2, <1>4
<1> DEFINE Hits == {j \in 0..m.cap-1 : m.ents[At(j)].key \in marks \/ KeyEq(m.ents[At(j)].key, k, kind)}
           stops == MapStops(m, k, kind, marks)
           Hits2 == {j \in Indices(t) : ProbeAt(t, n, j) \in stops}
<1>6. Hits = Hits2
  BY <1>2, <1>4, <1>5 DEF MapStops
<1>7. FirstAt(m, k, kind, marks) = IF Hits = {} THEN Absent ELSE At(Min(Hits))
  BY DEF FirstAt, At, n
<1>8. Probe(t, n, stops) = IF Hits2 = {} THEN NotFound ELSE ProbeAt(t, n, Min(Hits2))
  BY DEF Probe
<1>9. CASE Hits = {}
  BY <1>6, <1>7, <1>8, <1>9 DEF NotFound, Absent, t, n
<1>10. CASE Hits # {}
  <2>1. Hits \subseteq Nat /\ Hits \subseteq 0..m.cap-1
    OBVIOUS
  <2>2. Min(Hits) \in 0..m.cap-1
    BY <1>10, <2>1, Least
  <2>3. At(Min(Hits)) = ProbeAt(t, n, Min(Hits))
    BY <1>4, <2>2
  <2> QED BY <1>6, <1>7, <1>8, <1>10, <2>3 DEF t, n
<1> QED BY <1>9, <1>10

LEMMA FirstAtRange ==
  ASSUME NEW m, NEW kind, IsMap(m), NEW k \in MKeys, NEW marks
  PROVE  LET i == FirstAt(m, k, kind, marks) IN
         IF MapStops(m, k, kind, marks) = {} THEN i = Absent
         ELSE i \in MapStops(m, k, kind, marks)
<1> DEFINE t == AsTable(m, kind)
           n == Name(k, kind)
           stops == MapStops(m, k, kind, marks)
<1>1. n \in Names(kind)
  BY DEF Names
<1>2. Indices(t) = 0..m.cap-1 /\ Key(t, n)
  <2>1. IsTable(t, Names(kind), NamedEntries(kind)) /\ Indices(t) = 0..m.cap-1
    BY AsTableFacts
  <2> QED BY <2>1, <1>1 DEF IsTable, Key
<1>3. FirstAt(m, k, kind, marks) = Probe(t, n, stops)
  BY FirstAtIs
<1> HIDE DEF t, n
<1>4. stops \subseteq Indices(t)
  BY <1>2 DEF MapStops
<1>5. CASE stops = {}
  <2>1. {j \in Indices(t) : ProbeAt(t, n, j) \in stops} = {}
    BY <1>5
  <2> QED BY <1>3, <1>5, <2>1 DEF Probe, NotFound, Absent
<1>6. CASE stops # {}
  <2>1. Indices(t) \cap stops # {}
    BY <1>4, <1>6
  <2>2. Probe(t, n, stops) \in stops
    <3> HIDE DEF stops
    <3>1. \E j \in Indices(t) : Probe(t, n, stops) = ProbeAt(t, n, j) /\ ProbeAt(t, n, j) \in stops
      BY <1>2, <2>1, ProbeFirst
    <3> QED BY <3>1
  <2> QED BY <1>3, <1>6, <2>2
<1> QED BY <1>5, <1>6

(***************************************************************************)
(* The shape of a map, whatever its entries are hashed by.                 *)
(***************************************************************************)

Entries == [key : MKeys \cup {EMPTY, DELMARK}, value : Vals]

WithEntry(m, i, ent) == [m EXCEPT !.ents[i] = ent]
WithLen(m, l) == [m EXCEPT !.len = l]

LEMMA WithEntryFacts ==
  ASSUME NEW m, IsMap(m), NEW i, NEW ent \in Entries
  PROVE  LET s == WithEntry(m, i, ent) IN
         /\ IsMap(s) /\ s.cap = m.cap /\ s.len = m.len /\ s.seed = m.seed
         /\ \A j \in 0..m.cap-1 : s.ents[j] = IF j = i THEN ent ELSE m.ents[j]
<1> DEFINE s == WithEntry(m, i, ent)
<1>1. s = [cap |-> m.cap, len |-> m.len, seed |-> m.seed, ents |-> [m.ents EXCEPT ![i] = ent]]
  <2>1. m = [cap |-> m.cap, len |-> m.len, seed |-> m.seed, ents |-> m.ents]
    BY DEF IsMap
  <2> QED BY <2>1 DEF WithEntry
<1> HIDE DEF s
<1>2. /\ s = [cap |-> s.cap, len |-> s.len, seed |-> s.seed, ents |-> s.ents]
      /\ s.cap = m.cap /\ s.len = m.len /\ s.seed = m.seed /\ s.ents = [m.ents EXCEPT ![i] = ent]
  BY <1>1
<1>3. /\ s.ents \in [0..m.cap-1 -> Entries]
      /\ \A j \in 0..m.cap-1 : s.ents[j] = IF j = i THEN ent ELSE m.ents[j]
  <2>1. m.ents \in [0..m.cap-1 -> Entries]
    BY DEF IsMap, Entries
  <2> HIDE DEF Entries
  <2> QED BY <1>2, <2>1
<1>4. IsMap(s)
  BY <1>2, <1>3 DEF IsMap, Entries
<1> QED BY <1>2, <1>3, <1>4 DEF s

LEMMA WithLenFacts ==
  ASSUME NEW m, IsMap(m), NEW l \in Nat
  PROVE  LET s == WithLen(m, l) IN
         /\ IsMap(s) /\ s.cap = m.cap /\ s.len = l /\ s.seed = m.seed /\ s.ents = m.ents
         /\ \A kind : AsTable(s, kind) = AsTable(m, kind)
         /\ Live(s) = Live(m) /\ Filled(s) = Filled(m) /\ (NoMarks(m) => NoMarks(s))
<1> DEFINE s == WithLen(m, l)
<1>1. s = [cap |-> m.cap, len |-> l, seed |-> m.seed, ents |-> m.ents]
  BY DEF WithLen, IsMap
<1> HIDE DEF s
<1>2. /\ s = [cap |-> s.cap, len |-> s.len, seed |-> s.seed, ents |-> s.ents]
      /\ s.cap = m.cap /\ s.len = l /\ s.seed = m.seed /\ s.ents = m.ents
  BY <1>1
<1>3. IsMap(s)
  BY <1>2 DEF IsMap
<1>4. \A kind : AsTable(s, kind) = AsTable(m, kind)
  BY <1>2 DEF AsTable
<1>5. Live(s) = Live(m) /\ Filled(s) = Filled(m) /\ (NoMarks(m) => NoMarks(s))
  BY <1>2 DEF Live, Filled, NoMarks
<1> QED BY <1>2, <1>3, <1>4, <1>5 DEF s

LEMMA EntriesOf ==
  ASSUME NEW m, IsMap(m), NEW i \in 0..m.cap-1
  PROVE  m.ents[i] \in Entries /\ m.ents[i] = [key |-> m.ents[i].key, value |-> m.ents[i].value]
<1>1. m.ents[i] \in Entries
  BY DEF IsMap, Entries
<1> QED BY <1>1 DEF Entries

LEMMA StoredIs ==
  ASSUME NEW m, NEW kind, IsMap(m), NEW k \in MKeys, NEW v \in Vals
  PROVE  LET i == AssignIndex(m, k, kind)
             s == Stored(m, k, v, kind)
         IN  IF KeyEq(m.ents[i].key, k, kind)
             THEN \/ i \notin 0..m.cap-1 /\ s = m
                  \/ i \in 0..m.cap-1 /\ s = WithEntry(m, i, [key |-> m.ents[i].key, value |-> v])
             ELSE s = WithLen(WithEntry(m, i, [key |-> k, value |-> v]), m.len + 1)
<1> DEFINE i == AssignIndex(m, k, kind)
           s == Stored(m, k, v, kind)
<1>1. s = IF KeyEq(m.ents[i].key, k, kind) THEN [m EXCEPT !.ents[i].value = v]
          ELSE [m EXCEPT !.ents[i] = [key |-> k, value |-> v], !.len = @ + 1]
  BY DEF Stored
<1> HIDE DEF i, s
<1>2. m = [cap |-> m.cap, len |-> m.len, seed |-> m.seed, ents |-> m.ents]
      /\ m.ents = [j \in 0..m.cap-1 |-> m.ents[j]]
  BY DEF IsMap
<1>3. CASE KeyEq(m.ents[i].key, k, kind)
  <2>1. s = [m EXCEPT !.ents = [m.ents EXCEPT ![i] = [m.ents[i] EXCEPT !.value = v]]]
    BY <1>1, <1>2, <1>3
  <2>2. CASE i \notin 0..m.cap-1
    <3>1. [m.ents EXCEPT ![i] = [m.ents[i] EXCEPT !.value = v]] = m.ents
      BY <1>2, <2>2
    <3>2. s = m
      BY <2>1, <3>1, <1>2
    <3> QED BY <1>3, <2>2, <3>2 DEF i, s
  <2>3. CASE i \in 0..m.cap-1
    <3>1. m.ents[i] = [key |-> m.ents[i].key, value |-> m.ents[i].value]
      BY <2>3, EntriesOf
    <3>2. [m.ents[i] EXCEPT !.value = v] = [key |-> m.ents[i].key, value |-> v]
      BY <3>1
    <3>3. s = WithEntry(m, i, [key |-> m.ents[i].key, value |-> v])
      BY <2>1, <3>2 DEF WithEntry
    <3> QED BY <1>3, <2>3, <3>3 DEF i, s
  <2> QED BY <2>2, <2>3
<1>4. CASE ~KeyEq(m.ents[i].key, k, kind)
  <2>1. s = [m EXCEPT !.ents[i] = [key |-> k, value |-> v], !.len = @ + 1]
    BY <1>1, <1>4
  <2>2. s = WithLen(WithEntry(m, i, [key |-> k, value |-> v]), m.len + 1)
    BY <1>2, <2>1 DEF WithLen, WithEntry
  <2> QED BY <1>4, <2>2 DEF i, s
<1> QED BY <1>3, <1>4

\* len is at least the number of live entries.
Shaped(m) == IsMap(m) /\ Cardinality(Live(m)) =< m.len

LEMMA LiveOneMore ==
  ASSUME NEW m, IsMap(m), NEW i, NEW ent \in Entries
  PROVE  LET s == WithEntry(m, i, ent) IN
         /\ Cardinality(Live(m)) \in Nat /\ Cardinality(Live(s)) \in Nat
         /\ Cardinality(Live(s)) =< Cardinality(Live(m)) + 1
         /\ i \in Live(m) => Cardinality(Live(s)) =< Cardinality(Live(m))
<1> DEFINE s == WithEntry(m, i, ent)
<1>1. /\ IsMap(s) /\ s.cap = m.cap
      /\ \A j \in 0..m.cap-1 : s.ents[j] = IF j = i THEN ent ELSE m.ents[j]
  BY WithEntryFacts
<1> HIDE DEF s
<1>2. Live(s) \subseteq Live(m) \cup {i}
  BY <1>1 DEF Live
<1>3. IsFiniteSet(Live(m)) /\ Cardinality(Live(m)) \in Nat /\ Cardinality(Live(s)) \in Nat
  BY <1>1, FilledFinite DEF Live
<1>4. /\ IsFiniteSet(Live(m) \cup {i})
      /\ Cardinality(Live(m) \cup {i}) = IF i \in Live(m) THEN Cardinality(Live(m)) ELSE Cardinality(Live(m)) + 1
  BY <1>3, FS_AddElement
<1>5. Cardinality(Live(s)) =< Cardinality(Live(m) \cup {i})
  BY <1>2, <1>4, FS_Subset
<1> QED BY <1>3, <1>4, <1>5 DEF s

LEMMA StoredShape ==
  ASSUME NEW m, NEW kind, Shaped(m), NEW k \in MKeys, NEW v \in Vals
  PROVE  LET s == Stored(m, k, v, kind) IN Shaped(s) /\ s.cap = m.cap /\ s.seed = m.seed
<1> DEFINE i == AssignIndex(m, k, kind)
           s == Stored(m, k, v, kind)
<1>1. IF KeyEq(m.ents[i].key, k, kind)
      THEN \/ i \notin 0..m.cap-1 /\ s = m
           \/ i \in 0..m.cap-1 /\ s = WithEntry(m, i, [key |-> m.ents[i].key, value |-> v])
      ELSE s = WithLen(WithEntry(m, i, [key |-> k, value |-> v]), m.len + 1)
  BY StoredIs DEF Shaped
<1> HIDE DEF i, s
<1>2. IsMap(m) /\ m.len \in Nat /\ Cardinality(Live(m)) =< m.len
  BY DEF Shaped, IsMap
<1>3. CASE KeyEq(m.ents[i].key, k, kind) /\ i \notin 0..m.cap-1
  BY <1>1, <1>3 DEF s
<1>4. CASE KeyEq(m.ents[i].key, k, kind) /\ i \in 0..m.cap-1
  <2>1. m.ents[i].key \in MKeys \cup {EMPTY, DELMARK}
    BY <1>2, <1>4, EntriesOf DEF Entries
  <2> DEFINE ent == [key |-> m.ents[i].key, value |-> v]
  <2>2. ent \in Entries /\ s = WithEntry(m, i, ent)
    BY <2>1, <1>1, <1>4 DEF Entries
  <2>3. i \in Live(m)
    BY <1>4 DEF Live, IsLive, KeyEq
  <2> HIDE DEF ent
  <2> QED BY <1>2, <2>2, <2>3, WithEntryFacts, LiveOneMore DEF Shaped, s
<1>5. CASE ~KeyEq(m.ents[i].key, k, kind)
  <2> DEFINE ent == [key |-> k, value |-> v]
             r == WithEntry(m, i, ent)
  <2>1. ent \in Entries /\ s = WithLen(r, m.len + 1)
    BY <1>1, <1>5 DEF Entries
  <2> HIDE DEF ent
  <2>2. /\ IsMap(r) /\ r.cap = m.cap /\ r.seed = m.seed
        /\ Cardinality(Live(r)) \in Nat /\ Cardinality(Live(m)) \in Nat
        /\ Cardinality(Live(r)) =< Cardinality(Live(m)) + 1
    BY <1>2, <2>1, WithEntryFacts, LiveOneMore
  <2> HIDE DEF r
  <2>3. m.len + 1 \in Nat
    BY <1>2
  <2>4. IsMap(s) /\ s.cap = r.cap /\ s.seed = r.seed /\ s.len = m.len + 1 /\ Live(s) = Live(r)
    BY <2>1, <2>2, <2>3, WithLenFacts
  <2> QED BY <1>2, <2>2, <2>4 DEF Shaped, s
<1> QED BY <1>3, <1>4, <1>5

LEMMA NewMapFacts ==
  ASSUME NEW cap \in Nat, cap >= 4, NEW seed \in MHashes
  PROVE  LET s == NewMap(cap, seed) IN
         /\ IsMap(s) /\ s.cap = cap /\ s.seed = seed /\ s.len = 0
         /\ Live(s) = {} /\ Filled(s) = {} /\ NoMarks(s)
<1> DEFINE s == NewMap(cap, seed)
<1>1. /\ s = [cap |-> s.cap, len |-> s.len, seed |-> s.seed, ents |-> s.ents]
      /\ s.cap = cap /\ s.len = 0 /\ s.seed = seed /\ s.ents = [i \in 0..cap-1 |-> NoEnt]
  BY DEF NewMap
<1> HIDE DEF s
<1>2. NoEnt \in Entries /\ NoEnt.key = EMPTY
  BY DEF NoEnt, Entries, Vals
<1>3. s.ents \in [0..cap-1 -> Entries] /\ \A i \in 0..cap-1 : s.ents[i].key = EMPTY
  BY <1>1, <1>2
<1>4. IsMap(s)
  BY <1>1, <1>3 DEF IsMap, Entries
<1>5. Live(s) = {} /\ Filled(s) = {} /\ NoMarks(s)
  BY <1>1, <1>3, MarksAreNoKeys DEF Live, IsLive, Filled, NoMarks
<1> QED BY <1>1, <1>4, <1>5 DEF s

LEMMA IdealCaps ==
  ASSUME NEW n \in Nat, n >= 1
  PROVE  MapIdealCap(n) \in Nat /\ MapIdealCap(n) >= 4 /\ MapIdealCap(n) > n
<1>1. PICK c \in Nat : c = n + 1 + (n + 3) \div 4 /\ c >= 3 /\ c > n
  OBVIOUS
<1>2. /\ CeilPow2(c) \in Nat /\ CeilPow2(c) >= c
      /\ \E half \in Nat : CeilPow2(c) = 2 * half
  BY <1>1, CeilPow2Right
<1>3. PICK half \in Nat : CeilPow2(c) = 2 * half
  BY <1>2
<1> QED BY <1>1, <1>2, <1>3 DEF MapIdealCap

(***************************************************************************)
(* The loop of map_grow1, when it has seen n entries.                      *)
(***************************************************************************)

MapUpto(m, newcap, seed, kind, n, g) ==
  g = [l \in 0..n |->
        IF l = 0 THEN NewMap(newcap, seed)
        ELSE IF IsLive(m.ents[l - 1]) THEN map_relocate(g[l - 1], m.ents[l - 1], kind)
        ELSE g[l - 1]]

LEMMA MapUptoExists ==
  ASSUME NEW m, m.cap \in Nat, NEW newcap, NEW seed, NEW kind
  PROVE  \E g : MapUpto(m, newcap, seed, kind, m.cap, g)
<1> DEFINE first == NewMap(newcap, seed)
           Next1(l, new) == IF IsLive(m.ents[l - 1]) THEN map_relocate(new, m.ents[l - 1], kind) ELSE new
           S == {n \in 0..m.cap : \E g : MapUpto(m, newcap, seed, kind, n, g)}
<1>1. \A n, g : MapUpto(m, newcap, seed, kind, n, g) <=>
        g = [l \in 0..n |-> IF l = 0 THEN first ELSE Next1(l, g[l - 1])]
  BY DEF MapUpto
<1> HIDE DEF Next1, first
<1>2. 0 \in S
  <2> DEFINE g == [l \in 0..0 |-> first]
  <2>1. g = [l \in 0..0 |-> IF l = 0 THEN first ELSE Next1(l, g[l - 1])]
    OBVIOUS
  <2>2. MapUpto(m, newcap, seed, kind, 0, g)
    BY <2>1, <1>1
  <2> QED BY <2>2
<1>3. ASSUME NEW n \in 1..m.cap, n - 1 \in S
      PROVE  n \in S
  <2>1. PICK g : MapUpto(m, newcap, seed, kind, n - 1, g)
    BY <1>3
  <2> DEFINE h == [l \in 0..n |-> IF l = n THEN Next1(n, g[n - 1]) ELSE g[l]]
  <2>2. ASSUME NEW l \in 0..n
        PROVE  h[l] = IF l = 0 THEN first ELSE Next1(l, h[l - 1])
    <3>1. CASE l = n
      <4>1. h[l] = Next1(n, g[n - 1]) /\ h[l - 1] = g[n - 1] /\ l # 0
        BY <3>1
      <4> QED BY <4>1, <3>1
    <3>2. CASE l # n
      <4>1. l \in 0..n - 1 /\ h[l] = g[l]
        BY <3>2
      <4>2. l # 0 => l - 1 \in 0..n /\ l - 1 # n /\ h[l - 1] = g[l - 1]
        BY <3>2
      <4>3. g[l] = IF l = 0 THEN first ELSE Next1(l, g[l - 1])
        BY <4>1, <2>1, <1>1
      <4> QED BY <4>1, <4>2, <4>3
    <3> QED BY <3>1, <3>2
  <2>3. MapUpto(m, newcap, seed, kind, n, h)
    <3>1. h = [l \in 0..n |-> IF l = 0 THEN first ELSE Next1(l, h[l - 1])]
      BY <2>2
    <3> QED BY <3>1, <1>1
  <2> QED BY <2>3
<1>4. 0..m.cap \subseteq S
  BY <1>2, <1>3, Induction
<1> QED BY <1>4

\* What the loop computes, step by step.
LEMMA GrowSteps ==
  ASSUME NEW m, IsMap(m), NEW newcap, NEW seed, NEW kind
  PROVE  \E g :
           /\ map_grow1(m, newcap, seed, kind) = WithLen(g[m.cap], m.len)
           /\ g[0] = NewMap(newcap, seed)
           /\ \A n \in 1..m.cap :
                g[n] = IF IsLive(m.ents[n - 1]) THEN map_relocate(g[n - 1], m.ents[n - 1], kind)
                       ELSE g[n - 1]
<1> DEFINE g == CHOOSE g : MapUpto(m, newcap, seed, kind, m.cap, g)
<1>1. m.cap \in Nat
  BY DEF IsMap
<1>2. MapUpto(m, newcap, seed, kind, m.cap, g)
  BY <1>1, MapUptoExists
<1>3. map_grow1(m, newcap, seed, kind) = WithLen(g[m.cap], m.len)
  BY DEF map_grow1, MapUpto, WithLen
<1> HIDE DEF g
<1>4. g[0] = NewMap(newcap, seed)
  BY <1>1, <1>2 DEF MapUpto
<1>5. ASSUME NEW n \in 1..m.cap
      PROVE  g[n] = IF IsLive(m.ents[n - 1]) THEN map_relocate(g[n - 1], m.ents[n - 1], kind)
                    ELSE g[n - 1]
  <2>1. n \in 0..m.cap /\ n # 0
    BY <1>1
  <2> QED BY <1>2, <2>1 DEF MapUpto
<1> QED BY <1>3, <1>4, <1>5

LiveUpto(m, n) == Live(m) \cap 0..n - 1

LEMMA LiveUptoSteps ==
  ASSUME NEW m, IsMap(m), NEW n \in 1..m.cap
  PROVE  /\ IsFiniteSet(LiveUpto(m, n - 1)) /\ Cardinality(LiveUpto(m, n - 1)) \in Nat
         /\ LiveUpto(m, 0) = {} /\ LiveUpto(m, m.cap) = Live(m)
         /\ n - 1 \in Live(m) =>
              /\ LiveUpto(m, n) = LiveUpto(m, n - 1) \cup {n - 1} /\ n - 1 \notin LiveUpto(m, n - 1)
              /\ Cardinality(LiveUpto(m, n)) = Cardinality(LiveUpto(m, n - 1)) + 1
         /\ n - 1 \notin Live(m) => LiveUpto(m, n) = LiveUpto(m, n - 1)
<1>1. m.cap \in Nat
  BY DEF IsMap
<1>2. IsFiniteSet(LiveUpto(m, n - 1)) /\ Cardinality(LiveUpto(m, n - 1)) \in Nat
  BY FilledFinite DEF LiveUpto, Live
<1>3. LiveUpto(m, 0) = {} /\ LiveUpto(m, m.cap) = Live(m)
  BY <1>1 DEF LiveUpto, Live
<1>4. n - 1 \in Live(m) =>
        LiveUpto(m, n) = LiveUpto(m, n - 1) \cup {n - 1} /\ n - 1 \notin LiveUpto(m, n - 1)
  BY <1>1 DEF LiveUpto
<1>5. n - 1 \notin Live(m) => LiveUpto(m, n) = LiveUpto(m, n - 1)
  BY <1>1 DEF LiveUpto, Live
<1>6. n - 1 \in Live(m) => Cardinality(LiveUpto(m, n)) = Cardinality(LiveUpto(m, n - 1)) + 1
  BY <1>2, <1>4, FS_AddElement
<1> QED BY <1>2, <1>3, <1>4, <1>5, <1>6

LEMMA GrownShape ==
  ASSUME NEW m, NEW kind, Shaped(m), NEW newcap \in Nat, newcap >= 4, NEW seed \in MHashes
  PROVE  LET s == map_grow1(m, newcap, seed, kind) IN
         Shaped(s) /\ s.cap = newcap /\ s.seed = seed /\ s.len = m.len
<1>1. PICK g :
        /\ map_grow1(m, newcap, seed, kind) = WithLen(g[m.cap], m.len)
        /\ g[0] = NewMap(newcap, seed)
        /\ \A n \in 1..m.cap :
             g[n] = IF IsLive(m.ents[n - 1]) THEN map_relocate(g[n - 1], m.ents[n - 1], kind)
                    ELSE g[n - 1]
  BY GrowSteps DEF Shaped
<1>2. IsMap(m) /\ m.cap \in Nat /\ m.cap >= 4 /\ m.len \in Nat
  BY DEF Shaped, IsMap
<1> DEFINE S == {n \in 0..m.cap : /\ IsMap(g[n]) /\ g[n].cap = newcap /\ g[n].seed = seed
                                  /\ Cardinality(Live(g[n])) =< Cardinality(LiveUpto(m, n))}
<1>3. 0 \in S
  <2>1. IsMap(g[0]) /\ g[0].cap = newcap /\ g[0].seed = seed /\ Live(g[0]) = {}
    BY <1>1, NewMapFacts
  <2>2. LiveUpto(m, 0) = {}
    BY <1>2 DEF LiveUpto
  <2> QED BY <1>2, <2>1, <2>2, FS_EmptySet
<1>4. ASSUME NEW n \in 1..m.cap, n - 1 \in S
      PROVE  n \in S
  <2> DEFINE r == g[n - 1]
             ent == m.ents[n - 1]
             i == FirstAt(r, ent.key, RelocationKind(kind), {EMPTY})
  <2>1. IsMap(r) /\ r.cap = newcap /\ r.seed = seed /\ Cardinality(Live(r)) =< Cardinality(LiveUpto(m, n - 1))
    BY <1>4
  <2>2. g[n] = IF IsLive(ent) THEN WithEntry(r, i, ent) ELSE r
    BY <1>1 DEF map_relocate, WithEntry
  <2>3. n - 1 \in 0..m.cap-1
    BY <1>2
  <2>4. ent \in Entries
    BY <1>2, <2>3, EntriesOf
  <2> HIDE DEF i, r
  <2>5. CASE IsLive(ent)
    <3>1. n - 1 \in Live(m)
      BY <2>3, <2>5 DEF Live
    <3> HIDE DEF ent
    <3>2. IsMap(g[n]) /\ g[n].cap = newcap /\ g[n].seed = seed
      BY <2>1, <2>2, <2>4, <2>5, WithEntryFacts
    <3>3. /\ Cardinality(Live(r)) \in Nat /\ Cardinality(Live(g[n])) \in Nat
          /\ Cardinality(Live(g[n])) =< Cardinality(Live(r)) + 1
      BY <2>1, <2>2, <2>4, <2>5, LiveOneMore
    <3>4. /\ Cardinality(LiveUpto(m, n)) = Cardinality(LiveUpto(m, n - 1)) + 1
          /\ Cardinality(LiveUpto(m, n - 1)) \in Nat
      BY <1>2, <3>1, LiveUptoSteps
    <3> QED BY <2>1, <3>2, <3>3, <3>4
  <2>6. CASE ~IsLive(ent)
    <3>1. n - 1 \notin Live(m)
      BY <2>6 DEF Live
    <3>2. LiveUpto(m, n) = LiveUpto(m, n - 1)
      BY <1>2, <3>1, LiveUptoSteps
    <3> QED BY <2>1, <2>2, <2>6, <3>2 DEF r
  <2> QED BY <2>5, <2>6
<1>5. m.cap \in S
  <2>1. 0..m.cap \subseteq S
    BY <1>2, <1>3, <1>4, Induction
  <2> QED BY <1>2, <2>1
<1> DEFINE s == map_grow1(m, newcap, seed, kind)
<1>6. LiveUpto(m, m.cap) = Live(m)
  BY <1>2 DEF LiveUpto, Live
<1>7. IsMap(s) /\ s.cap = newcap /\ s.seed = seed /\ s.len = m.len /\ Live(s) = Live(g[m.cap])
  <2> DEFINE top == g[m.cap]
  <2>1. s = WithLen(top, m.len) /\ IsMap(top) /\ top.cap = newcap /\ top.seed = seed
    BY <1>1, <1>5
  <2> HIDE DEF top, s
  <2>2. IsMap(s) /\ s.cap = newcap /\ s.seed = seed /\ s.len = m.len /\ Live(s) = Live(top)
    BY <1>2, <2>1, WithLenFacts
  <2> QED BY <2>2 DEF top
<1> HIDE DEF s
<1>8. /\ Cardinality(Live(s)) \in Nat /\ Cardinality(Live(m)) \in Nat
      /\ Cardinality(Live(s)) =< Cardinality(Live(m))
  <2>1. Cardinality(Live(s)) \in Nat /\ Cardinality(Live(m)) \in Nat
    BY <1>2, <1>7, FilledFinite DEF Live
  <2>2. Cardinality(Live(g[m.cap])) =< Cardinality(LiveUpto(m, m.cap))
    BY <1>5
  <2> QED BY <1>6, <1>7, <2>1, <2>2
<1> QED BY <1>2, <1>7, <1>8 DEF Shaped, s

(***************************************************************************)
(* What a map holds.                                                       *)
(***************************************************************************)

Holding(m, kind, f) ==
  /\ IsMap(m) /\ Chained(AsTable(m, kind)) /\ KeysDiffer(AsTable(m, kind))
  /\ \A i \in Live(m) : /\ Name(m.ents[i].key, kind) \in DOMAIN f
                        /\ f[Name(m.ents[i].key, kind)] = m.ents[i].value
  /\ \A n \in DOMAIN f : \E i \in Live(m) : Name(m.ents[i].key, kind) = n

Empties(m) == {i \in 0..m.cap-1 : m.ents[i].key = EMPTY}

LEMMA HoldingFacts ==
  ASSUME NEW m, NEW kind, NEW f, Holding(m, kind, f)
  PROVE  LET t == AsTable(m, kind) IN
         /\ IsTable(t, Names(kind), NamedEntries(kind)) /\ Chained(t) /\ KeysDiffer(t)
         /\ Keys(t) = DOMAIN f /\ Used(t) = Live(m) /\ Free(t) = Empties(m) /\ Taken(t) = Filled(m)
         /\ \A i \in Live(m) : /\ i \in 0..m.cap-1 /\ m.ents[i].key \in MKeys
                               /\ t.ents[i].key = Name(m.ents[i].key, kind)
         /\ \A i, j \in Live(m) : Name(m.ents[i].key, kind) = Name(m.ents[j].key, kind) => i = j
<1> DEFINE t == AsTable(m, kind)
<1>1. /\ IsTable(t, Names(kind), NamedEntries(kind)) /\ Used(t) = Live(m) /\ Free(t) = Empties(m)
      /\ Taken(t) = Filled(m)
      /\ \A i \in 0..m.cap-1 : t.ents[i] = Named(m.ents[i], kind)
      /\ \A i \in 0..m.cap-1 : i \in Live(m) <=> m.ents[i].key \in MKeys
  BY AsTableFacts DEF Holding, Empties
<1>2. Chained(t) /\ KeysDiffer(t)
  BY DEF Holding
<1> HIDE DEF t
<1>3. \A i \in Live(m) : /\ i \in 0..m.cap-1 /\ m.ents[i].key \in MKeys
                         /\ t.ents[i].key = Name(m.ents[i].key, kind)
  <2>1. \A i \in Live(m) : i \in 0..m.cap-1
    BY DEF Live
  <2>2. \A i \in 0..m.cap-1 : t.ents[i].key = Name(m.ents[i].key, kind)
    <3>1. \A ent : Named(ent, kind).key = Name(ent.key, kind)
      BY DEF Named
    <3> QED BY <3>1, <1>1
  <2> QED BY <2>1, <2>2, <1>1
<1>4. Keys(t) = {Name(m.ents[i].key, kind) : i \in Live(m)}
  BY <1>1, <1>3 DEF Keys, Content
<1>5. Keys(t) = DOMAIN f
  BY <1>4 DEF Holding
<1>6. \A i, j \in Live(m) : Name(m.ents[i].key, kind) = Name(m.ents[j].key, kind) => i = j
  BY <1>1, <1>2, <1>3 DEF KeysDiffer
<1> QED BY <1>1, <1>2, <1>3, <1>5, <1>6 DEF t

LEMMA StopsSame ==
  ASSUME NEW m, NEW kind, IsMap(m), NEW k \in MKeys
  PROVE  MapStops(m, k, kind, {EMPTY}) = Stops(AsTable(m, kind), Name(k, kind))
<1> DEFINE t == AsTable(m, kind)
<1>1. /\ Indices(t) = 0..m.cap-1
      /\ \A i \in 0..m.cap-1 : t.ents[i] = Named(m.ents[i], kind)
      /\ \A i \in 0..m.cap-1 :
           t.bits[i] = IF m.ents[i].key = EMPTY THEN STATUS_FREE
                       ELSE IF m.ents[i].key = DELMARK THEN 3 ELSE STATUS_USE
  BY AsTableFacts
<1> HIDE DEF t
<1>2. ASSUME NEW i \in 0..m.cap-1
      PROVE  StopsAt(t, i, Name(k, kind)) <=>
               (m.ents[i].key \in {EMPTY} \/ KeyEq(m.ents[i].key, k, kind))
  <2>1. t.ents[i].key = Name(m.ents[i].key, kind)
    <3>1. \A ent : Named(ent, kind).key = Name(ent.key, kind)
      BY DEF Named
    <3> QED BY <3>1, <1>1
  <2>2. /\ t.bits[i] = STATUS_FREE <=> m.ents[i].key = EMPTY
        /\ t.bits[i] = STATUS_USE <=> m.ents[i].key \notin {EMPTY, DELMARK}
    BY <1>1, MarksAreNoKeys DEF STATUS_FREE, STATUS_USE
  <2> QED BY <2>1, <2>2 DEF StopsAt, Holds, KeyEq
<1> QED BY <1>1, <1>2 DEF MapStops, Stops, t

\* A lookup finds the entry of the key's name, if there is one.
LEMMA MapLookupRight ==
  ASSUME NEW m, NEW kind, NEW f, Holding(m, kind, f), Empties(m) # {}, NEW k \in MKeys
  PROVE  LET i == FirstAt(m, k, kind, {EMPTY})
         IN  IF Name(k, kind) \in DOMAIN f
             THEN /\ i \in Live(m) /\ Name(m.ents[i].key, kind) = Name(k, kind)
                  /\ KeyEq(m.ents[i].key, k, kind)
             ELSE /\ i \in Empties(m) /\ ~KeyEq(m.ents[i].key, k, kind)
                  /\ \A w : FirstFree(AsTable(m, kind), [key |-> Name(k, kind), value |-> w], i)
<1> DEFINE t == AsTable(m, kind)
           n == Name(k, kind)
           i == FirstAt(m, k, kind, {EMPTY})
<1>1. /\ IsTable(t, Names(kind), NamedEntries(kind)) /\ Chained(t) /\ KeysDiffer(t)
      /\ Keys(t) = DOMAIN f /\ Used(t) = Live(m) /\ Free(t) = Empties(m)
      /\ \A l \in Live(m) : m.ents[l].key \in MKeys /\ t.ents[l].key = Name(m.ents[l].key, kind)
  BY HoldingFacts
<1>2. n \in Names(kind)
  BY DEF Names
<1>3. i = Probe(t, n, Stops(t, n))
  BY FirstAtIs, StopsSame DEF Holding
<1> HIDE DEF t, n, i
<1>4. /\ IF n \in DOMAIN f THEN i \in Used(t) /\ t.ents[i].key = n ELSE i \in Free(t)
      /\ \E j \in Indices(t) :
           /\ i = ProbeAt(t, n, j)
           /\ \A l \in 0..j - 1 : t.bits[ProbeAt(t, n, l)] # STATUS_FREE
  BY <1>1, <1>2, <1>3, LookupRight
<1>5. CASE n \in DOMAIN f
  <2>1. i \in Live(m) /\ m.ents[i].key \in MKeys /\ Name(m.ents[i].key, kind) = n
    BY <1>1, <1>4, <1>5
  <2>2. KeyEq(m.ents[i].key, k, kind)
    BY <2>1, MarksAreNoKeys DEF KeyEq, n
  <2> QED BY <2>1, <2>2, <1>5 DEF n, i
<1>6. CASE n \notin DOMAIN f
  <2>1. i \in Free(t) /\ i \in Empties(m)
    BY <1>1, <1>4, <1>6
  <2>2. ~KeyEq(m.ents[i].key, k, kind)
    BY <2>1 DEF KeyEq, Empties
  <2>3. ASSUME NEW w PROVE FirstFree(t, [key |-> n, value |-> w], i)
    BY <1>4, <2>1 DEF FirstFree
  <2> QED BY <2>1, <2>2, <2>3, <1>6 DEF n, i, t
<1> QED BY <1>5, <1>6

LEMMA IndexOfRight ==
  ASSUME NEW m, NEW kind, NEW f, Holding(m, kind, f), Empties(m) # {}, NEW k \in MKeys
  PROVE  LET i == IndexOf(m, k, kind) IN
         IF Name(k, kind) \in DOMAIN f
         THEN i \in Live(m) /\ i # Absent /\ Name(m.ents[i].key, kind) = Name(k, kind)
         ELSE i = Absent
<1> DEFINE i == FirstAt(m, k, kind, {EMPTY})
<1>1. IF Name(k, kind) \in DOMAIN f
      THEN /\ i \in Live(m) /\ Name(m.ents[i].key, kind) = Name(k, kind)
           /\ KeyEq(m.ents[i].key, k, kind)
      ELSE ~KeyEq(m.ents[i].key, k, kind)
  BY MapLookupRight
<1>2. IndexOf(m, k, kind) = IF i # Absent /\ KeyEq(m.ents[i].key, k, kind) THEN i ELSE Absent
  BY DEF IndexOf
<1> HIDE DEF i
<1>3. m.cap \in Nat
  BY DEF Holding, IsMap
<1>4. i \in Live(m) => i # Absent
  BY <1>3 DEF Live, Absent
<1> QED BY <1>1, <1>2, <1>4

\* A new entry where its probe meets a free one.
LEMMA Placed ==
  ASSUME NEW m, NEW kind, NEW f, Holding(m, kind, f), NEW k \in MKeys, NEW v \in Vals,
         Name(k, kind) \notin DOMAIN f, NEW i,
         FirstFree(AsTable(m, kind), [key |-> Name(k, kind), value |-> v], i)
  PROVE  LET s == WithEntry(m, i, [key |-> k, value |-> v]) IN
         /\ Holding(s, kind, Put(f, Name(k, kind), v))
         /\ Filled(s) = Filled(m) \cup {i} /\ i \notin Filled(m)
         /\ Live(s) = Live(m) \cup {i} /\ i \notin Live(m)
         /\ i \in 0..m.cap-1 /\ (NoMarks(m) => NoMarks(s))
<1> DEFINE t == AsTable(m, kind)
           n == Name(k, kind)
           e == [key |-> n, value |-> v]
           ent == [key |-> k, value |-> v]
           s == WithEntry(m, i, ent)
           ts == AsTable(s, kind)
           st == Store(t, i, e)
<1>1. /\ IsTable(t, Names(kind), NamedEntries(kind)) /\ Chained(t) /\ KeysDiffer(t)
      /\ Keys(t) = DOMAIN f /\ Used(t) = Live(m) /\ Free(t) = Empties(m) /\ Taken(t) = Filled(m)
      /\ \A l \in Live(m) : l \in 0..m.cap-1 /\ m.ents[l].key \in MKeys
  BY HoldingFacts
<1>2. IsMap(m)
  BY DEF Holding
<1>3. i \in Empties(m) /\ i \in 0..m.cap-1 /\ i \notin Live(m) /\ m.ents[i].key = EMPTY
  <2>1. i \in Free(t)
    BY DEF FirstFree
  <2> QED BY <1>1, <2>1, MarksAreNoKeys DEF Empties
<1>4. ent \in Entries /\ ent.key = k /\ ent.value = v /\ e \in NamedEntries(kind) /\ e.key = n
  BY DEF Entries, NamedEntries, Names
<1>5. /\ IsMap(s) /\ s.cap = m.cap /\ s.seed = m.seed
      /\ \A l \in 0..m.cap-1 : s.ents[l] = IF l = i THEN ent ELSE m.ents[l]
  BY <1>2, <1>4, WithEntryFacts
<1>6. FirstFree(t, e, i)
  OBVIOUS
<1> HIDE DEF s, t, ent, e
<1>7. IsTable(st, Names(kind), NamedEntries(kind)) /\ Chained(st) /\ KeysDiffer(st)
  <2>1. e.key \in Names(kind) \ Keys(t)
    BY <1>1, <1>4 DEF Names
  <2> QED BY <1>1, <1>4, <1>6, <2>1, StoreRight
<1>8. ts = st
  <2> DEFINE Bits(x) == [l \in 0..m.cap-1 |-> IF x.ents[l].key = EMPTY THEN STATUS_FREE
                                             ELSE IF x.ents[l].key = DELMARK THEN 3 ELSE STATUS_USE]
             Ents(x) == [l \in 0..m.cap-1 |-> Named(x.ents[l], kind)]
             seed == [b \in Names(kind) |-> m.seed[b]]
  <2>1. t.ents = Ents(m) /\ t.bits = Bits(m) /\ t.cap = m.cap /\ t.len = 0 /\ t.seed = seed
    BY DEF AsTable, t
  <2>2. st = [cap |-> m.cap, len |-> 0, seed |-> seed,
              ents |-> [t.ents EXCEPT ![i] = e], bits |-> [t.bits EXCEPT ![i] = STATUS_USE]]
    <3>1. bit_set2(t.bits, i, STATUS_USE) = [t.bits EXCEPT ![i] = STATUS_USE]
      BY <1>6 DEF bit_set2, FirstFree, Free
    <3>2. st = [[t EXCEPT !.ents = [t.ents EXCEPT ![i] = e]] EXCEPT !.bits = [t.bits EXCEPT ![i] = STATUS_USE]]
      BY <3>1, <1>1 DEF Store, IsTable
    <3>3. st = [cap |-> t.cap, len |-> t.len, seed |-> t.seed,
                ents |-> [t.ents EXCEPT ![i] = e], bits |-> [t.bits EXCEPT ![i] = STATUS_USE]]
      BY <3>2, <1>1 DEF IsTable
    <3> QED BY <3>3, <2>1
  <2>3. ts = [cap |-> m.cap, len |-> 0, seed |-> seed, ents |-> Ents(s), bits |-> Bits(s)]
    BY <1>5 DEF AsTable
  <2>4. Ents(s) = [t.ents EXCEPT ![i] = e]
    <3>1. Named(ent, kind) = e
      BY <1>4 DEF Named, ent, e, n
    <3>2. \A l \in 0..m.cap-1 : Named(s.ents[l], kind) = IF l = i THEN e ELSE Named(m.ents[l], kind)
      BY <3>1, <1>5
    <3>3. [t.ents EXCEPT ![i] = e] = [l \in 0..m.cap-1 |-> IF l = i THEN e ELSE Named(m.ents[l], kind)]
      BY <2>1, <1>3
    <3> QED BY <3>2, <3>3
  <2>5. Bits(s) = [t.bits EXCEPT ![i] = STATUS_USE]
    <3>1. ent.key # EMPTY /\ ent.key # DELMARK
      BY <1>4, MarksAreNoKeys
    <3> DEFINE Bit(x, l) == IF x.ents[l].key = EMPTY THEN STATUS_FREE
                            ELSE IF x.ents[l].key = DELMARK THEN 3 ELSE STATUS_USE
    <3>2. \A l \in 0..m.cap-1 : Bit(s, l) = IF l = i THEN STATUS_USE ELSE Bit(m, l)
      BY <3>1, <1>5
    <3>3. Bits(s) = [l \in 0..m.cap-1 |-> Bit(s, l)] /\ t.bits = [l \in 0..m.cap-1 |-> Bit(m, l)]
      BY <2>1
    <3> HIDE DEF Bit, Bits
    <3>4. [t.bits EXCEPT ![i] = STATUS_USE] = [l \in 0..m.cap-1 |-> IF l = i THEN STATUS_USE ELSE Bit(m, l)]
      BY <3>3, <1>3
    <3> QED BY <3>2, <3>3, <3>4
  <2> HIDE DEF ts, st, Ents, Bits, seed
  <2> QED BY <2>2, <2>3, <2>4, <2>5
<1>9. Live(s) = Live(m) \cup {i} /\ Filled(s) = Filled(m) \cup {i} /\ i \notin Filled(m)
  <2>1. ent.key \notin {EMPTY, DELMARK}
    BY <1>4, MarksAreNoKeys
  <2> QED BY <2>1, <1>3, <1>5 DEF Live, IsLive, Filled
<1>10. NoMarks(m) => NoMarks(s)
  BY <1>4, <1>5, MarksAreNoKeys DEF NoMarks
<1> DEFINE h == Put(f, n, v)
<1>11. DOMAIN h = DOMAIN f \cup {n} /\ h[n] = v /\ \A b \in DOMAIN f : h[b] = f[b]
  BY DEF Put, n
<1>12. /\ \A l \in Live(m) : s.ents[l] = m.ents[l]
       /\ s.ents[i].key = k /\ s.ents[i].value = v
  BY <1>1, <1>3, <1>4, <1>5
<1> HIDE DEF h
<1>13. \A l \in Live(s) : /\ Name(s.ents[l].key, kind) \in DOMAIN h
                          /\ h[Name(s.ents[l].key, kind)] = s.ents[l].value
  BY <1>9, <1>11, <1>12 DEF Holding, n
<1>14. \A b \in DOMAIN h : \E l \in Live(s) : Name(s.ents[l].key, kind) = b
  BY <1>9, <1>11, <1>12 DEF Holding, n
<1>15. Holding(s, kind, h)
  BY <1>5, <1>7, <1>8, <1>13, <1>14 DEF Holding
<1> QED BY <1>3, <1>9, <1>10, <1>15 DEF h, s, ent, n

\* A new value, or a deletion, of the entry at i.
LEMMA Changed ==
  ASSUME NEW m, NEW kind, NEW f, Holding(m, kind, f), NEW i \in Live(m), NEW ent \in Entries,
         ent.key \in {m.ents[i].key, DELMARK}
  PROVE  LET s == WithEntry(m, i, ent) IN
         /\ IsMap(s) /\ s.cap = m.cap /\ s.len = m.len
         /\ Chained(AsTable(s, kind)) /\ KeysDiffer(AsTable(s, kind))
         /\ Filled(s) = Filled(m)
         /\ Live(s) = IF ent.key = DELMARK THEN Live(m) \ {i} ELSE Live(m)
         /\ s.ents[i] = ent /\ \A l \in Live(m) \ {i} : s.ents[l] = m.ents[l]
<1> DEFINE t == AsTable(m, kind)
           s == WithEntry(m, i, ent)
           ts == AsTable(s, kind)
<1>1. /\ IsTable(t, Names(kind), NamedEntries(kind)) /\ Chained(t) /\ KeysDiffer(t)
      /\ Used(t) = Live(m) /\ Taken(t) = Filled(m)
      /\ \A l \in Live(m) : l \in 0..m.cap-1 /\ m.ents[l].key \in MKeys
  BY HoldingFacts
<1>2. IsMap(m)
  BY DEF Holding
<1>3. /\ IsMap(s) /\ s.cap = m.cap /\ s.seed = m.seed /\ s.len = m.len
      /\ \A l \in 0..m.cap-1 : s.ents[l] = IF l = i THEN ent ELSE m.ents[l]
  BY <1>2, WithEntryFacts
<1>4. /\ t.cap = m.cap /\ t.len = 0 /\ Indices(t) = 0..m.cap-1
      /\ t.seed = [b \in Names(kind) |-> m.seed[b]]
      /\ \A l \in 0..m.cap-1 : t.ents[l] = Named(m.ents[l], kind)
  BY <1>2, AsTableFacts DEF AsTable
<1> HIDE DEF s
<1>5. /\ IsTable(ts, Names(kind), NamedEntries(kind))
      /\ ts.cap = s.cap /\ ts.len = 0 /\ Indices(ts) = 0..s.cap-1
      /\ ts.seed = [b \in Names(kind) |-> s.seed[b]]
      /\ \A l \in 0..s.cap-1 : ts.ents[l] = Named(s.ents[l], kind)
      /\ Used(ts) = Live(s) /\ Taken(ts) = Filled(s)
  BY <1>3, AsTableFacts DEF AsTable
<1> HIDE DEF t, ts
<1>6. i \in 0..m.cap-1 /\ m.ents[i].key \in MKeys /\ s.ents[i] = ent
  BY <1>1, <1>3
<1>7. \A l \in Live(m) \ {i} : s.ents[l] = m.ents[l]
  BY <1>1, <1>3
<1>8. Filled(s) = Filled(m)
  BY <1>3, <1>6, MarksAreNoKeys DEF Filled
<1>9. Live(s) = IF ent.key = DELMARK THEN Live(m) \ {i} ELSE Live(m)
  <2>1. CASE ent.key = DELMARK
    BY <2>1, <1>3, <1>6, MarksAreNoKeys DEF Live, IsLive
  <2>2. CASE ent.key # DELMARK
    <3>1. ent.key = m.ents[i].key
      BY <2>2
    <3> QED BY <3>1, <2>2, <1>3, <1>6 DEF Live, IsLive
  <2> QED BY <2>1, <2>2
<1>10. Chained(ts) /\ KeysDiffer(ts)
  <2>1. /\ ts = [cap |-> ts.cap, len |-> ts.len, seed |-> ts.seed, ents |-> ts.ents, bits |-> ts.bits]
        /\ ts.cap = t.cap /\ ts.len \in Nat
        /\ ts.ents = [l \in Indices(t) |-> ts.ents[l]]
        /\ ts.bits \in [Indices(t) -> {STATUS_FREE, STATUS_USE, 3}]
    BY <1>3, <1>4, <1>5 DEF IsTable
  <2>2. ts.seed = t.seed /\ Used(ts) \subseteq Used(t) /\ Taken(ts) = Taken(t)
    BY <1>1, <1>3, <1>4, <1>5, <1>8, <1>9
  <2>3. ASSUME NEW l \in Used(ts)
        PROVE  ts.ents[l] \in NamedEntries(kind) /\ ts.ents[l].key = t.ents[l].key
    <3>1. ts.ents[l] \in NamedEntries(kind)
      BY <1>5 DEF IsTable
    <3>2. l \in Live(m) /\ l \in 0..m.cap-1 /\ (l = i => ent.key # DELMARK)
      BY <1>1, <1>5, <1>9
    <3>3. s.ents[l].key = m.ents[l].key
      BY <3>2, <1>6, <1>7
    <3>4. \A x : Named(x, kind).key = Name(x.key, kind)
      BY DEF Named
    <3>5. ts.ents[l].key = Name(s.ents[l].key, kind) /\ t.ents[l].key = Name(m.ents[l].key, kind)
      BY <3>2, <3>4, <1>3, <1>4, <1>5
    <3> QED BY <3>1, <3>3, <3>5
  <2>4. IsTable(t, Names(kind), NamedEntries(kind)) /\ Chained(t) /\ KeysDiffer(t)
    BY <1>1
  <2> QED BY <2>1, <2>2, <2>3, <2>4, SameKeys, SMTT(60)
<1> QED BY <1>3, <1>6, <1>7, <1>8, <1>9, <1>10 DEF s, ts

LEMMA Overwritten ==
  ASSUME NEW m, NEW kind, NEW f, Holding(m, kind, f), NEW i \in Live(m), NEW v \in Vals
  PROVE  LET s == WithEntry(m, i, [key |-> m.ents[i].key, value |-> v])
             n == Name(m.ents[i].key, kind)
         IN  /\ Holding(s, kind, Put(f, n, v)) /\ n \in DOMAIN f
             /\ s.cap = m.cap /\ s.len = m.len
             /\ Filled(s) = Filled(m) /\ Live(s) = Live(m) /\ (NoMarks(m) => NoMarks(s))
<1> DEFINE ent == [key |-> m.ents[i].key, value |-> v]
           s == WithEntry(m, i, ent)
           n == Name(m.ents[i].key, kind)
           h == Put(f, n, v)
<1>1. /\ i \in 0..m.cap-1 /\ m.ents[i].key \in MKeys
      /\ \A l \in Live(m) : Name(m.ents[l].key, kind) = n => l = i
  BY HoldingFacts
<1>2. ent \in Entries /\ ent.key = m.ents[i].key /\ ent.value = v /\ ent.key # DELMARK
  BY <1>1, MarksAreNoKeys DEF Entries
<1> HIDE DEF ent
<1>3. /\ IsMap(s) /\ s.cap = m.cap /\ s.len = m.len
      /\ Chained(AsTable(s, kind)) /\ KeysDiffer(AsTable(s, kind))
      /\ Filled(s) = Filled(m) /\ Live(s) = Live(m)
      /\ s.ents[i] = ent /\ \A l \in Live(m) \ {i} : s.ents[l] = m.ents[l]
  BY <1>2, Changed
<1> HIDE DEF s, n
<1>4. n \in DOMAIN f
  BY DEF Holding, n
<1>5. DOMAIN h = DOMAIN f /\ h[n] = v /\ \A b \in DOMAIN f \ {n} : h[b] = f[b]
  BY <1>4 DEF Put
<1> HIDE DEF h
<1>6. \A l \in Live(s) : s.ents[l].key = m.ents[l].key
  BY <1>2, <1>3
<1>7. ASSUME NEW l \in Live(s)
      PROVE  /\ Name(s.ents[l].key, kind) \in DOMAIN h
             /\ h[Name(s.ents[l].key, kind)] = s.ents[l].value
  <2>1. CASE l = i
    BY <2>1, <1>2, <1>3, <1>4, <1>5 DEF n
  <2>2. CASE l # i
    <3>1. s.ents[l] = m.ents[l] /\ l \in Live(m)
      BY <1>3, <2>2
    <3>2. Name(m.ents[l].key, kind) \in DOMAIN f \ {n} /\ f[Name(m.ents[l].key, kind)] = m.ents[l].value
      BY <1>1, <2>2, <3>1 DEF Holding, n
    <3> QED BY <1>5, <3>1, <3>2
  <2> QED BY <2>1, <2>2
<1>8. \A b \in DOMAIN h : \E l \in Live(s) : Name(s.ents[l].key, kind) = b
  BY <1>3, <1>5, <1>6 DEF Holding
<1>9. Holding(s, kind, h)
  BY <1>3, <1>7, <1>8 DEF Holding
<1>10. NoMarks(m) => NoMarks(s)
  <2> SUFFICES ASSUME NoMarks(m), NEW l \in 0..m.cap-1 PROVE s.ents[l].key # DELMARK
    BY <1>3 DEF NoMarks
  <2>1. IsMap(m) /\ (s.ents[l] = IF l = i THEN ent ELSE m.ents[l])
    BY <1>2, WithEntryFacts DEF Holding, s
  <2> QED BY <2>1, <1>2 DEF NoMarks
<1> QED BY <1>3, <1>4, <1>9, <1>10 DEF h, s, ent, n

\* len counts what the map holds, and the load factor leaves an empty entry.
MapRight(m, kind, f) ==
  /\ Holding(m, kind, f)
  /\ IsFiniteSet(DOMAIN f) /\ Cardinality(DOMAIN f) = m.len /\ Cardinality(Live(m)) = m.len
  /\ Cardinality(Filled(m)) =< m.cap - m.cap \div 4

LEMMA MapRoom ==
  ASSUME NEW m, IsMap(m), Cardinality(Filled(m)) < m.cap
  PROVE  Empties(m) # {}
<1> DEFINE t == AsTable(m, "bytes")
<1>1. IsTable(t, Names("bytes"), NamedEntries("bytes")) /\ Taken(t) = Filled(m) /\ t.cap = m.cap
      /\ Free(t) = Empties(m)
  BY AsTableFacts DEF Empties
<1> HIDE DEF t
<1> QED BY <1>1, SomeFree

LEMMA LiveIsFilled ==
  ASSUME NEW m, IsMap(m)
  PROVE  /\ Live(m) \subseteq Filled(m)
         /\ IsFiniteSet(Live(m)) /\ IsFiniteSet(Filled(m))
         /\ Cardinality(Live(m)) \in Nat /\ Cardinality(Filled(m)) \in Nat
         /\ Cardinality(Live(m)) =< Cardinality(Filled(m))
         /\ (NoMarks(m) => Filled(m) = Live(m))
<1>1. Live(m) \subseteq Filled(m)
  BY DEF Live, IsLive, Filled
<1>2. IsFiniteSet(Filled(m)) /\ Cardinality(Filled(m)) \in Nat
  BY FilledFinite DEF Filled
<1>3. IsFiniteSet(Live(m)) /\ Cardinality(Live(m)) \in Nat
  BY FilledFinite DEF Live
<1>4. Cardinality(Live(m)) =< Cardinality(Filled(m))
  BY <1>1, <1>2, FS_Subset
<1>5. NoMarks(m) => Filled(m) = Live(m)
  BY DEF NoMarks, Live, IsLive, Filled
<1> QED BY <1>1, <1>2, <1>3, <1>4, <1>5

LEMMA RightRoom ==
  ASSUME NEW m, NEW kind, NEW f, MapRight(m, kind, f)
  PROVE  /\ Empties(m) # {} /\ m.len \in Nat /\ m.cap \in Nat /\ m.cap >= 4
         /\ m.len =< m.cap - m.cap \div 4
<1>1. IsMap(m) /\ m.len \in Nat /\ m.cap \in Nat /\ m.cap >= 4
  BY DEF MapRight, Holding, IsMap
<1>2. /\ Cardinality(Live(m)) \in Nat /\ Cardinality(Filled(m)) \in Nat
      /\ Cardinality(Live(m)) =< Cardinality(Filled(m))
  BY <1>1, LiveIsFilled
<1>3. Cardinality(Filled(m)) < m.cap /\ m.len =< m.cap - m.cap \div 4
  BY <1>1, <1>2 DEF MapRight
<1> QED BY <1>1, <1>3, MapRoom

\* Where map_assign stops, if it does not stop at a deleted entry.
LEMMA AssignIndexRight ==
  ASSUME NEW m, NEW kind, NEW f, Holding(m, kind, f), Empties(m) # {}, NEW k \in MKeys,
         NoMarks(m) \/ KeyEq(m.ents[AssignIndex(m, k, kind)].key, k, kind)
  PROVE  LET i == AssignIndex(m, k, kind) IN
         IF KeyEq(m.ents[i].key, k, kind)
         THEN i \in Live(m) /\ Name(m.ents[i].key, kind) = Name(k, kind)
         ELSE /\ NoMarks(m) /\ Name(k, kind) \notin DOMAIN f
              /\ \A w : FirstFree(AsTable(m, kind), [key |-> Name(k, kind), value |-> w], i)
<1> DEFINE i == AssignIndex(m, k, kind)
<1>1. i = FirstAt(m, k, kind, {EMPTY, DELMARK}) /\ IsMap(m)
  BY DEF AssignIndex, Holding
<1> HIDE DEF i
<1>2. CASE KeyEq(m.ents[i].key, k, kind)
  <2>1. MapStops(m, k, kind, {EMPTY, DELMARK}) # {}
    BY DEF MapStops, Empties
  <2>2. i \in MapStops(m, k, kind, {EMPTY, DELMARK})
    BY <1>1, <2>1, FirstAtRange
  <2>3. i \in Live(m)
    BY <1>2, <2>2 DEF MapStops, Live, IsLive, KeyEq
  <2> QED BY <1>2, <2>3 DEF KeyEq, i
<1>3. CASE ~KeyEq(m.ents[i].key, k, kind)
  <2>1. NoMarks(m)
    BY <1>3 DEF i
  <2>2. MapStops(m, k, kind, {EMPTY, DELMARK}) = MapStops(m, k, kind, {EMPTY})
    BY <2>1 DEF MapStops, NoMarks
  <2>3. i = FirstAt(m, k, kind, {EMPTY})
    BY <1>1, <2>2, FirstAtIs
  <2>4. /\ Name(k, kind) \notin DOMAIN f
        /\ \A w : FirstFree(AsTable(m, kind), [key |-> Name(k, kind), value |-> w], i)
    <3>1. IF Name(k, kind) \in DOMAIN f THEN KeyEq(m.ents[i].key, k, kind)
          ELSE \A w : FirstFree(AsTable(m, kind), [key |-> Name(k, kind), value |-> w], i)
      BY <2>3, MapLookupRight
    <3> QED BY <3>1, <1>3
  <2> QED BY <1>3, <2>1, <2>4 DEF i
<1> QED BY <1>2, <1>3

\* An assignment that finds room.
LEMMA StoredRight ==
  ASSUME NEW m, NEW kind, NEW f, MapRight(m, kind, f), NEW k \in MKeys, NEW v \in Vals,
         NoMarks(m) \/ KeyEq(m.ents[AssignIndex(m, k, kind)].key, k, kind),
         m.len < m.cap - m.cap \div 4
  PROVE  LET s == Stored(m, k, v, kind) IN
         /\ MapRight(s, kind, Put(f, Name(k, kind), v))
         /\ s.cap = m.cap /\ s.len =< m.len + 1 /\ (NoMarks(m) => NoMarks(s))
<1> DEFINE i == AssignIndex(m, k, kind)
           s == Stored(m, k, v, kind)
           n == Name(k, kind)
           h == Put(f, n, v)
<1>1. /\ Holding(m, kind, f) /\ IsMap(m) /\ Empties(m) # {}
      /\ m.len \in Nat /\ m.cap \in Nat /\ m.cap >= 4
  BY RightRoom DEF MapRight, Holding
<1>2. IF KeyEq(m.ents[i].key, k, kind)
      THEN i \in Live(m) /\ Name(m.ents[i].key, kind) = n
      ELSE /\ NoMarks(m) /\ n \notin DOMAIN f
           /\ \A w : FirstFree(AsTable(m, kind), [key |-> n, value |-> w], i)
  BY <1>1, AssignIndexRight
<1>3. IF KeyEq(m.ents[i].key, k, kind)
      THEN \/ i \notin 0..m.cap-1 /\ s = m
           \/ i \in 0..m.cap-1 /\ s = WithEntry(m, i, [key |-> m.ents[i].key, value |-> v])
      ELSE s = WithLen(WithEntry(m, i, [key |-> k, value |-> v]), m.len + 1)
  BY <1>1, StoredIs
<1> HIDE DEF i, s
<1>4. CASE KeyEq(m.ents[i].key, k, kind)
  <2>1. i \in Live(m) /\ i \in 0..m.cap-1 /\ Name(m.ents[i].key, kind) = n
    BY <1>2, <1>4 DEF Live
  <2>2. s = WithEntry(m, i, [key |-> m.ents[i].key, value |-> v])
    BY <1>3, <1>4, <2>1
  <2>3. /\ Holding(s, kind, h) /\ n \in DOMAIN f /\ s.cap = m.cap /\ s.len = m.len
        /\ Filled(s) = Filled(m) /\ Live(s) = Live(m) /\ (NoMarks(m) => NoMarks(s))
    BY <1>1, <2>1, <2>2, Overwritten
  <2>4. DOMAIN h = DOMAIN f
    BY <2>3 DEF Put
  <2> HIDE DEF h, n
  <2>5. MapRight(s, kind, h)
    BY <2>3, <2>4 DEF MapRight
  <2> QED BY <1>1, <2>3, <2>5 DEF s, h, n
<1>5. CASE ~KeyEq(m.ents[i].key, k, kind)
  <2> DEFINE r == WithEntry(m, i, [key |-> k, value |-> v])
  <2>1. NoMarks(m) /\ n \notin DOMAIN f /\ FirstFree(AsTable(m, kind), [key |-> n, value |-> v], i)
    BY <1>2, <1>5
  <2>2. /\ Holding(r, kind, h) /\ Filled(r) = Filled(m) \cup {i} /\ i \notin Filled(m)
        /\ Live(r) = Live(m) \cup {i} /\ i \notin Live(m) /\ NoMarks(r)
    BY <1>1, <2>1, Placed
  <2>3. IsMap(r) /\ r.cap = m.cap
    <3>1. [key |-> k, value |-> v] \in Entries
      BY DEF Entries
    <3> QED BY <3>1, <1>1, WithEntryFacts
  <2>4. s = WithLen(r, m.len + 1)
    BY <1>3, <1>5
  <2> HIDE DEF r
  <2>5. /\ IsMap(s) /\ s.cap = m.cap /\ s.len = m.len + 1 /\ s.ents = r.ents
        /\ AsTable(s, kind) = AsTable(r, kind) /\ Live(s) = Live(r) /\ Filled(s) = Filled(r)
        /\ NoMarks(s)
    <3>1. m.len + 1 \in Nat
      BY <1>1
    <3> QED BY <2>2, <2>3, <2>4, <3>1, WithLenFacts
  <2>6. Holding(s, kind, h)
    BY <2>2, <2>5 DEF Holding
  <2>7. IsFiniteSet(DOMAIN h) /\ Cardinality(DOMAIN h) = m.len + 1
    <3>1. DOMAIN h = DOMAIN f \cup {n}
      BY DEF Put
    <3>2. IsFiniteSet(DOMAIN f) /\ Cardinality(DOMAIN f) = m.len
      BY DEF MapRight
    <3> HIDE DEF h, n
    <3> QED BY <3>1, <3>2, <2>1, FS_AddElement
  <2>8. /\ IsFiniteSet(Live(m)) /\ Cardinality(Live(m)) = m.len
        /\ Filled(m) = Live(m)
    BY <1>1, <2>1, LiveIsFilled DEF MapRight
  <2>9. Cardinality(Live(s)) = m.len + 1 /\ Cardinality(Filled(s)) = m.len + 1
    <3>1. Cardinality(Live(m) \cup {i}) = m.len + 1
      BY <2>2, <2>8, FS_AddElement
    <3>2. Live(s) = Live(m) \cup {i} /\ Filled(s) = Live(m) \cup {i}
      BY <2>2, <2>5, <2>8
    <3> QED BY <3>1, <3>2
  <2>10. m.len + 1 =< m.cap - m.cap \div 4
    BY <1>1
  <2> HIDE DEF h, n
  <2>11. MapRight(s, kind, h)
    BY <2>5, <2>6, <2>7, <2>9, <2>10 DEF MapRight
  <2> QED BY <1>1, <2>5, <2>11 DEF s, h, n
<1> QED BY <1>4, <1>5

LEMMA NewMapRight ==
  ASSUME NEW cap \in Nat, cap >= 4, NEW seed \in MHashes, NEW kind, NEW f, DOMAIN f = {}
  PROVE  /\ MapRight(NewMap(cap, seed), kind, f) /\ NoMarks(NewMap(cap, seed))
         /\ NewMap(cap, seed).cap = cap /\ NewMap(cap, seed).len = 0
<1> DEFINE s == NewMap(cap, seed)
<1>1. IsMap(s) /\ s.cap = cap /\ s.len = 0 /\ Live(s) = {} /\ Filled(s) = {} /\ NoMarks(s)
  BY NewMapFacts
<1> HIDE DEF s
<1>2. Used(AsTable(s, kind)) = {}
  BY <1>1, AsTableFacts
<1>3. Chained(AsTable(s, kind)) /\ KeysDiffer(AsTable(s, kind))
  BY <1>2 DEF Chained, KeysDiffer
<1>4. Holding(s, kind, f)
  BY <1>1, <1>3 DEF Holding
<1>5. MapRight(s, kind, f)
  BY <1>1, <1>4, FS_EmptySet DEF MapRight
<1> QED BY <1>1, <1>5 DEF s

\* Moving the entries by bytes keeps what a map of byte strings holds.
NamesUpto(m, n) == {Name(m.ents[i].key, "bytes") : i \in LiveUpto(m, n)}

HasMovedMap(new, m, n, f) ==
  /\ Holding(new, "bytes", [b \in NamesUpto(m, n) |-> f[b]]) /\ NoMarks(new)
  /\ Cardinality(Live(new)) = Cardinality(LiveUpto(m, n))

LEMMA MapMovedOne ==
  ASSUME NEW m, NEW f, Holding(m, "bytes", f), NEW n \in 1..m.cap, n - 1 \in Live(m),
         NEW r, HasMovedMap(r, m, n - 1, f), Cardinality(Live(m)) < r.cap, NEW kind
  PROVE  LET s == map_relocate(r, m.ents[n - 1], kind) IN HasMovedMap(s, m, n, f) /\ s.cap = r.cap
<1> DEFINE ent == m.ents[n - 1]
           nm == Name(ent.key, "bytes")
           F(l) == [b \in NamesUpto(m, l) |-> f[b]]
           i == FirstAt(r, ent.key, "bytes", {EMPTY})
           s == WithEntry(r, i, ent)
<1>1. IsMap(m) /\ IsMap(r) /\ Holding(r, "bytes", F(n - 1)) /\ NoMarks(r)
  BY DEF Holding, HasMovedMap
<1>2. /\ n - 1 \in 0..m.cap-1 /\ ent.key \in MKeys /\ ent.value \in Vals
      /\ ent = [key |-> ent.key, value |-> ent.value] /\ ent \in Entries
      /\ nm \in DOMAIN f /\ f[nm] = ent.value
  <2>1. n - 1 \in 0..m.cap-1 /\ ent.key \in MKeys
    BY HoldingFacts
  <2>2. ent = [key |-> ent.key, value |-> ent.value] /\ ent \in Entries /\ ent.value \in Vals
    BY <2>1, <1>1, EntriesOf DEF Entries
  <2>3. nm \in DOMAIN f /\ f[nm] = ent.value
    BY DEF Holding
  <2> QED BY <2>1, <2>2, <2>3
<1>3. /\ IsFiniteSet(LiveUpto(m, n - 1)) /\ Cardinality(LiveUpto(m, n - 1)) \in Nat
      /\ LiveUpto(m, n) = LiveUpto(m, n - 1) \cup {n - 1} /\ n - 1 \notin LiveUpto(m, n - 1)
      /\ Cardinality(LiveUpto(m, n)) = Cardinality(LiveUpto(m, n - 1)) + 1
  BY <1>1, LiveUptoSteps
<1>4. nm \notin NamesUpto(m, n - 1) /\ NamesUpto(m, n) = NamesUpto(m, n - 1) \cup {nm}
  <2>1. \A l \in Live(m) : Name(m.ents[l].key, "bytes") = nm => l = n - 1
    BY HoldingFacts
  <2>2. \A l \in LiveUpto(m, n - 1) : l \in Live(m)
    BY DEF LiveUpto
  <2> QED BY <2>1, <2>2, <1>3 DEF NamesUpto
<1>5. Empties(r) # {}
  <2>1. /\ IsFiniteSet(Live(r)) /\ Cardinality(Live(r)) \in Nat /\ Filled(r) = Live(r)
        /\ IsFiniteSet(Live(m)) /\ Cardinality(Live(m)) \in Nat
    BY <1>1, LiveIsFilled
  <2>2. Cardinality(LiveUpto(m, n - 1)) =< Cardinality(Live(m))
    BY <2>1, FS_Subset DEF LiveUpto
  <2>3. r.cap \in Nat
    BY <1>1 DEF IsMap
  <2>4. Cardinality(Filled(r)) < r.cap
    BY <2>1, <2>2, <2>3, <1>3 DEF HasMovedMap
  <2> QED BY <2>4, <1>1, MapRoom
<1>6. map_relocate(r, ent, kind) = s
  BY DEF map_relocate, RelocationKind, WithEntry
<1> HIDE DEF ent, nm, F, i, s
<1>7. nm \notin DOMAIN F(n - 1)
  BY <1>4 DEF F
<1>8. FirstFree(AsTable(r, "bytes"), [key |-> nm, value |-> ent.value], i)
  BY <1>1, <1>2, <1>5, <1>7, MapLookupRight DEF nm, i
<1>9. /\ Holding(s, "bytes", Put(F(n - 1), nm, ent.value))
      /\ Live(s) = Live(r) \cup {i} /\ i \notin Live(r) /\ NoMarks(s)
  BY <1>1, <1>2, <1>7, <1>8, Placed DEF nm, s
<1>10. Put(F(n - 1), nm, ent.value) = F(n)
  BY <1>2, <1>4 DEF Put, F
<1>11. Cardinality(Live(s)) = Cardinality(LiveUpto(m, n))
  <2>1. IsFiniteSet(Live(r)) /\ Cardinality(Live(r)) = Cardinality(LiveUpto(m, n - 1))
    BY <1>1, LiveIsFilled DEF HasMovedMap
  <2>2. Cardinality(Live(r) \cup {i}) = Cardinality(Live(r)) + 1
    BY <2>1, <1>9, FS_AddElement
  <2> QED BY <2>1, <2>2, <1>3, <1>9
<1>12. s.cap = r.cap
  BY <1>1, <1>2, WithEntryFacts DEF s
<1>13. HasMovedMap(s, m, n, f)
  BY <1>9, <1>10, <1>11 DEF HasMovedMap, F
<1> QED BY <1>6, <1>12, <1>13 DEF ent

LEMMA GrownRight ==
  ASSUME NEW m, NEW f, MapRight(m, "bytes", f), NEW newcap \in Nat, newcap >= 4,
         NEW seed \in MHashes, m.len =< newcap - newcap \div 4, NEW kind
  PROVE  LET s == map_grow1(m, newcap, seed, kind) IN
         MapRight(s, "bytes", f) /\ s.cap = newcap /\ s.len = m.len /\ NoMarks(s)
<1>1. PICK g :
        /\ map_grow1(m, newcap, seed, kind) = WithLen(g[m.cap], m.len)
        /\ g[0] = NewMap(newcap, seed)
        /\ \A n \in 1..m.cap :
             g[n] = IF IsLive(m.ents[n - 1]) THEN map_relocate(g[n - 1], m.ents[n - 1], kind)
                    ELSE g[n - 1]
  BY GrowSteps DEF MapRight, Holding
<1>2. /\ Holding(m, "bytes", f) /\ IsMap(m) /\ m.cap \in Nat /\ m.cap >= 4 /\ m.len \in Nat
      /\ Cardinality(Live(m)) = m.len
  BY DEF MapRight, Holding, IsMap
<1> DEFINE S == {n \in 0..m.cap : HasMovedMap(g[n], m, n, f) /\ g[n].cap = newcap}
<1>3. 0 \in S
  <2>1. LiveUpto(m, 0) = {}
    BY <1>2 DEF LiveUpto
  <2> DEFINE h == [b \in NamesUpto(m, 0) |-> f[b]]
  <2>2. DOMAIN h = {}
    BY <2>1 DEF NamesUpto
  <2>3. IsMap(g[0]) /\ Live(g[0]) = {} /\ NoMarks(g[0]) /\ g[0].cap = newcap
    BY <1>1, NewMapFacts
  <2> HIDE DEF h
  <2>4. Holding(g[0], "bytes", h)
    BY <1>1, <2>2, NewMapRight DEF MapRight
  <2>5. HasMovedMap(g[0], m, 0, f)
    BY <2>1, <2>3, <2>4 DEF HasMovedMap, h
  <2> QED BY <1>2, <2>3, <2>5
<1>4. ASSUME NEW n \in 1..m.cap, n - 1 \in S
      PROVE  n \in S
  <2>1. HasMovedMap(g[n - 1], m, n - 1, f) /\ g[n - 1].cap = newcap
    BY <1>4
  <2>2. n - 1 \in 0..m.cap-1
    BY <1>2
  <2>3. CASE n - 1 \in Live(m)
    <3>1. g[n] = map_relocate(g[n - 1], m.ents[n - 1], kind)
      BY <1>1, <2>3 DEF Live
    <3>2. Cardinality(Live(m)) < newcap
      BY <1>2
    <3> QED BY <3>1, <3>2, <1>2, <2>1, <2>3, MapMovedOne
  <2>4. CASE n - 1 \notin Live(m)
    <3>1. g[n] = g[n - 1]
      BY <1>1, <2>2, <2>4 DEF Live
    <3>2. LiveUpto(m, n) = LiveUpto(m, n - 1)
      BY <1>2, <2>4, LiveUptoSteps
    <3>3. NamesUpto(m, n) = NamesUpto(m, n - 1)
      BY <3>2 DEF NamesUpto
    <3> QED BY <3>1, <3>2, <3>3, <2>1 DEF HasMovedMap
  <2> QED BY <2>3, <2>4
<1> DEFINE top == g[m.cap]
           s == map_grow1(m, newcap, seed, kind)
<1>5. HasMovedMap(top, m, m.cap, f) /\ top.cap = newcap
  <2>1. 0..m.cap \subseteq S
    BY <1>2, <1>3, <1>4, Induction
  <2> QED BY <1>2, <2>1
<1>6. s = WithLen(top, m.len)
  BY <1>1
<1> HIDE DEF top, s
<1>7. LiveUpto(m, m.cap) = Live(m)
  BY <1>2 DEF LiveUpto, Live
<1>8. NamesUpto(m, m.cap) = DOMAIN f
  BY <1>7, <1>2 DEF NamesUpto, Holding
<1>9. Holding(top, "bytes", f) /\ IsMap(top) /\ NoMarks(top) /\ Cardinality(Live(top)) = m.len
  <2>1. Holding(top, "bytes", [b \in DOMAIN f |-> f[b]]) /\ NoMarks(top)
        /\ Cardinality(Live(top)) = m.len
    BY <1>2, <1>5, <1>7, <1>8 DEF HasMovedMap
  <2> QED BY <2>1 DEF Holding
<1>10. /\ IsMap(s) /\ s.cap = newcap /\ s.len = m.len /\ s.ents = top.ents
       /\ AsTable(s, "bytes") = AsTable(top, "bytes") /\ Live(s) = Live(top) /\ Filled(s) = Filled(top)
       /\ NoMarks(s)
  BY <1>2, <1>5, <1>6, <1>9, WithLenFacts
<1>11. Holding(s, "bytes", f)
  BY <1>9, <1>10 DEF Holding
<1>12. Cardinality(Filled(s)) = m.len
  BY <1>9, <1>10, LiveIsFilled
<1>13. MapRight(s, "bytes", f)
  BY <1>9, <1>10, <1>11, <1>12 DEF MapRight
<1> QED BY <1>10, <1>13 DEF s

LEMMA IndexOfLive ==
  ASSUME NEW m, NEW kind, IsMap(m), NEW k \in MKeys, IndexOf(m, k, kind) # Absent
  PROVE  LET i == IndexOf(m, k, kind) IN
         i \in Live(m) /\ i \in 0..m.cap-1 /\ Name(m.ents[i].key, kind) = Name(k, kind)
<1> DEFINE i == FirstAt(m, k, kind, {EMPTY})
<1>1. IndexOf(m, k, kind) = i /\ i # Absent /\ KeyEq(m.ents[i].key, k, kind)
  BY DEF IndexOf
<1>2. i \in MapStops(m, k, kind, {EMPTY})
  BY <1>1, FirstAtRange
<1> HIDE DEF i
<1>3. i \in 0..m.cap-1
  BY <1>2 DEF MapStops
<1> QED BY <1>1, <1>3 DEF KeyEq, Live, IsLive

DeletedAt(m, i) == [m EXCEPT !.len = @ - 1, !.ents[i].key = DELMARK]

LEMMA DeletedIs ==
  ASSUME NEW m, IsMap(m), NEW i \in 0..m.cap-1
  PROVE  LET ent == [key |-> DELMARK, value |-> m.ents[i].value] IN
         DeletedAt(m, i) = WithLen(WithEntry(m, i, ent), m.len - 1) /\ ent \in Entries
<1> DEFINE ent == [key |-> DELMARK, value |-> m.ents[i].value]
<1>1. m.ents[i] \in Entries /\ m.ents[i] = [key |-> m.ents[i].key, value |-> m.ents[i].value]
  BY EntriesOf
<1>2. ent \in Entries
  BY <1>1 DEF Entries
<1>3. [m.ents[i] EXCEPT !.key = DELMARK] = ent
  BY <1>1
<1>4. m = [cap |-> m.cap, len |-> m.len, seed |-> m.seed, ents |-> m.ents]
  BY DEF IsMap
<1>5. DeletedAt(m, i) = [m EXCEPT !.len = m.len - 1, !.ents = [m.ents EXCEPT ![i] = [m.ents[i] EXCEPT !.key = DELMARK]]]
  BY <1>4 DEF DeletedAt
<1>6. DeletedAt(m, i) = WithLen(WithEntry(m, i, ent), m.len - 1)
  BY <1>3, <1>4, <1>5 DEF WithLen, WithEntry
<1> QED BY <1>2, <1>6

LEMMA DeletedShape ==
  ASSUME NEW m, Shaped(m), NEW i \in Live(m)
  PROVE  Shaped(DeletedAt(m, i))
<1> DEFINE ent == [key |-> DELMARK, value |-> m.ents[i].value]
           r == WithEntry(m, i, ent)
           s == DeletedAt(m, i)
<1>1. IsMap(m) /\ i \in 0..m.cap-1 /\ m.len \in Nat /\ Cardinality(Live(m)) =< m.len
  BY DEF Shaped, IsMap, Live
<1>2. s = WithLen(r, m.len - 1) /\ ent \in Entries
  BY <1>1, DeletedIs
<1> HIDE DEF s
<1>3. /\ IsMap(r) /\ r.cap = m.cap
      /\ \A l \in 0..m.cap-1 : r.ents[l] = IF l = i THEN ent ELSE m.ents[l]
  BY <1>1, <1>2, WithEntryFacts
<1> HIDE DEF r
<1>4. Live(r) = Live(m) \ {i}
  BY <1>1, <1>3 DEF Live, IsLive
<1>5. /\ IsFiniteSet(Live(m)) /\ Cardinality(Live(m)) \in Nat
      /\ Cardinality(Live(r)) = Cardinality(Live(m)) - 1
  <2>1. IsFiniteSet(Live(m)) /\ Cardinality(Live(m)) \in Nat
    BY <1>1, LiveIsFilled
  <2> QED BY <2>1, <1>4, FS_RemoveElement
<1>6. Cardinality(Live(r)) \in Nat
  BY <1>3, LiveIsFilled
<1>7. m.len - 1 \in Nat /\ Cardinality(Live(r)) =< m.len - 1
  BY <1>1, <1>5, <1>6
<1>8. IsMap(s) /\ s.len = m.len - 1 /\ Live(s) = Live(r)
  BY <1>2, <1>3, <1>7, WithLenFacts
<1> QED BY <1>7, <1>8 DEF Shaped, s

LEMMA DeletedRight ==
  ASSUME NEW m, NEW kind, NEW f, MapRight(m, kind, f), NEW i \in Live(m)
  PROVE  LET n == Name(m.ents[i].key, kind)
             h == [b \in DOMAIN f \ {n} |-> f[b]]
         IN  /\ n \in DOMAIN f /\ MapRight(DeletedAt(m, i), kind, h)
             /\ m.len = 1 => DOMAIN h = {}
<1> DEFINE n == Name(m.ents[i].key, kind)
           h == [b \in DOMAIN f \ {n} |-> f[b]]
           ent == [key |-> DELMARK, value |-> m.ents[i].value]
           r == WithEntry(m, i, ent)
           s == DeletedAt(m, i)
<1>1. /\ Holding(m, kind, f) /\ IsMap(m) /\ i \in 0..m.cap-1 /\ m.len \in Nat /\ m.cap \in Nat
      /\ IsFiniteSet(DOMAIN f) /\ Cardinality(DOMAIN f) = m.len /\ Cardinality(Live(m)) = m.len
      /\ Cardinality(Filled(m)) =< m.cap - m.cap \div 4
  BY DEF MapRight, Holding, IsMap, Live
<1>2. s = WithLen(r, m.len - 1) /\ ent \in Entries /\ ent.key = DELMARK
  BY <1>1, DeletedIs
<1> HIDE DEF s, ent
<1>3. /\ IsMap(r) /\ r.cap = m.cap /\ r.len = m.len
      /\ Chained(AsTable(r, kind)) /\ KeysDiffer(AsTable(r, kind))
      /\ Filled(r) = Filled(m) /\ Live(r) = Live(m) \ {i}
      /\ \A l \in Live(m) \ {i} : r.ents[l] = m.ents[l]
  BY <1>1, <1>2, Changed
<1> HIDE DEF r, n
<1>4. n \in DOMAIN f /\ \A l \in Live(m) : Name(m.ents[l].key, kind) = n => l = i
  BY <1>1, HoldingFacts DEF Holding, n
<1>5. DOMAIN h = DOMAIN f \ {n} /\ \A b \in DOMAIN f \ {n} : h[b] = f[b]
  OBVIOUS
<1> HIDE DEF h
<1>6. \A l \in Live(r) : /\ Name(r.ents[l].key, kind) \in DOMAIN h
                         /\ h[Name(r.ents[l].key, kind)] = r.ents[l].value
  <2> SUFFICES ASSUME NEW l \in Live(m), l # i
               PROVE  /\ Name(m.ents[l].key, kind) \in DOMAIN h
                      /\ h[Name(m.ents[l].key, kind)] = m.ents[l].value
    BY <1>3
  <2>1. Name(m.ents[l].key, kind) \in DOMAIN f \ {n} /\ f[Name(m.ents[l].key, kind)] = m.ents[l].value
    BY <1>1, <1>4 DEF Holding
  <2> QED BY <2>1, <1>5
<1>7. \A b \in DOMAIN h : \E l \in Live(r) : Name(r.ents[l].key, kind) = b
  <2> SUFFICES ASSUME NEW b \in DOMAIN f \ {n}
               PROVE  \E l \in Live(r) : Name(r.ents[l].key, kind) = b
    BY <1>5
  <2>1. PICK l \in Live(m) : Name(m.ents[l].key, kind) = b
    BY <1>1 DEF Holding
  <2>2. l # i
    BY <2>1 DEF n
  <2> QED BY <2>1, <2>2, <1>3
<1>8. /\ IsFiniteSet(DOMAIN h) /\ Cardinality(DOMAIN h) = m.len - 1
      /\ Cardinality(Live(r)) = m.len - 1
  <2>1. IsFiniteSet(Live(m))
    BY <1>1, LiveIsFilled
  <2>2. Cardinality(Live(r)) = m.len - 1
    BY <2>1, <1>1, <1>3, FS_RemoveElement
  <2> QED BY <2>2, <1>1, <1>4, <1>5, FS_RemoveElement
<1>9. m.len - 1 \in Nat
  BY <1>8, FS_CardinalityType
<1>10. /\ IsMap(s) /\ s.cap = m.cap /\ s.len = m.len - 1 /\ s.ents = r.ents
       /\ AsTable(s, kind) = AsTable(r, kind) /\ Live(s) = Live(r) /\ Filled(s) = Filled(r)
  BY <1>2, <1>3, <1>9, WithLenFacts
<1>11. Holding(s, kind, h)
  BY <1>3, <1>6, <1>7, <1>10 DEF Holding
<1>12. MapRight(s, kind, h)
  BY <1>1, <1>3, <1>8, <1>10, <1>11 DEF MapRight
<1>13. m.len = 1 => DOMAIN h = {}
  BY <1>8, FS_EmptySet
<1> QED BY <1>4, <1>12, <1>13 DEF s, h, n

(***************************************************************************)
(* The loop of configure_builtins, when it has put n builtins.             *)
(***************************************************************************)

BuiltinsUpto(seed, n, g) ==
  g = [l \in 0..n |->
        IF l = 0 THEN NewMap(MapIdealCap(Len(MBuiltins)), seed)
        ELSE Stored(g[l - 1], MBuiltins[l], MNodes[MBuiltins[l]], "ptr")]

LEMMA BuiltinsUptoExists ==
  ASSUME NEW N \in Nat, NEW seed
  PROVE  \E g : BuiltinsUpto(seed, N, g)
<1> DEFINE first == NewMap(MapIdealCap(Len(MBuiltins)), seed)
           Next1(l, new) == Stored(new, MBuiltins[l], MNodes[MBuiltins[l]], "ptr")
           S == {n \in 0..N : \E g : BuiltinsUpto(seed, n, g)}
<1>1. \A n, g : BuiltinsUpto(seed, n, g) <=>
        g = [l \in 0..n |-> IF l = 0 THEN first ELSE Next1(l, g[l - 1])]
  BY DEF BuiltinsUpto
<1> HIDE DEF Next1, first
<1>2. 0 \in S
  <2> DEFINE g == [l \in 0..0 |-> first]
  <2>1. g = [l \in 0..0 |-> IF l = 0 THEN first ELSE Next1(l, g[l - 1])]
    OBVIOUS
  <2>2. BuiltinsUpto(seed, 0, g)
    BY <2>1, <1>1
  <2> QED BY <2>2
<1>3. ASSUME NEW n \in 1..N, n - 1 \in S
      PROVE  n \in S
  <2>1. PICK g : BuiltinsUpto(seed, n - 1, g)
    BY <1>3
  <2> DEFINE h == [l \in 0..n |-> IF l = n THEN Next1(n, g[n - 1]) ELSE g[l]]
  <2>2. ASSUME NEW l \in 0..n
        PROVE  h[l] = IF l = 0 THEN first ELSE Next1(l, h[l - 1])
    <3>1. CASE l = n
      <4>1. h[l] = Next1(n, g[n - 1]) /\ h[l - 1] = g[n - 1] /\ l # 0
        BY <3>1
      <4> QED BY <4>1, <3>1
    <3>2. CASE l # n
      <4>1. l \in 0..n - 1 /\ h[l] = g[l]
        BY <3>2
      <4>2. l # 0 => l - 1 \in 0..n /\ l - 1 # n /\ h[l - 1] = g[l - 1]
        BY <3>2
      <4>3. g[l] = IF l = 0 THEN first ELSE Next1(l, g[l - 1])
        BY <4>1, <2>1, <1>1
      <4> QED BY <4>1, <4>2, <4>3
    <3> QED BY <3>1, <3>2
  <2>3. BuiltinsUpto(seed, n, h)
    <3>1. h = [l \in 0..n |-> IF l = 0 THEN first ELSE Next1(l, h[l - 1])]
      BY <2>2
    <3> QED BY <3>1, <1>1
  <2> QED BY <2>3
<1>4. 0..N \subseteq S
  BY <1>2, <1>3, Induction
<1> QED BY <1>4

BuiltinRef == [k \in ToSet(MBuiltins) |-> MNodes[k]]

LEMMA BuiltinsRight ==
  ASSUME NEW seed \in MHashes
  PROVE  MapRight(Builtins(seed), "ptr", BuiltinRef)
<1> DEFINE N == Len(MBuiltins)
           g == CHOOSE g : BuiltinsUpto(seed, N, g)
           cap == MapIdealCap(N)
           First(n) == {MBuiltins[l] : l \in 1..n}
           F(n) == [k \in First(n) |-> MNodes[k]]
<1>1. N \in Nat /\ N >= 1 /\ \A l \in 1..N : MBuiltins[l] \in MKeys
  <2>1. MBuiltins \in Seq(MKeys) /\ MBuiltins # <<>>
    BY MapAssumptions
  <2> QED BY <2>1
<1>2. cap \in Nat /\ cap >= 4 /\ N =< cap - cap \div 4
  BY <1>1, IdealCaps, BuiltinsFit
<1>3. BuiltinsUpto(seed, N, g)
  BY <1>1, BuiltinsUptoExists
<1>4. Builtins(seed) = g[N]
  BY DEF Builtins, BuiltinsUpto
<1> HIDE DEF g
<1>5. /\ g[0] = NewMap(cap, seed)
      /\ \A l \in 1..N : g[l] = Stored(g[l - 1], MBuiltins[l], MNodes[MBuiltins[l]], "ptr")
  <2>1. g[0] = NewMap(cap, seed)
    BY <1>1, <1>3 DEF BuiltinsUpto
  <2>2. ASSUME NEW l \in 1..N
        PROVE  g[l] = Stored(g[l - 1], MBuiltins[l], MNodes[MBuiltins[l]], "ptr")
    <3>1. l \in 0..N /\ l # 0
      BY <1>1
    <3> QED BY <1>3, <3>1 DEF BuiltinsUpto
  <2> QED BY <2>1, <2>2
<1> HIDE DEF cap, N
<1> DEFINE S == {n \in 0..N : /\ MapRight(g[n], "ptr", F(n)) /\ NoMarks(g[n])
                              /\ g[n].cap = cap /\ g[n].len =< n}
<1>6. 0 \in S
  <2> DEFINE none == F(0)
  <2>1. DOMAIN none = {}
    OBVIOUS
  <2> HIDE DEF none
  <2>2. MapRight(NewMap(cap, seed), "ptr", none) /\ NoMarks(NewMap(cap, seed))
        /\ NewMap(cap, seed).cap = cap /\ NewMap(cap, seed).len = 0
    BY <1>2, <2>1, NewMapRight
  <2> QED BY <1>1, <1>5, <2>2 DEF none
<1>7. ASSUME NEW n \in 1..N, n - 1 \in S
      PROVE  n \in S
  <2> DEFINE r == g[n - 1]
             k == MBuiltins[n]
             v == MNodes[k]
  <2>1. MapRight(r, "ptr", F(n - 1)) /\ NoMarks(r) /\ r.cap = cap /\ r.len =< n - 1
    BY <1>7
  <2>2. k \in MKeys /\ v \in Vals /\ Name(k, "ptr") = k
    BY <1>1 DEF Vals, Name
  <2>3. g[n] = Stored(r, k, v, "ptr")
    BY <1>5
  <2>4. First(n) = First(n - 1) \cup {k}
    BY <1>1
  <2>5. Put(F(n - 1), k, v) = F(n)
    BY <2>4 DEF Put
  <2> HIDE DEF r, k, v, F
  <2>6. r.len < r.cap - r.cap \div 4 /\ r.len \in Nat
    BY <1>1, <1>2, <2>1, RightRoom
  <2>7. /\ MapRight(g[n], "ptr", Put(F(n - 1), k, v)) /\ g[n].cap = r.cap
        /\ g[n].len =< r.len + 1 /\ NoMarks(g[n])
    BY <2>1, <2>2, <2>3, <2>6, StoredRight
  <2>8. g[n].len =< n
    <3>1. g[n].len \in Nat
      BY <2>7, RightRoom
    <3> QED BY <1>1, <2>1, <2>6, <2>7, <3>1
  <2> QED BY <1>1, <2>1, <2>5, <2>7, <2>8
<1>8. N \in S
  <2>1. 0..N \subseteq S
    BY <1>1, <1>6, <1>7, Induction
  <2> QED BY <1>1, <2>1
<1>9. First(N) = ToSet(MBuiltins)
  BY MapAssumptions DEF ToSet, N
<1>10. F(N) = BuiltinRef
  BY <1>9 DEF BuiltinRef
<1> HIDE DEF F
<1> QED BY <1>4, <1>8, <1>10 DEF N

(***************************************************************************)
(* Any sequence of operations.                                             *)
(***************************************************************************)

MapInv ==
  /\ Shaped(map) /\ mkind \in {"ptr", "bytes"}
  /\ (mkind = "bytes" \/ ~mgrown) => MapRight(map, mkind, mref)
  /\ \/ mparent = <<>>
     \/ mkind = "ptr" /\ \E p : mparent = <<p>> /\ MapRight(p, "ptr", BuiltinRef)

LEMMA NewMapShape ==
  ASSUME NEW cap \in Nat, cap >= 4, NEW seed \in MHashes
  PROVE  Shaped(NewMap(cap, seed))
<1> DEFINE s == NewMap(cap, seed)
<1>1. IsMap(s) /\ s.len = 0 /\ Live(s) = {}
  BY NewMapFacts
<1> HIDE DEF s
<1> QED BY <1>1, FS_EmptySet DEF Shaped, s

LEMMA MapInvInit == MapInit => MapInv
<1> SUFFICES ASSUME MapInit PROVE MapInv
  OBVIOUS
<1>1. PICK h \in MHashes : map = NewMap(MapIdealCap(MLenHint), h)
  BY DEF MapInit, map_init
<1>2. PICK cap \in Nat : cap = MapIdealCap(MLenHint) /\ cap >= 4
  <2>1. MLenHint \in Nat /\ MLenHint >= 1
    BY MapAssumptions
  <2> QED BY <2>1, IdealCaps
<1>3. mkind \in {"ptr", "bytes"} /\ DOMAIN mref = {}
  BY DEF MapInit, NothingPut
<1>4. Shaped(map) /\ MapRight(map, mkind, mref)
  BY <1>1, <1>2, <1>3, NewMapShape, NewMapRight
<1>5. mparent = <<>> \/ (mkind = "ptr" /\ \E h2 \in MHashes : mparent = <<Builtins(h2)>>)
  BY DEF MapInit
<1>6. CASE \E h2 \in MHashes : mparent = <<Builtins(h2)>> /\ mkind = "ptr"
  <2>1. PICK h2 \in MHashes : mparent = <<Builtins(h2)>>
    BY <1>6
  <2>2. MapRight(Builtins(h2), "ptr", BuiltinRef)
    BY BuiltinsRight
  <2> QED BY <1>3, <1>4, <1>6, <2>1, <2>2 DEF MapInv
<1>7. CASE mparent = <<>>
  BY <1>3, <1>4, <1>7 DEF MapInv
<1> QED BY <1>5, <1>6, <1>7

LEMMA MapAssignInv ==
  ASSUME MapInv, NEW k \in MKeys, NEW v \in MValues, map_assign(k, v)
  PROVE  MapInv'
<1> DEFINE grows == MapMustGrow(map)
           n == Name(k, mkind)
<1>1. PICK seed \in MHashes :
        /\ map' = Stored(IF grows THEN map_grow1(map, map.cap * 2, seed, mkind) ELSE map, k, v, mkind)
        /\ mgrown' = (mgrown \/ grows)
  BY DEF map_assign
<1>2. mref' = Put(mref, n, v) /\ mkind' = mkind /\ mparent' = mparent /\ ~Reuses(map, k)
  BY DEF map_assign, Meaning
<1>3. /\ Shaped(map) /\ mkind \in {"ptr", "bytes"} /\ IsMap(map) /\ v \in Vals
      /\ map.cap \in Nat /\ map.cap >= 4 /\ map.len \in Nat
  BY DEF MapInv, Shaped, IsMap, Vals
<1>4. grows <=> map.len >= map.cap - map.cap \div 4
  BY DEF MapMustGrow
<1> HIDE DEF grows
<1>5. ~mgrown' => ~mgrown /\ ~grows
  BY <1>1, Zenon
<1> HIDE DEF n
<1>6. CASE grows
  <2> DEFINE m == map_grow1(map, map.cap * 2, seed, mkind)
  <2>1. PICK newcap \in Nat : newcap = map.cap * 2 /\ newcap >= 4
    BY <1>3
  <2>2. Shaped(m) /\ m.cap = newcap
    BY <1>3, <2>1, GrownShape
  <2>3. map' = Stored(m, k, v, mkind)
    BY <1>1, <1>6
  <2>4. ASSUME mkind = "bytes"
        PROVE  MapRight(map', mkind, Put(mref, n, v))
    <3>1. MapRight(map, "bytes", mref) /\ map.len =< map.cap - map.cap \div 4
      BY <2>4, RightRoom DEF MapInv
    <3>2. map.len =< newcap - newcap \div 4 /\ map.len < newcap - newcap \div 4
      BY <1>3, <2>1, <3>1
    <3>3. MapRight(m, "bytes", mref) /\ m.cap = newcap /\ m.len = map.len /\ NoMarks(m)
      BY <2>1, <3>1, <3>2, GrownRight
    <3> HIDE DEF m
    <3> QED BY <1>3, <2>3, <2>4, <3>2, <3>3, StoredRight DEF n
  <2> HIDE DEF m
  <2>5. Shaped(map')
    BY <1>3, <2>2, <2>3, StoredShape
  <2> QED BY <1>2, <1>3, <1>5, <1>6, <2>4, <2>5 DEF MapInv
<1>7. CASE ~grows
  <2>1. map' = Stored(map, k, v, mkind) /\ map.len < map.cap - map.cap \div 4
    BY <1>1, <1>3, <1>4, <1>7
  <2>2. Shaped(map')
    BY <1>3, <2>1, StoredShape
  <2>3. NoMarks(map) \/ KeyEq(map.ents[AssignIndex(map, k, mkind)].key, k, mkind)
    BY <1>2, <1>3 DEF Reuses, NoMarks, IsMap
  <2>4. ASSUME MapRight(map, mkind, mref)
        PROVE  MapRight(map', mkind, Put(mref, n, v))
    BY <1>3, <2>1, <2>3, <2>4, StoredRight DEF n
  <2> QED BY <1>2, <1>3, <1>5, <2>2, <2>4 DEF MapInv
<1> QED BY <1>6, <1>7

LEMMA MapReserveInv ==
  ASSUME MapInv, NEW addlen \in Nat, addlen >= 1, map_reserve(addlen)
  PROVE  MapInv'
<1> DEFINE newcap == MapIdealCap(map.len + addlen)
           grows == newcap > map.cap
<1>1. PICK seed \in MHashes :
        /\ map' = IF grows THEN map_grow1(map, newcap, seed, mkind) ELSE map
        /\ mgrown' = (mgrown \/ grows)
  BY DEF map_reserve
<1>2. mref' = mref /\ mkind' = mkind /\ mparent' = mparent
  BY DEF map_reserve
<1>3. /\ Shaped(map) /\ mkind \in {"ptr", "bytes"}
      /\ map.cap \in Nat /\ map.cap >= 4 /\ map.len \in Nat
  BY DEF MapInv, Shaped, IsMap
<1>4. newcap \in Nat /\ newcap >= 4
  <2>1. map.len + addlen \in Nat /\ map.len + addlen >= 1
    BY <1>3
  <2> QED BY <2>1, IdealCaps
<1> HIDE DEF newcap
<1>5. ~mgrown' => ~mgrown /\ ~grows
  <2> HIDE DEF grows
  <2> QED BY <1>1, Zenon
<1>6. CASE grows
  <2>1. map' = map_grow1(map, newcap, seed, mkind)
    BY <1>1, <1>6
  <2>2. Shaped(map')
    BY <1>3, <1>4, <2>1, GrownShape
  <2>3. ASSUME mkind = "bytes"
        PROVE  MapRight(map', mkind, mref)
    <3>1. MapRight(map, "bytes", mref) /\ map.len =< map.cap - map.cap \div 4
      BY <2>3, RightRoom DEF MapInv
    <3>2. map.len =< newcap - newcap \div 4
      BY <1>3, <1>4, <1>6, <3>1
    <3> QED BY <1>4, <2>1, <2>3, <3>1, <3>2, GrownRight
  <2> QED BY <1>2, <1>3, <1>5, <1>6, <2>2, <2>3 DEF MapInv
<1>7. CASE ~grows
  <2>1. map' = map
    BY <1>1, <1>7
  <2> HIDE DEF grows
  <2> QED BY <1>2, <1>5, <2>1 DEF MapInv
<1> QED BY <1>6, <1>7

LEMMA MapClearInv ==
  ASSUME MapInv, map_clear
  PROVE  MapInv'
<1>1. /\ map' = NewMap(map.cap, map.seed) /\ DOMAIN mref' = {}
      /\ mkind' = mkind /\ mparent' = mparent
  BY DEF map_clear, NothingPut
<1>2. PICK cap \in Nat, seed \in MHashes : cap = map.cap /\ seed = map.seed /\ cap >= 4
  BY DEF MapInv, Shaped, IsMap
<1>3. Shaped(map') /\ MapRight(map', mkind, mref')
  BY <1>1, <1>2, NewMapShape, NewMapRight
<1> QED BY <1>1, <1>3 DEF MapInv

LEMMA MapDelInv ==
  ASSUME MapInv, NEW k \in MKeys, map_del(k)
  PROVE  MapInv'
<1> DEFINE i == IndexOf(map, k, mkind)
           n == Name(k, mkind)
           h == [b \in DOMAIN mref \ {n} |-> mref[b]]
<1>1. /\ i # Absent /\ mref' = h /\ mkind' = mkind /\ mparent' = mparent /\ mgrown' = mgrown
      /\ map' = IF map.len = 1 THEN NewMap(map.cap, map.seed) ELSE DeletedAt(map, i)
  BY DEF map_del, Meaning, DeletedAt
<1>2. Shaped(map) /\ IsMap(map)
  BY DEF MapInv, Shaped
<1>3. i \in Live(map) /\ Name(map.ents[i].key, mkind) = n
  BY <1>1, <1>2, IndexOfLive
<1> HIDE DEF i, n
<1>4. ASSUME MapRight(map, mkind, mref)
      PROVE  MapRight(DeletedAt(map, i), mkind, h) /\ (map.len = 1 => DOMAIN h = {})
  BY <1>3, <1>4, DeletedRight
<1> HIDE DEF h
<1>5. CASE map.len = 1
  <2>1. PICK cap \in Nat, seed \in MHashes : cap = map.cap /\ seed = map.seed /\ cap >= 4
    BY <1>2 DEF IsMap
  <2>2. Shaped(map')
    BY <1>1, <1>5, <2>1, NewMapShape
  <2>3. ASSUME MapRight(map, mkind, mref)
        PROVE  MapRight(map', mkind, mref')
    BY <1>1, <1>4, <1>5, <2>1, <2>3, NewMapRight
  <2> QED BY <1>1, <2>2, <2>3 DEF MapInv
<1>6. CASE map.len # 1
  <2>1. Shaped(map')
    BY <1>1, <1>2, <1>3, <1>6, DeletedShape
  <2>2. ASSUME MapRight(map, mkind, mref)
        PROVE  MapRight(map', mkind, mref')
    BY <1>1, <1>4, <1>6, <2>2
  <2> QED BY <1>1, <2>1, <2>2 DEF MapInv
<1> QED BY <1>5, <1>6

LEMMA MapInvNext == MapInv /\ [MapNext]_mVars => MapInv'
<1> SUFFICES ASSUME MapInv, [MapNext]_mVars PROVE MapInv'
  OBVIOUS
<1>1. ASSUME NEW k \in MKeys, NEW v \in MValues, map_assign(k, v) PROVE MapInv'
  BY <1>1, MapAssignInv
<1>2. ASSUME NEW n \in 1..2, map_reserve(n) PROVE MapInv'
  BY <1>2, MapReserveInv
<1>3. ASSUME map_clear PROVE MapInv'
  BY <1>3, MapClearInv
<1>4. ASSUME NEW k \in MKeys, map_del(k) PROVE MapInv'
  BY <1>4, MapDelInv
<1>5. CASE UNCHANGED mVars
  BY <1>5 DEF mVars, MapInv
<1> QED BY <1>1, <1>2, <1>3, <1>4, <1>5 DEF MapNext

LEMMA RightAgrees ==
  ASSUME MapInv, MapRight(map, mkind, mref)
  PROVE  Agrees
<1>1. /\ Holding(map, mkind, mref) /\ IsMap(map) /\ Empties(map) # {}
      /\ map.len = Cardinality(DOMAIN mref) /\ map.len = Cardinality(Live(map))
  BY RightRoom DEF MapRight, Holding
<1>2. \E i \in DOMAIN map.ents : map.ents[i].key = EMPTY
  BY <1>1 DEF Empties, IsMap
<1>3. {Meaning(map.ents[i].key) : i \in Live(map)} = DOMAIN mref
  BY <1>1 DEF Holding, Meaning
<1>4. ASSUME NEW k \in MKeys
      PROVE  map_lookup(map, k, mkind).value =
               IF Meaning(k) \in DOMAIN mref THEN mref[Meaning(k)]
               ELSE IF mparent # <<>> /\ k \in ToSet(MBuiltins) THEN MNodes[k]
               ELSE NULL
  <2> DEFINE i == IndexOf(map, k, mkind)
             j == IndexOf(mparent[1], k, mkind)
             n == Name(k, mkind)
  <2>1. map_lookup(map, k, mkind) = IF i # Absent THEN map.ents[i]
                                    ELSE IF mparent # <<>> /\ j # Absent THEN mparent[1].ents[j]
                                    ELSE NoEnt
    BY DEF map_lookup
  <2>2. IF n \in DOMAIN mref
        THEN i \in Live(map) /\ i # Absent /\ Name(map.ents[i].key, mkind) = n
        ELSE i = Absent
    BY <1>1, IndexOfRight
  <2>3. Meaning(k) = n /\ NoEnt.value = NULL
    BY DEF Meaning, NoEnt
  <2>4. CASE n \in DOMAIN mref
    <3> HIDE DEF i, n
    <3>1. mref[n] = map.ents[i].value
      BY <1>1, <2>2, <2>4 DEF Holding
    <3> QED BY <2>1, <2>2, <2>3, <2>4, <3>1
  <2>5. CASE n \notin DOMAIN mref /\ mparent = <<>>
    <3> HIDE DEF i, j, n
    <3> QED BY <2>1, <2>2, <2>3, <2>5
  <2>6. CASE n \notin DOMAIN mref /\ mparent # <<>>
    <3>1. PICK p : mparent = <<p>> /\ mkind = "ptr" /\ MapRight(p, "ptr", BuiltinRef)
      BY <2>6 DEF MapInv
    <3>2. mparent[1] = p /\ n = k
      BY <3>1 DEF Name
    <3>3. Holding(p, "ptr", BuiltinRef) /\ Empties(p) # {}
      BY <3>1, RightRoom DEF MapRight
    <3>4. DOMAIN BuiltinRef = ToSet(MBuiltins) /\ \A b \in ToSet(MBuiltins) : BuiltinRef[b] = MNodes[b]
      BY DEF BuiltinRef
    <3>5. IF k \in DOMAIN BuiltinRef
          THEN j \in Live(p) /\ j # Absent /\ Name(p.ents[j].key, "ptr") = k
          ELSE j = Absent
      BY <3>1, <3>2, <3>3, IndexOfRight
    <3>6. k \in DOMAIN BuiltinRef => BuiltinRef[k] = p.ents[j].value
      BY <3>3, <3>5 DEF Holding
    <3> HIDE DEF i, j, n
    <3> QED BY <2>1, <2>2, <2>3, <2>6, <3>2, <3>4, <3>5, <3>6
  <2> QED BY <2>4, <2>5, <2>6
<1> QED BY <1>1, <1>2, <1>3, <1>4 DEF Agrees

(* A map is the function its caller has made of it, whatever hashes collide *)
(* and however often it grows, deletes and is cleared; with keys that are   *)
(* pointers, until it first grows: entries are then moved by the bytes that *)
(* the keys point to, and looked up by their addresses.                     *)
THEOREM MapIsWhatWasPut == MapSpec => []MapIsFunction
<1>1. MapInv => MapIsFunction
  BY RightAgrees DEF MapInv, MapIsFunction
<1> QED BY <1>1, MapInvInit, MapInvNext, PTL DEF MapSpec

(***************************************************************************)
(* Scope: the array holds the frames one above the other (Laid), and a     *)
(* walk through it comes to those in view, innermost first (WalkAt).       *)
(***************************************************************************)

LEMMA Greatest ==
  ASSUME NEW N \in Nat, NEW S, S \subseteq 0..N, S # {}
  PROVE  /\ Max(S) \in S
         /\ \A n \in S : n =< Max(S)
<1> DEFINE T == {N - n : n \in S}
<1>1. T \subseteq Nat /\ T # {}
  <2>1. ASSUME NEW n \in S PROVE N - n \in Nat
    <3>1. n \in 0..N
      OBVIOUS
    <3> QED BY <3>1
  <2> QED BY <2>1
<1>2. Min(T) \in T /\ \A n \in T : Min(T) =< n
  BY <1>1, Least
<1>3. PICK m \in S : Min(T) = N - m
  BY <1>2
<1>4. ASSUME NEW n \in S PROVE n =< m
  <2>1. N - n \in T /\ N - m =< N - n
    BY <1>2, <1>3
  <2> QED BY <2>1
<1>5. \E x \in S : \A y \in S : x >= y
  BY <1>4
<1>6. Max(S) \in S /\ \A y \in S : Max(S) >= y
  BY <1>5 DEF Max
<1> QED BY <1>6

Slots == Int \cup SNames \cup SValues
Frames == [stash : BOOLEAN, defs : Seq(SNames \X SValues)]

\* b[n] is the base of frame n, and this the index above its last entry.
End(f, b, n) == b[n] + 1 + 2 * Len(f[n].defs)

\* Frame n begins above frame n - 1, with the base of that one and, for a stash,
\* the mark.
Begins(s, f, b, n) ==
  IF n = 1 THEN ~f[1].stash /\ b[1] = 0 /\ PtrAt(s, 0) = 0
  ELSE IF f[n].stash
  THEN /\ n > 2 /\ ~f[n - 1].stash
       /\ b[n] = End(f, b, n - 1) + 1
       /\ PtrAt(s, b[n] - 1) = b[n - 1] /\ PtrAt(s, b[n]) = kStash
  ELSE b[n] = End(f, b, n - 1) /\ PtrAt(s, b[n]) = b[n - 1]

Defines(s, f, b, n) ==
  \A d \in 1..Len(f[n].defs) :
    /\ PtrAt(s, b[n] + 2 * d - 1) = f[n].defs[d][2]
    /\ PtrAt(s, b[n] + 2 * d) = f[n].defs[d][1]

Laid(s, f, b) ==
  /\ s \in [ptr : Seq(Slots), base : Nat]
  /\ f \in Seq(Frames) /\ f # <<>> /\ b \in [1..Len(f) -> Nat]
  /\ s.base = b[Len(f)] /\ Length(s) = End(f, b, Len(f))
  /\ \A n \in 1..Len(f) : n - 1 =< b[n] /\ Begins(s, f, b, n) /\ Defines(s, f, b, n)
  /\ \A n \in 1..Len(f) : \A m \in 1..n - 1 : End(f, b, m) =< b[n]

ScopeInv == \E b : Laid(scope, sframes, b)

LEMMA LaidTypes ==
  ASSUME NEW s, NEW f, NEW b, Laid(s, f, b)
  PROVE  /\ Len(f) \in Nat /\ Len(f) >= 1 /\ Length(s) \in Nat
         /\ s.base \in Nat
         /\ \A n \in 1..Len(f) :
              /\ f[n] \in Frames /\ f[n].stash \in BOOLEAN /\ Len(f[n].defs) \in Nat
              /\ b[n] \in Nat /\ End(f, b, n) \in Nat /\ b[n] < End(f, b, n)
              /\ End(f, b, n) =< Length(s)
<1>1. /\ s \in [ptr : Seq(Slots), base : Nat] /\ f \in Seq(Frames) /\ f # <<>>
      /\ b \in [1..Len(f) -> Nat] /\ Length(s) = End(f, b, Len(f))
      /\ \A n \in 1..Len(f) : \A m \in 1..n - 1 : End(f, b, m) =< b[n]
  BY DEF Laid
<1>2. Len(f) \in Nat /\ Len(f) >= 1
  BY <1>1
<1>3. Length(s) \in Nat /\ s.base \in Nat
  BY <1>1 DEF Length
<1>4. ASSUME NEW n \in 1..Len(f)
      PROVE  /\ f[n] \in Frames /\ f[n].stash \in BOOLEAN /\ Len(f[n].defs) \in Nat
             /\ b[n] \in Nat /\ End(f, b, n) \in Nat /\ b[n] < End(f, b, n)
  <2>1. f[n] \in Frames /\ b[n] \in Nat
    BY <1>1
  <2>2. f[n].stash \in BOOLEAN /\ Len(f[n].defs) \in Nat
    BY <2>1 DEF Frames
  <2> DEFINE at == b[n]
             len == Len(f[n].defs)
             end == End(f, b, n)
  <2>3. at \in Nat /\ len \in Nat /\ end = at + 1 + 2 * len
    BY <2>1, <2>2 DEF End
  <2> HIDE DEF at, len, end
  <2>4. end \in Nat /\ at < end
    BY <2>3
  <2> QED BY <2>1, <2>2, <2>4 DEF at, end
<1>5. ASSUME NEW n \in 1..Len(f) PROVE End(f, b, n) =< Length(s)
  <2>1. CASE n = Len(f)
    BY <2>1, <1>1, <1>4
  <2>2. CASE n # Len(f)
    <3>1. Len(f) \in 1..Len(f) /\ n \in 1..Len(f) - 1
      BY <2>2, <1>2
    <3>2. End(f, b, n) =< b[Len(f)] /\ b[Len(f)] < End(f, b, Len(f))
      BY <3>1, <1>1, <1>4
    <3>3. /\ End(f, b, n) \in Nat /\ b[Len(f)] \in Nat /\ End(f, b, Len(f)) \in Nat
          /\ Length(s) = End(f, b, Len(f))
      BY <3>1, <1>1, <1>4
    <3> QED BY <3>2, <3>3
  <2> QED BY <2>1, <2>2
<1> QED BY <1>2, <1>3, <1>4, <1>5

LEMMA LaidFacts ==
  ASSUME NEW s, NEW f, NEW b, Laid(s, f, b)
  PROVE  /\ s \in [ptr : Seq(Slots), base : Nat]
         /\ f \in Seq(Frames) /\ f # <<>> /\ b \in [1..Len(f) -> Nat]
         /\ s.base = b[Len(f)] /\ Length(s) = End(f, b, Len(f))
         /\ \A n \in 1..Len(f) : n - 1 =< b[n]
         /\ \A n \in 1..Len(f) : Begins(s, f, b, n) /\ Defines(s, f, b, n)
         /\ \A n \in 1..Len(f) : \A m \in 1..n - 1 : End(f, b, m) =< b[n]
BY DEF Laid

\* A frame is where it was if the array up to its end is what it was.
SameBelow(s, f, b, n, t, g, c) ==
  /\ n \in 1..Len(f)
  /\ \A m \in 1..n : g[m] = f[m] /\ c[m] = b[m]
  /\ \A i \in 0..End(f, b, n) - 1 : PtrAt(t, i) = PtrAt(s, i)
Stays(f, b, n, t, g, c) ==
  End(g, c, n) = End(f, b, n) /\ Begins(t, g, c, n) /\ Defines(t, g, c, n)

LEMMA FrameSame ==
  ASSUME NEW s, NEW f, NEW b, Laid(s, f, b), NEW n,
         NEW t, NEW g, NEW c, SameBelow(s, f, b, n, t, g, c)
  PROVE  Stays(f, b, n, t, g, c)
<1>0. /\ n \in 1..Len(f)
      /\ \A m \in 1..n : g[m] = f[m] /\ c[m] = b[m]
      /\ \A i \in 0..End(f, b, n) - 1 : PtrAt(t, i) = PtrAt(s, i)
  BY DEF SameBelow
<1>1. /\ n \in Int /\ 1 =< n
      /\ b[n] \in Nat /\ End(f, b, n) \in Nat /\ b[n] < End(f, b, n) /\ Len(f[n].defs) \in Nat
      /\ Begins(s, f, b, n) /\ Defines(s, f, b, n)
  <2>1. n \in Int /\ 1 =< n
    BY <1>0, LaidTypes
  <2> QED BY <1>0, <2>1, LaidTypes, LaidFacts
<1>2. g[n] = f[n] /\ c[n] = b[n]
  BY <1>0, <1>1
<1>3. End(g, c, n) = End(f, b, n)
  BY <1>2 DEF End
<1>4. Begins(t, g, c, n)
  <2>1. PtrAt(t, b[n]) = PtrAt(s, b[n])
    <3>1. b[n] \in 0..End(f, b, n) - 1
      BY <1>1
    <3> QED BY <1>0, <3>1
  <2>2. CASE n = 1
    BY <2>1, <2>2, <1>1, <1>2 DEF Begins
  <2>3. CASE n # 1
    <3>1. n - 1 \in 1..n /\ n - 1 \in 1..Len(f)
      BY <1>0, <2>3, <1>1, LaidTypes
    <3>2. g[n - 1] = f[n - 1] /\ c[n - 1] = b[n - 1]
      BY <1>0, <3>1
    <3>6. End(g, c, n - 1) = End(f, b, n - 1)
      BY <3>2 DEF End
    <3>3. End(f, b, n - 1) \in Nat
      BY <3>1, LaidTypes
    <3>4. CASE f[n].stash
      <4>1. b[n] = End(f, b, n - 1) + 1
        BY <3>4, <2>3, <1>1 DEF Begins
      <4>2. b[n] - 1 \in 0..End(f, b, n) - 1
        BY <4>1, <3>3, <1>1
      <4>3. PtrAt(t, b[n] - 1) = PtrAt(s, b[n] - 1)
        BY <1>0, <4>2
      <4> QED BY <4>3, <3>2, <3>6, <3>4, <2>1, <2>3, <1>1, <1>2 DEF Begins
    <3>5. CASE ~f[n].stash
      BY <3>2, <3>6, <3>5, <2>1, <2>3, <1>1, <1>2 DEF Begins
    <3> QED BY <3>4, <3>5
  <2> QED BY <2>2, <2>3
<1>5. Defines(t, g, c, n)
  <2>1. ASSUME NEW d \in 1..Len(f[n].defs)
        PROVE  /\ PtrAt(t, b[n] + 2 * d - 1) = PtrAt(s, b[n] + 2 * d - 1)
               /\ PtrAt(t, b[n] + 2 * d) = PtrAt(s, b[n] + 2 * d)
    <3>2. b[n] \in Nat /\ Len(f[n].defs) \in Nat /\ End(f, b, n) = b[n] + 1 + 2 * Len(f[n].defs)
      BY <1>1 DEF End
    <3> DEFINE end == End(f, b, n)
               len == Len(f[n].defs)
               at == b[n]
    <3>3. at \in Nat /\ len \in Nat /\ end = at + 1 + 2 * len /\ d \in 1..len
      BY <3>2
    <3> HIDE DEF end, len, at
    <3>4. at + 2 * d - 1 \in 0..end - 1 /\ at + 2 * d \in 0..end - 1
      BY <3>3
    <3>1. b[n] + 2 * d - 1 \in 0..End(f, b, n) - 1 /\ b[n] + 2 * d \in 0..End(f, b, n) - 1
      BY <3>4 DEF end, at
    <3> QED BY <1>0, <3>1
  <2> QED BY <2>1, <1>1, <1>2 DEF Defines
<1> QED BY <1>3, <1>4, <1>5 DEF Stays

\* t, g, c are s, f, b with a frame more that begins at index at.
HasMore(s, f, b, frame, at, t, g, c) ==
  /\ frame \in Frames /\ frame.defs = <<>>
  /\ at \in Nat /\ at >= Length(s)
  /\ t \in [ptr : Seq(Slots), base : Nat] /\ t.base = at /\ Length(t) = at + 1
  /\ \A i \in 0..Length(s) - 1 : PtrAt(t, i) = PtrAt(s, i)
  /\ g \in Seq(Frames) /\ Len(g) = Len(f) + 1 /\ g[Len(f) + 1] = frame
  /\ c \in [1..Len(f) + 1 -> Nat] /\ c[Len(f) + 1] = at
  /\ \A n \in 1..Len(f) : g[n] = f[n] /\ c[n] = b[n]
  /\ Begins(t, g, c, Len(f) + 1)

LEMMA OneMore ==
  ASSUME NEW s, NEW f, NEW b, Laid(s, f, b),
         NEW frame, NEW at, NEW t, NEW g, NEW c, HasMore(s, f, b, frame, at, t, g, c)
  PROVE  Laid(t, g, c)
<1> DEFINE K == Len(f)
<1>1. /\ K \in Nat /\ K >= 1 /\ Length(s) \in Nat /\ f \in Seq(Frames)
      /\ \A n \in 1..K : b[n] \in Nat /\ End(f, b, n) \in Nat /\ End(f, b, n) =< Length(s)
  BY LaidTypes DEF Laid
<1>2. /\ g \in Seq(Frames) /\ g # <<>> /\ Len(g) = K + 1 /\ g[K + 1] = frame
      /\ \A n \in 1..K : g[n] = f[n]
  BY <1>1 DEF HasMore
<1>3. c \in [1..K + 1 -> Nat] /\ c[K + 1] = at /\ \A n \in 1..K : c[n] = b[n]
  BY <1>1 DEF HasMore
<1>12. /\ frame.defs = <<>> /\ at \in Nat /\ at >= Length(s)
       /\ t \in [ptr : Seq(Slots), base : Nat] /\ t.base = at /\ Length(t) = at + 1
       /\ \A i \in 0..Length(s) - 1 : PtrAt(t, i) = PtrAt(s, i)
       /\ Begins(t, g, c, K + 1)
  BY DEF HasMore
<1>4. End(g, c, K + 1) = at + 1
  <2>1. Len(g[K + 1].defs) = 0 /\ c[K + 1] = at
    BY <1>12, <1>2, <1>3
  <2> HIDE DEF K
  <2> QED BY <1>12, <2>1 DEF End
<1>5. ASSUME NEW n \in 1..K
      PROVE  End(g, c, n) = End(f, b, n) /\ Begins(t, g, c, n) /\ Defines(t, g, c, n)
  <2>3. n \in 1..Len(f)
    OBVIOUS
  <2>1. \A m \in 1..n : g[m] = f[m] /\ c[m] = b[m]
    <3>1. \A m \in 1..n : m \in 1..K
      BY <1>1
    <3> QED BY <3>1, <1>2, <1>3
  <2>2. \A i \in 0..End(f, b, n) - 1 : PtrAt(t, i) = PtrAt(s, i)
    BY <1>12, <1>1
  <2>5. SameBelow(s, f, b, n, t, g, c)
    BY <2>1, <2>2, <2>3 DEF SameBelow
  <2>6. Stays(f, b, n, t, g, c)
    BY <2>5, FrameSame
  <2> QED BY <2>6 DEF Stays
<1>6. Defines(t, g, c, K + 1)
  BY <1>12, <1>2 DEF Defines
<1>7. \A n \in 1..K : n - 1 =< b[n]
  BY DEF Laid
<1>8. K - 1 =< b[K] /\ b[K] < End(f, b, K) /\ K \in 1..K
  <2>1. K \in 1..Len(f)
    BY <1>1
  <2> QED BY <2>1, LaidTypes, LaidFacts
<1>9. K =< at
  BY <1>12, <1>1, <1>8
<1>10. \A n \in 1..K + 1 : n - 1 =< c[n] /\ Begins(t, g, c, n) /\ Defines(t, g, c, n)
  <2> SUFFICES ASSUME NEW n \in 1..K + 1
               PROVE  n - 1 =< c[n] /\ Begins(t, g, c, n) /\ Defines(t, g, c, n)
    OBVIOUS
  <2>1. CASE n = K + 1
    BY <1>12, <2>1, <1>3, <1>6, <1>9, <1>1
  <2>2. CASE n # K + 1
    <3>1. n \in 1..K
      BY <2>2, <1>1
    <3> QED BY <3>1, <1>3, <1>5, <1>7
  <2> QED BY <2>1, <2>2
<1>11. ASSUME NEW n \in 1..K + 1, NEW m \in 1..n - 1 PROVE End(g, c, m) =< c[n]
  <2>1. m \in 1..K /\ End(g, c, m) = End(f, b, m)
    BY <1>1, <1>5
  <2>2. CASE n = K + 1
    BY <1>12, <2>1, <2>2, <1>1, <1>3
  <2>3. CASE n # K + 1
    <3>1. n \in 1..K
      BY <2>3, <1>1
    <3>2. End(f, b, m) =< b[n]
      BY <3>1 DEF Laid
    <3> QED BY <2>1, <3>1, <3>2, <1>3
  <2> QED BY <2>2, <2>3
<1> HIDE DEF K
<1> QED BY <1>12, <1>2, <1>3, <1>4, <1>10, <1>11 DEF Laid, K

\* The last frame less.
LEMMA OneLess ==
  ASSUME NEW s, NEW f, NEW b, Laid(s, f, b), Len(f) > 1,
         NEW t, t \in [ptr : Seq(Slots), base : Nat], t.base = b[Len(f) - 1],
         Length(t) = End(f, b, Len(f) - 1),
         \A i \in 0..Length(t) - 1 : PtrAt(t, i) = PtrAt(s, i)
  PROVE  Laid(t, Front(f), [n \in 1..Len(f) - 1 |-> b[n]])
<1> DEFINE K == Len(f) - 1
           g == Front(f)
           c == [n \in 1..K |-> b[n]]
<1>1. /\ K \in Nat /\ K >= 1 /\ f \in Seq(Frames) /\ Len(f) = K + 1
      /\ \A n \in 1..K + 1 : b[n] \in Nat /\ End(f, b, n) \in Nat
      /\ \A n \in 1..K + 1 : \A m \in 1..n - 1 : End(f, b, m) =< b[n]
      /\ \A n \in 1..K + 1 : n - 1 =< b[n] /\ b[n] < End(f, b, n)
  <2>1. K \in Nat /\ K >= 1 /\ Len(f) = K + 1
    BY LaidTypes
  <2> HIDE DEF K
  <2> QED BY <2>1, LaidTypes, LaidFacts
<1>2. g \in Seq(Frames) /\ g # <<>> /\ Len(g) = K /\ \A n \in 1..K : g[n] = f[n]
  <2>1. g = SubSeq(f, 1, K)
    BY DEF Front
  <2>2. 1 \in 1..Len(f) + 1 /\ K \in 0..Len(f)
    BY <1>1
  <2>3. g \in Seq(Frames) /\ Len(g) = K /\ \A n \in 1..K : g[n] = f[n]
    BY <2>1, <2>2, <1>1
  <2> QED BY <2>3, <1>1
<1>3. c \in [1..K -> Nat] /\ \A n \in 1..K : c[n] = b[n]
  BY <1>1
<1> HIDE DEF c, g
<1>4. ASSUME NEW n \in 1..K
      PROVE  End(g, c, n) = End(f, b, n) /\ Begins(t, g, c, n) /\ Defines(t, g, c, n)
  <2>1. \A m \in 1..n : g[m] = f[m] /\ c[m] = b[m]
    BY <1>1, <1>2, <1>3
  <2>2. End(f, b, n) =< Length(t)
    <3>1. CASE n = K
      <4>1. End(f, b, K) \in Nat /\ Length(t) = End(f, b, K)
        BY <1>1
      <4> QED BY <4>1, <3>1
    <3>2. CASE n # K
      <4>0. K \in Nat /\ K >= 1
        BY <1>1
      <4>1. n \in 1..K - 1 /\ K \in 1..K + 1 /\ n \in 1..K + 1
        BY <3>2, <4>0
      <4>2. End(f, b, n) =< b[K] /\ b[K] < End(f, b, K)
        BY <4>1, <1>1
      <4>3. End(f, b, n) \in Nat /\ b[K] \in Nat /\ End(f, b, K) \in Nat /\ Length(t) = End(f, b, K)
        BY <4>1, <1>1
      <4> QED BY <4>2, <4>3
    <3> QED BY <3>1, <3>2
  <2>3. n \in 1..Len(f)
    BY <1>1
  <2>4. \A i \in 0..End(f, b, n) - 1 : PtrAt(t, i) = PtrAt(s, i)
    <3>1. End(f, b, n) \in Nat /\ Length(t) \in Nat
      BY <1>1
    <3> QED BY <2>2, <3>1
  <2>5. SameBelow(s, f, b, n, t, g, c)
    BY <2>1, <2>3, <2>4 DEF SameBelow
  <2>6. Stays(f, b, n, t, g, c)
    BY <2>5, FrameSame
  <2> QED BY <2>6 DEF Stays
<1>5. ASSUME NEW n \in 1..K PROVE n - 1 =< c[n]
  <2>1. n \in 1..K + 1
    BY <1>1
  <2> QED BY <2>1, <1>1, <1>3
<1>6. ASSUME NEW n \in 1..K, NEW m \in 1..n - 1 PROVE End(g, c, m) =< c[n]
  <2>1. m \in 1..K /\ n \in 1..K + 1
    BY <1>1
  <2> QED BY <2>1, <1>1, <1>3, <1>4
<1>7. t.base = c[K] /\ Length(t) = End(g, c, K)
  BY <1>1, <1>3, <1>4
<1>8. Laid(t, g, c)
  BY <1>2, <1>3, <1>4, <1>5, <1>6, <1>7 DEF Laid
<1> QED BY <1>8 DEF g, c

WithMore(s, more, base) == [ptr |-> s.ptr \o more, base |-> base]

HasAlso(t, s, more, base) ==
  /\ t \in [ptr : Seq(Slots), base : Nat]
  /\ Length(t) = Length(s) + Len(more) /\ t.base = base
  /\ \A i \in 0..Length(s) - 1 : PtrAt(t, i) = PtrAt(s, i)
  /\ Len(more) >= 1 => PtrAt(t, Length(s)) = more[1]
  /\ Len(more) >= 2 => PtrAt(t, Length(s) + 1) = more[2]

LEMMA Grows ==
  ASSUME NEW s \in [ptr : Seq(Slots), base : Nat], NEW more \in Seq(Slots), NEW base \in Nat
  PROVE  HasAlso(WithMore(s, more, base), s, more, base)
<1> DEFINE t == WithMore(s, more, base)
<1>1. s.ptr \in Seq(Slots) /\ t.ptr = s.ptr \o more /\ t.base = base
  BY DEF WithMore
<1>2. t \in [ptr : Seq(Slots), base : Nat]
  BY DEF WithMore
<1> HIDE DEF t
<1>3. Len(s.ptr) \in Nat /\ Len(more) \in Nat /\ Len(t.ptr) = Len(s.ptr) + Len(more)
  BY <1>1
<1>4. ASSUME NEW i \in 0..Len(s.ptr) - 1 PROVE t.ptr[i + 1] = s.ptr[i + 1]
  BY <1>1, <1>3
<1>5. ASSUME NEW i \in 0..Len(more) - 1 PROVE t.ptr[Len(s.ptr) + i + 1] = more[i + 1]
  <2>1. i + 1 \in 1..Len(more)
    BY <1>3
  <2>2. (s.ptr \o more)[Len(s.ptr) + (i + 1)] = more[i + 1]
    BY <2>1, <1>1, <1>3
  <2>3. Len(s.ptr) + (i + 1) = Len(s.ptr) + i + 1
    BY <1>3
  <2> QED BY <2>2, <2>3, <1>1
<1>6. /\ t \in [ptr : Seq(Slots), base : Nat]
      /\ Length(t) = Length(s) + Len(more) /\ t.base = base
      /\ \A i \in 0..Length(s) - 1 : PtrAt(t, i) = PtrAt(s, i)
      /\ Len(more) >= 1 => PtrAt(t, Length(s)) = more[1]
      /\ Len(more) >= 2 => PtrAt(t, Length(s) + 1) = more[2]
  <2>1. Len(more) >= 1 => t.ptr[Len(s.ptr) + 1] = more[1]
    <3>1. Len(more) >= 1 => 0 \in 0..Len(more) - 1 /\ Len(s.ptr) + 0 + 1 = Len(s.ptr) + 1 /\ 0 + 1 = 1
      BY <1>3
    <3> QED BY <3>1, <1>5
  <2>2. Len(more) >= 2 => t.ptr[Len(s.ptr) + 1 + 1] = more[2]
    <3>1. Len(more) >= 2 => 1 \in 0..Len(more) - 1 /\ 1 + 1 = 2
      BY <1>3
    <3> QED BY <3>1, <1>5
  <2> QED BY <2>1, <2>2, <1>1, <1>2, <1>3, <1>4 DEF Length, PtrAt
<1> QED BY <1>6 DEF t, HasAlso

CutTo(s, len, base) == [Resized(s, len) EXCEPT !.base = base]

HasOnly(t, s, len, base) ==
  /\ t \in [ptr : Seq(Slots), base : Nat]
  /\ Length(t) = len /\ t.base = base
  /\ \A i \in 0..len - 1 : PtrAt(t, i) = PtrAt(s, i)

LEMMA Shrinks ==
  ASSUME NEW s \in [ptr : Seq(Slots), base : Nat], NEW len \in 0..Length(s), NEW base \in Nat
  PROVE  HasOnly(CutTo(s, len, base), s, len, base)
<1> DEFINE t == CutTo(s, len, base)
<1>1. s.ptr \in Seq(Slots) /\ t = [ptr |-> SubSeq(s.ptr, 1, len), base |-> base]
  <2> DEFINE seq == SubSeq(s.ptr, 1, len)
  <2>1. s = [ptr |-> s.ptr, base |-> s.base]
    OBVIOUS
  <2>2. s.ptr \in Seq(Slots) /\ t = [[s EXCEPT !.ptr = seq] EXCEPT !.base = base]
    BY DEF Resized, CutTo
  <2> HIDE DEF seq
  <2> QED BY <2>1, <2>2 DEF seq
<1>2. len \in 0..Len(s.ptr) /\ Len(s.ptr) \in Nat
  BY <1>1 DEF Length
<1>3. /\ SubSeq(s.ptr, 1, len) \in Seq(Slots) /\ Len(SubSeq(s.ptr, 1, len)) = len
      /\ \A i \in 1..len : SubSeq(s.ptr, 1, len)[i] = s.ptr[i]
  BY <1>1, <1>2
<1> HIDE DEF t
<1>4. t.ptr = SubSeq(s.ptr, 1, len) /\ t.base = base
  BY <1>1
<1>5. t \in [ptr : Seq(Slots), base : Nat]
  <2> DEFINE ptr == SubSeq(s.ptr, 1, len)
  <2>1. ptr \in Seq(Slots) /\ t = [ptr |-> ptr, base |-> base]
    BY <1>1, <1>3
  <2> HIDE DEF ptr
  <2> QED BY <2>1
<1>6. ASSUME NEW i \in 0..len - 1 PROVE t.ptr[i + 1] = s.ptr[i + 1]
  <2>1. i + 1 \in 1..len
    BY <1>2
  <2> QED BY <2>1, <1>3, <1>4
<1>7. /\ t \in [ptr : Seq(Slots), base : Nat]
      /\ Length(t) = len /\ t.base = base
      /\ \A i \in 0..len - 1 : PtrAt(t, i) = PtrAt(s, i)
  BY <1>3, <1>4, <1>5, <1>6 DEF Length, PtrAt
<1> QED BY <1>7 DEF t, HasOnly

LEMMA Pushed ==
  ASSUME NEW s, NEW f, NEW b, Laid(s, f, b)
  PROVE  \E c : Laid(scope_push(s), Append(f, Frame(FALSE)), c)
<1> DEFINE K == Len(f)
           t == scope_push(s)
           g == Append(f, Frame(FALSE))
           at == Length(s)
           c == [n \in 1..K + 1 |-> IF n = K + 1 THEN at ELSE b[n]]
<1>1. /\ K \in Nat /\ K >= 1 /\ at \in Nat /\ K \in 1..K /\ K + 1 # 1
      /\ s.base = b[K] /\ b[K] \in Nat /\ s.base \in Slots
      /\ at = End(f, b, K) /\ \A n \in 1..K : b[n] \in Nat
      /\ s \in [ptr : Seq(Slots), base : Nat]
  <2>1. K \in Nat /\ K >= 1 /\ at \in Nat
    BY LaidTypes
  <2>2. K \in 1..K /\ K + 1 # 1
    BY <2>1
  <2> QED BY <2>1, <2>2, LaidTypes, LaidFacts DEF Slots
<1>2. /\ t \in [ptr : Seq(Slots), base : Nat] /\ t.base = at /\ Length(t) = at + 1
      /\ \A i \in 0..at - 1 : PtrAt(t, i) = PtrAt(s, i)
      /\ PtrAt(t, at) = s.base
  <2>1. t = WithMore(s, <<s.base>>, at)
    <3>1. s.ptr \in Seq(Slots)
      BY <1>1
    <3>2. Append(s.ptr, s.base) = s.ptr \o <<s.base>>
      BY <3>1, <1>1
    <3> QED BY <3>2 DEF scope_push, WithMore
  <2>2. <<s.base>> \in Seq(Slots) /\ Len(<<s.base>>) = 1 /\ <<s.base>>[1] = s.base
    BY <1>1
  <2> DEFINE more == <<s.base>>
  <2> HIDE DEF more, t, at
  <2>3. more \in Seq(Slots) /\ Len(more) = 1 /\ more[1] = s.base /\ t = WithMore(s, more, at)
    BY <2>1, <2>2 DEF more
  <2>4. /\ t \in [ptr : Seq(Slots), base : Nat]
        /\ Length(t) = Length(s) + Len(more) /\ t.base = at
        /\ \A i \in 0..Length(s) - 1 : PtrAt(t, i) = PtrAt(s, i)
        /\ Len(more) >= 1 => PtrAt(t, Length(s)) = more[1]
        /\ Len(more) >= 2 => PtrAt(t, Length(s) + 1) = more[2]
    <3>1. s \in [ptr : Seq(Slots), base : Nat] /\ more \in Seq(Slots) /\ at \in Nat
      BY <2>3, <1>1
    <3>2. HasAlso(WithMore(s, more, at), s, more, at)
      BY <3>1, Grows
    <3>3. HasAlso(t, s, more, at)
      BY <3>2, <2>3
    <3> QED BY <3>3 DEF HasAlso
  <2>6. PtrAt(t, Length(s)) = more[1]
    BY <2>3, <2>4
  <2> QED BY <2>3, <2>4, <2>6 DEF at
<1>3. Frame(FALSE) \in Frames /\ Frame(FALSE).defs = <<>> /\ ~Frame(FALSE).stash
  BY DEF Frame, Frames
<1>4. /\ g \in Seq(Frames) /\ Len(g) = K + 1 /\ g[K + 1] = Frame(FALSE)
      /\ \A n \in 1..K : g[n] = f[n]
  <2> DEFINE frame == Frame(FALSE)
  <2>1. frame \in Frames /\ f \in Seq(Frames) /\ g = Append(f, frame)
    BY <1>3, LaidFacts
  <2> HIDE DEF frame, g
  <2>2. g \in Seq(Frames) /\ Len(g) = K + 1 /\ g[K + 1] = frame /\ \A n \in 1..K : g[n] = f[n]
    BY <2>1
  <2> QED BY <2>2 DEF frame
<1>5. c \in [1..K + 1 -> Nat] /\ c[K + 1] = at /\ \A n \in 1..K : c[n] = b[n]
  BY <1>1
<1> HIDE DEF t, g, c, at
<1>6. Begins(t, g, c, K + 1)
  <2>1. K + 1 - 1 = K
    BY <1>1
  <2>2. End(g, c, K) = End(f, b, K)
    BY <1>1, <1>4, <1>5 DEF End
  <2> HIDE DEF K
  <2> QED BY <2>1, <2>2, <1>1, <1>2, <1>3, <1>4, <1>5 DEF Begins
<1>7. Laid(t, g, c)
  <2> DEFINE frame == Frame(FALSE)
  <2>1. frame \in Frames /\ frame.defs = <<>> /\ g[K + 1] = frame
    BY <1>3, <1>4
  <2>2. at >= Length(s) /\ at \in Nat
    BY <1>1 DEF at
  <2>3. \A i \in 0..Length(s) - 1 : PtrAt(t, i) = PtrAt(s, i)
    BY <1>2 DEF at
  <2>4. \A n \in 1..Len(f) : g[n] = f[n] /\ c[n] = b[n]
    BY <1>4, <1>5
  <2>5. Laid(s, f, b) /\ Len(g) = Len(f) + 1
    BY <1>4
  <2>6. t \in [ptr : Seq(Slots), base : Nat] /\ t.base = at /\ Length(t) = at + 1
    BY <1>2
  <2>7. /\ g \in Seq(Frames) /\ c \in [1..Len(f) + 1 -> Nat]
        /\ g[Len(f) + 1] = frame /\ c[Len(f) + 1] = at /\ Begins(t, g, c, Len(f) + 1)
    BY <1>4, <1>5, <1>6
  <2> HIDE DEF frame
  <2>8. HasMore(s, f, b, frame, at, t, g, c)
    BY <2>1, <2>2, <2>3, <2>4, <2>5, <2>6, <2>7 DEF HasMore
  <2> QED BY <2>8, OneMore
<1> QED BY <1>7 DEF t, g

LEMMA Stashed ==
  ASSUME NEW s, NEW f, NEW b, Laid(s, f, b), Len(f) > 1, ~f[Len(f)].stash
  PROVE  \E c : Laid(scope_stash(s), Append(f, Frame(TRUE)), c)
<1> DEFINE K == Len(f)
           t == scope_stash(s)
           g == Append(f, Frame(TRUE))
           at == Length(s) + 1
           c == [n \in 1..K + 1 |-> IF n = K + 1 THEN at ELSE b[n]]
<1>1. /\ K \in Nat /\ K >= 1 /\ at \in Nat /\ K \in 1..K /\ K + 1 > 2
      /\ s.base = b[K] /\ b[K] \in Nat /\ s.base \in Slots /\ kStash \in Slots
      /\ Length(s) = End(f, b, K) /\ Length(s) \in Nat /\ \A n \in 1..K : b[n] \in Nat
      /\ s \in [ptr : Seq(Slots), base : Nat]
  <2>1. K \in Nat /\ K >= 1 /\ at \in Nat
    BY LaidTypes
  <2>2. K \in 1..K /\ K + 1 > 2
    BY <2>1
  <2> QED BY <2>1, <2>2, LaidTypes, LaidFacts DEF Slots, kStash
<1>2. /\ t \in [ptr : Seq(Slots), base : Nat] /\ t.base = at /\ Length(t) = at + 1
      /\ \A i \in 0..Length(s) - 1 : PtrAt(t, i) = PtrAt(s, i)
      /\ PtrAt(t, at - 1) = s.base /\ PtrAt(t, at) = kStash
  <2> DEFINE more == <<s.base, kStash>>
  <2>1. t = WithMore(s, more, at)
    BY DEF scope_stash, WithMore
  <2>2. more \in Seq(Slots) /\ Len(more) = 2 /\ more[1] = s.base /\ more[2] = kStash
    BY <1>1
  <2> HIDE DEF more, t
  <2>4. /\ t \in [ptr : Seq(Slots), base : Nat]
        /\ Length(t) = Length(s) + Len(more) /\ t.base = at
        /\ \A i \in 0..Length(s) - 1 : PtrAt(t, i) = PtrAt(s, i)
        /\ Len(more) >= 1 => PtrAt(t, Length(s)) = more[1]
        /\ Len(more) >= 2 => PtrAt(t, Length(s) + 1) = more[2]
    <3>1. s \in [ptr : Seq(Slots), base : Nat] /\ more \in Seq(Slots) /\ at \in Nat
      BY <2>2, <1>1
    <3> HIDE DEF at
    <3>2. HasAlso(WithMore(s, more, at), s, more, at)
      BY <3>1, Grows
    <3>3. HasAlso(t, s, more, at)
      BY <3>2, <2>1
    <3> QED BY <3>3 DEF HasAlso
  <2>5. Length(s) = at - 1 /\ Length(s) + 1 = at
    BY <1>1
  <2>6. PtrAt(t, at - 1) = more[1] /\ PtrAt(t, at) = more[2]
    <3>1. PtrAt(t, Length(s)) = more[1] /\ PtrAt(t, Length(s) + 1) = more[2]
      BY <2>2, <2>4
    <3> HIDE DEF at
    <3> QED BY <3>1, <2>5
  <2>7. Length(s) + Len(more) = at + 1
    BY <2>2, <1>1
  <2> QED BY <2>2, <2>4, <2>6, <2>7
<1>3. Frame(TRUE) \in Frames /\ Frame(TRUE).defs = <<>> /\ Frame(TRUE).stash
  BY DEF Frame, Frames
<1>4. /\ g \in Seq(Frames) /\ Len(g) = K + 1 /\ g[K + 1] = Frame(TRUE)
      /\ \A n \in 1..K : g[n] = f[n]
  <2> DEFINE frame == Frame(TRUE)
  <2>1. frame \in Frames /\ f \in Seq(Frames) /\ g = Append(f, frame)
    BY <1>3, LaidFacts
  <2> HIDE DEF frame, g
  <2>2. g \in Seq(Frames) /\ Len(g) = K + 1 /\ g[K + 1] = frame /\ \A n \in 1..K : g[n] = f[n]
    BY <2>1
  <2> QED BY <2>2 DEF frame
<1>5. c \in [1..K + 1 -> Nat] /\ c[K + 1] = at /\ \A n \in 1..K : c[n] = b[n]
  BY <1>1
<1>8. at = Length(s) + 1
  OBVIOUS
<1> HIDE DEF t, g, c, at
<1>6. Begins(t, g, c, K + 1)
  <2>1. K + 1 - 1 = K /\ K + 1 # 1
    BY <1>1
  <2>2. End(g, c, K) = End(f, b, K)
    BY <1>1, <1>4, <1>5 DEF End
  <2>3. ~g[K].stash
    BY <1>1, <1>4
  <2>4. K + 1 > 2 /\ g[K + 1].stash /\ c[K + 1] = at
    BY <1>1, <1>3, <1>4, <1>5
  <2>5. at = End(g, c, K) + 1 /\ c[K] = b[K]
    BY <2>2, <1>1, <1>5, <1>8
  <2>6. PtrAt(t, at - 1) = b[K] /\ PtrAt(t, at) = kStash
    BY <1>1, <1>2
  <2> DEFINE n == K + 1
  <2>7. n # 1 /\ n > 2 /\ g[n].stash /\ c[n] = at /\ n - 1 = K
    BY <2>1, <2>4
  <2> HIDE DEF K, n
  <2>8. Begins(t, g, c, n)
    BY <2>3, <2>5, <2>6, <2>7 DEF Begins
  <2> QED BY <2>8 DEF n
<1>7. Laid(t, g, c)
  <2> DEFINE frame == Frame(TRUE)
  <2>1. frame \in Frames /\ frame.defs = <<>> /\ g[K + 1] = frame
    BY <1>3, <1>4
  <2>2. at >= Length(s) /\ at \in Nat
    BY <1>1, <1>8
  <2>4. \A n \in 1..Len(f) : g[n] = f[n] /\ c[n] = b[n]
    BY <1>4, <1>5
  <2>5. Laid(s, f, b) /\ Len(g) = Len(f) + 1
    BY <1>4
  <2>6. /\ t \in [ptr : Seq(Slots), base : Nat] /\ t.base = at /\ Length(t) = at + 1
        /\ \A i \in 0..Length(s) - 1 : PtrAt(t, i) = PtrAt(s, i)
    BY <1>2
  <2>7. /\ g \in Seq(Frames) /\ c \in [1..Len(f) + 1 -> Nat]
        /\ g[Len(f) + 1] = frame /\ c[Len(f) + 1] = at /\ Begins(t, g, c, Len(f) + 1)
    BY <1>4, <1>5, <1>6
  <2> HIDE DEF frame
  <2>8. HasMore(s, f, b, frame, at, t, g, c)
    BY <2>1, <2>2, <2>4, <2>5, <2>6, <2>7 DEF HasMore
  <2> QED BY <2>8, OneMore
<1> QED BY <1>7 DEF t, g

LEMMA Popped ==
  ASSUME NEW s, NEW f, NEW b, Laid(s, f, b), Len(f) > 1, ~f[Len(f)].stash
  PROVE  \E c : Laid(scope_pop(s), Front(f), c)
<1> DEFINE K == Len(f)
           t == scope_pop(s)
<1>1. /\ K \in 1..K /\ K - 1 \in 1..K /\ K # 1
      /\ s.base = b[K] /\ Length(s) = End(f, b, K) /\ s \in [ptr : Seq(Slots), base : Nat]
  <2>1. K \in Nat
    BY LaidTypes
  <2>2. K \in 1..K /\ K - 1 \in 1..K /\ K # 1
    BY <2>1
  <2> QED BY <2>2, LaidFacts
<1>2. /\ b[K] \in Nat /\ b[K] < End(f, b, K) /\ b[K - 1] \in Nat /\ End(f, b, K) \in Nat
  BY <1>1, LaidTypes
<1>3. Begins(s, f, b, K)
  BY <1>1, LaidFacts
<1>4. b[K] = End(f, b, K - 1) /\ PtrAt(s, b[K]) = b[K - 1]
  BY <1>1, <1>3 DEF Begins
<1>5. /\ t \in [ptr : Seq(Slots), base : Nat]
      /\ Length(t) = b[K] /\ t.base = b[K - 1]
      /\ \A i \in 0..b[K] - 1 : PtrAt(t, i) = PtrAt(s, i)
  <2> DEFINE len == b[K]
             base == b[K - 1]
  <2>1. len \in 0..Length(s) /\ base \in Nat
    BY <1>1, <1>2
  <2>2. t = CutTo(s, len, base)
    BY <1>1, <1>4 DEF scope_pop, CutTo
  <2> HIDE DEF len, base, t
  <2>3. /\ t \in [ptr : Seq(Slots), base : Nat]
        /\ Length(t) = len /\ t.base = base
        /\ \A i \in 0..len - 1 : PtrAt(t, i) = PtrAt(s, i)
    <3>1. s \in [ptr : Seq(Slots), base : Nat] /\ len \in 0..Length(s) /\ base \in Nat
      BY <2>1, <1>1
    <3>2. HasOnly(CutTo(s, len, base), s, len, base)
      BY <3>1, Shrinks
    <3>3. HasOnly(t, s, len, base)
      BY <3>2, <2>2
    <3> QED BY <3>3 DEF HasOnly
  <2> QED BY <2>3 DEF len, base
<1> HIDE DEF t
<1>6. Laid(t, Front(f), [n \in 1..Len(f) - 1 |-> b[n]])
  BY <1>4, <1>5, OneLess
<1> QED BY <1>6 DEF t

LEMMA Unstashed ==
  ASSUME NEW s, NEW f, NEW b, Laid(s, f, b), f[Len(f)].stash, f[Len(f)].defs = <<>>
  PROVE  \E c : Laid(scope_unstash(s), Front(f), c)
<1> DEFINE K == Len(f)
           t == scope_unstash(s)
<1>1. /\ K \in Nat /\ K \in 1..K
      /\ s.base = b[K] /\ Length(s) = End(f, b, K) /\ s \in [ptr : Seq(Slots), base : Nat]
      /\ Begins(s, f, b, K)
  <2>1. K \in Nat /\ K >= 1
    BY LaidTypes
  <2>2. K \in 1..K
    BY <2>1
  <2> QED BY <2>1, <2>2, LaidFacts
<1>2. /\ K > 2 /\ b[K] = End(f, b, K - 1) + 1 /\ PtrAt(s, b[K] - 1) = b[K - 1]
  BY <1>1 DEF Begins
<1>3. /\ b[K] \in Nat /\ b[K - 1] \in Nat /\ End(f, b, K - 1) \in Nat
  <2>1. K - 1 \in 1..K
    BY <1>1, <1>2
  <2> QED BY <2>1, <1>1, LaidTypes
<1>4. Length(s) = b[K] + 1
  <2>1. Len(f[K].defs) = 0
    OBVIOUS
  <2> QED BY <2>1, <1>1, <1>3 DEF End
<1>5. /\ t \in [ptr : Seq(Slots), base : Nat]
      /\ Length(t) = End(f, b, K - 1) /\ t.base = b[K - 1]
      /\ \A i \in 0..End(f, b, K - 1) - 1 : PtrAt(t, i) = PtrAt(s, i)
  <2> DEFINE len == End(f, b, K - 1)
             base == b[K - 1]
  <2>1. len \in 0..Length(s) /\ base \in Nat /\ Length(s) - 2 = len
    BY <1>2, <1>3, <1>4
  <2>4. b[K] - 1 = len
    BY <1>2, <1>3
  <2>2. t = CutTo(s, len, base)
    BY <1>2, <2>1, <2>4 DEF scope_unstash, CutTo
  <2> HIDE DEF len, base, t
  <2>3. /\ t \in [ptr : Seq(Slots), base : Nat]
        /\ Length(t) = len /\ t.base = base
        /\ \A i \in 0..len - 1 : PtrAt(t, i) = PtrAt(s, i)
    <3>1. s \in [ptr : Seq(Slots), base : Nat] /\ len \in 0..Length(s) /\ base \in Nat
      BY <2>1, <1>1
    <3>2. HasOnly(CutTo(s, len, base), s, len, base)
      BY <3>1, Shrinks
    <3>3. HasOnly(t, s, len, base)
      BY <3>2, <2>2
    <3> QED BY <3>3 DEF HasOnly
  <2> QED BY <2>3 DEF len, base
<1> HIDE DEF t
<1>6. Len(f) > 1
  BY <1>1, <1>2
<1>7. Laid(t, Front(f), [n \in 1..Len(f) - 1 |-> b[n]])
  BY <1>5, <1>6, OneLess
<1> QED BY <1>7 DEF t

LEMMA DefinedOne ==
  ASSUME NEW s, NEW f, NEW b, Laid(s, f, b), NEW k \in SNames, NEW v \in SValues
  PROVE  Laid(scope_define(s, k, v), [f EXCEPT ![Len(f)].defs = Append(@, <<k, v>>)], b)
<1> DEFINE K == Len(f)
           t == scope_define(s, k, v)
           g == [f EXCEPT ![Len(f)].defs = Append(@, <<k, v>>)]
           defs == f[K].defs
           L == Len(defs)
<1>1. /\ K \in Nat /\ K >= 1 /\ K \in 1..K
      /\ f \in Seq(Frames) /\ f[K] \in Frames /\ s \in [ptr : Seq(Slots), base : Nat]
      /\ b \in [1..K -> Nat] /\ s.base = b[K] /\ s.base \in Nat
      /\ Length(s) \in Nat /\ b[K] \in Nat /\ L \in Nat /\ Length(s) = End(f, b, K)
  <2>1. K \in Nat /\ K >= 1
    BY LaidTypes
  <2>2. K \in 1..K
    BY <2>1
  <2> QED BY <2>1, <2>2, LaidTypes, LaidFacts
<1>2. Length(s) = b[K] + 1 + 2 * L
  BY <1>1 DEF End
<1>3. defs \in Seq(SNames \X SValues) /\ f[K].stash \in BOOLEAN
  BY <1>1 DEF Frames
<1>4. /\ t \in [ptr : Seq(Slots), base : Nat] /\ t.base = s.base
      /\ Length(t) = Length(s) + 2
      /\ \A i \in 0..Length(s) - 1 : PtrAt(t, i) = PtrAt(s, i)
      /\ PtrAt(t, Length(s)) = v /\ PtrAt(t, Length(s) + 1) = k
  <2> DEFINE more == <<v, k>>
             base == s.base
             u == WithMore(s, more, base)
  <2>1. t = u
    <3> DEFINE ptr == s.ptr \o more
    <3>1. s = [ptr |-> s.ptr, base |-> base]
      BY <1>1
    <3>2. t = [s EXCEPT !.ptr = ptr] /\ u = [ptr |-> ptr, base |-> base]
      BY DEF scope_define, WithMore
    <3> HIDE DEF ptr, t, u, base
    <3> QED BY <3>1, <3>2
  <2>2. more \in Seq(Slots) /\ Len(more) = 2 /\ more[1] = v /\ more[2] = k
    BY DEF Slots
  <2>3. s \in [ptr : Seq(Slots), base : Nat] /\ base \in Nat
    BY <1>1
  <2> HIDE DEF more, t, base
  <2>4. HasAlso(u, s, more, base)
    BY <2>2, <2>3, Grows
  <2>5. HasAlso(t, s, more, base)
    BY <2>1, <2>4
  <2> QED BY <2>2, <2>5 DEF HasAlso, base
<1>5. /\ g \in Seq(Frames) /\ Len(g) = K /\ g # <<>>
      /\ \A n \in 1..K : n # K => g[n] = f[n]
      /\ g[K].stash = f[K].stash /\ g[K].defs = Append(defs, <<k, v>>)
  <2> DEFINE last == f[K]
             more == Append(defs, <<k, v>>)
             frame == [last EXCEPT !.defs = more]
  <2>1. last = [stash |-> last.stash, defs |-> last.defs]
    BY <1>1 DEF Frames
  <2>2. frame = [stash |-> f[K].stash, defs |-> more]
    <3> HIDE DEF more, last
    <3>1. frame = [stash |-> last.stash, defs |-> more]
      BY <2>1
    <3> QED BY <3>1 DEF last
  <2>3. more \in Seq(SNames \X SValues)
    BY <1>3
  <2>4. g = [f EXCEPT ![K] = frame]
    OBVIOUS
  <2> HIDE DEF more, frame, g
  <2>5. frame \in Frames /\ frame.stash = f[K].stash /\ frame.defs = more
    BY <2>2, <2>3, <1>3 DEF Frames
  <2>6. g \in Seq(Frames) /\ Len(g) = K /\ g[K] = frame /\ \A n \in 1..K : n # K => g[n] = f[n]
    BY <2>4, <2>5, <1>1
  <2> QED BY <2>5, <2>6, <1>1 DEF more
<1>6. /\ Len(g[K].defs) = L + 1 /\ g[K].defs[L + 1] = <<k, v>>
      /\ \A d \in 1..L : g[K].defs[d] = defs[d]
  <2> HIDE DEF defs, g
  <2> QED BY <1>3, <1>5
<1> HIDE DEF t, g
<1>7. End(g, b, K) = Length(t)
  <2> HIDE DEF K, L, defs
  <2> QED BY <1>1, <1>2, <1>4, <1>6 DEF End
<1>8. ASSUME NEW n \in 1..K, n # K
      PROVE  End(g, b, n) = End(f, b, n) /\ Begins(t, g, b, n) /\ Defines(t, g, b, n)
  <2>1. \A m \in 1..n : g[m] = f[m] /\ b[m] = b[m]
    <3>1. \A m \in 1..n : m \in 1..K /\ m # K
      BY <1>8, <1>1
    <3> QED BY <3>1, <1>5
  <2>2. \A i \in 0..End(f, b, n) - 1 : PtrAt(t, i) = PtrAt(s, i)
    <3>1. End(f, b, n) \in Nat /\ End(f, b, n) =< Length(s)
      BY LaidTypes
    <3> QED BY <3>1, <1>1, <1>4
  <2>3. n \in 1..Len(f)
    OBVIOUS
  <2>5. SameBelow(s, f, b, n, t, g, b)
    BY <2>1, <2>2, <2>3 DEF SameBelow
  <2>6. Stays(f, b, n, t, g, b)
    BY <2>5, FrameSame
  <2> QED BY <2>6 DEF Stays
<1>9. b[K] < Length(s) /\ PtrAt(t, b[K]) = PtrAt(s, b[K])
  <2>1. b[K] \in 0..Length(s) - 1
    <3> DEFINE len == Length(s)
               at == b[K]
    <3>1. len \in Nat /\ at \in Nat /\ len = at + 1 + 2 * L /\ L \in Nat
      BY <1>1, <1>2
    <3> HIDE DEF len, at, L
    <3>2. at \in 0..len - 1
      BY <3>1
    <3> QED BY <3>2 DEF len, at
  <2> QED BY <2>1, <1>1, <1>4
<1>10. Begins(t, g, b, K)
  <2>1. Begins(s, f, b, K)
    BY <1>1, LaidFacts
  <2>2. CASE K = 1
    BY <2>1, <2>2, <1>5, <1>9 DEF Begins
  <2>3. CASE K # 1
    <3>1. K - 1 \in 1..K /\ K - 1 # K
      <4> HIDE DEF K
      <4> QED BY <2>3, <1>1
    <3>2. g[K - 1] = f[K - 1] /\ End(g, b, K - 1) = End(f, b, K - 1)
      BY <3>1, <1>5, <1>8
    <3>3. CASE f[K].stash
      <4>1. b[K] = End(f, b, K - 1) + 1 /\ End(f, b, K - 1) \in Nat
        BY <2>1, <2>3, <3>1, <3>3, LaidTypes DEF Begins
      <4>2. b[K] - 1 \in 0..Length(s) - 1
        BY <4>1, <1>9, <1>1
      <4>3. PtrAt(t, b[K] - 1) = PtrAt(s, b[K] - 1)
        BY <4>2, <1>4
      <4> HIDE DEF K
      <4> QED BY <2>1, <2>3, <3>2, <3>3, <4>3, <1>5, <1>9 DEF Begins
    <3>4. CASE ~f[K].stash
      <4> HIDE DEF K
      <4> QED BY <2>1, <2>3, <3>2, <3>4, <1>5, <1>9 DEF Begins
    <3> QED BY <3>3, <3>4
  <2> QED BY <2>2, <2>3
<1>11. Defines(t, g, b, K)
  <2>1. ASSUME NEW d \in 1..L + 1
        PROVE  /\ PtrAt(t, b[K] + 2 * d - 1) = g[K].defs[d][2]
               /\ PtrAt(t, b[K] + 2 * d) = g[K].defs[d][1]
    <3>1. CASE d = L + 1
      <4> DEFINE len == Length(s)
                 at == b[K]
      <4>1. len \in Nat /\ at \in Nat /\ len = at + 1 + 2 * L /\ L \in Nat
        BY <1>1, <1>2
      <4> HIDE DEF len, at, L
      <4>2. at + 2 * d - 1 = len /\ at + 2 * d = len + 1
        BY <3>1, <4>1
      <4>3. PtrAt(t, at + 2 * d - 1) = v /\ PtrAt(t, at + 2 * d) = k
        BY <4>2, <1>4 DEF len
      <4>4. g[K].defs[d] = <<k, v>>
        BY <3>1, <1>6
      <4> QED BY <4>3, <4>4 DEF at
    <3>2. CASE d # L + 1
      <4> DEFINE len == Length(s)
                 at == b[K]
      <4>1. len \in Nat /\ at \in Nat /\ len = at + 1 + 2 * L /\ L \in Nat
        BY <1>1, <1>2
      <4>2. d \in 1..L
        BY <3>2, <1>1
      <4>3. Defines(s, f, b, K)
        BY <1>1, LaidFacts
      <4>4. PtrAt(s, at + 2 * d - 1) = defs[d][2] /\ PtrAt(s, at + 2 * d) = defs[d][1]
        BY <4>2, <4>3 DEF Defines
      <4>5. g[K].defs[d] = defs[d]
        BY <4>2, <1>6
      <4>6. at + 2 * d - 1 \in 0..len - 1 /\ at + 2 * d \in 0..len - 1
        <5> HIDE DEF len, at, L
        <5> QED BY <4>1, <4>2
      <4>7. PtrAt(t, at + 2 * d - 1) = PtrAt(s, at + 2 * d - 1) /\ PtrAt(t, at + 2 * d) = PtrAt(s, at + 2 * d)
        BY <4>6, <1>4
      <4> QED BY <4>4, <4>5, <4>7
    <3> QED BY <3>1, <3>2
  <2> HIDE DEF L
  <2> QED BY <2>1, <1>6 DEF Defines
<1>12. \A n \in 1..K : n - 1 =< b[n] /\ Begins(t, g, b, n) /\ Defines(t, g, b, n)
  BY <1>8, <1>10, <1>11, LaidFacts
<1>13. ASSUME NEW n \in 1..K, NEW m \in 1..n - 1 PROVE End(g, b, m) =< b[n]
  <2>1. m \in 1..K /\ m # K
    BY <1>1
  <2>2. End(g, b, m) = End(f, b, m)
    BY <2>1, <1>8
  <2>3. End(f, b, m) =< b[n]
    BY LaidFacts
  <2> QED BY <2>2, <2>3
<1>14. Laid(t, g, b)
  <2>1. Len(g) = K /\ t.base = b[K] /\ Length(t) = End(g, b, K)
    BY <1>1, <1>4, <1>5, <1>7
  <2> HIDE DEF K
  <2> QED BY <2>1, <1>1, <1>4, <1>5, <1>12, <1>13 DEF Laid
<1> QED BY <1>14 DEF t, g

LEMMA ScopeInvInit == ScopeInit => ScopeInv
<1> SUFFICES ASSUME ScopeInit PROVE ScopeInv
  OBVIOUS
<1> DEFINE b == [n \in 1..1 |-> 0]
<1>1. scope = [ptr |-> <<0>>, base |-> 0]
  BY DEF ScopeInit, scope_push, scope_clear, Length
<1>2. scope \in [ptr : Seq(Slots), base : Nat] /\ Length(scope) = 1 /\ PtrAt(scope, 0) = 0 /\ scope.base = 0
  <2>1. <<0>> \in Seq(Slots)
    BY DEF Slots
  <2> QED BY <1>1, <2>1 DEF Length, PtrAt
<1>3. Frame(FALSE) \in Frames /\ Frame(FALSE).defs = <<>> /\ ~Frame(FALSE).stash
  BY DEF Frame, Frames
<1>4. /\ sframes \in Seq(Frames) /\ Len(sframes) = 1 /\ sframes # <<>>
      /\ sframes[1].defs = <<>> /\ ~sframes[1].stash
  <2> DEFINE frame == Frame(FALSE)
  <2>1. sframes = <<frame>> /\ frame \in Frames /\ frame.defs = <<>> /\ ~frame.stash
    BY <1>3 DEF ScopeInit
  <2> HIDE DEF frame
  <2> QED BY <2>1
<1>5. b \in [1..1 -> Nat] /\ b[1] = 0 /\ 1..1 = {1} /\ \A n \in 1..1 : 1..n - 1 = {}
  OBVIOUS
<1> HIDE DEF b
<1>6. End(sframes, b, 1) = 1
  BY <1>4, <1>5 DEF End
<1>7. Begins(scope, sframes, b, 1) /\ Defines(scope, sframes, b, 1)
  BY <1>2, <1>4, <1>5 DEF Begins, Defines
<1>8. Laid(scope, sframes, b)
  BY <1>2, <1>4, <1>5, <1>6, <1>7 DEF Laid
<1> QED BY <1>8 DEF ScopeInv

LEMMA ScopeInvNext == ScopeInv /\ [ScopeNext]_scopeVars => ScopeInv'
<1> SUFFICES ASSUME ScopeInv, [ScopeNext]_scopeVars PROVE ScopeInv'
  OBVIOUS
<1>1. PICK b : Laid(scope, sframes, b)
  BY DEF ScopeInv
<1> DEFINE K == Len(sframes)
<1>2. ASSUME enter_scope PROVE ScopeInv'
  <2>1. \E c : Laid(scope_push(scope), Append(sframes, Frame(FALSE)), c)
    BY <1>1, Pushed
  <2> QED BY <1>2, <2>1 DEF enter_scope, ScopeInv
<1>3. ASSUME leave_scope PROVE ScopeInv'
  <2>1. Len(sframes) > 1 /\ ~sframes[Len(sframes)].stash
    BY <1>3 DEF leave_scope, TopFrame
  <2>2. \E c : Laid(scope_pop(scope), Front(sframes), c)
    BY <1>1, <2>1, Popped
  <2> QED BY <1>3, <2>2 DEF leave_scope, ScopeInv
<1>4. ASSUME stash PROVE ScopeInv'
  <2>1. Len(sframes) > 1 /\ ~sframes[Len(sframes)].stash
    BY <1>4 DEF stash, TopFrame
  <2>2. \E c : Laid(scope_stash(scope), Append(sframes, Frame(TRUE)), c)
    BY <1>1, <2>1, Stashed
  <2> QED BY <1>4, <2>2 DEF stash, ScopeInv
<1>5. ASSUME unstash PROVE ScopeInv'
  <2>1. sframes[Len(sframes)].stash /\ sframes[Len(sframes)].defs = <<>>
    BY <1>5 DEF unstash, TopFrame
  <2>2. \E c : Laid(scope_unstash(scope), Front(sframes), c)
    BY <1>1, <2>1, Unstashed
  <2> QED BY <1>5, <2>2 DEF unstash, ScopeInv
<1>6. ASSUME NEW k \in SNames, NEW v \in SValues, define(k, v) PROVE ScopeInv'
  <2>1. Laid(scope_define(scope, k, v), [sframes EXCEPT ![Len(sframes)].defs = Append(@, <<k, v>>)], b)
    BY <1>1, DefinedOne
  <2> QED BY <1>6, <2>1 DEF define, ScopeInv
<1>7. CASE UNCHANGED scopeVars
  BY <1>7, <1>1 DEF scopeVars, ScopeInv
<1> QED BY <1>2, <1>3, <1>4, <1>5, <1>6, <1>7 DEF ScopeNext

\* Frame n, as a walk sees it.
FrameAt(b, n) == Place(End(sframes, b, n), b[n])
OffStack == Place(0, 0)

LEMMA KeysOf ==
  ASSUME NEW b, Laid(scope, sframes, b), NEW n \in 1..Len(sframes), NEW k
  PROVE  KeysAt(scope, FrameAt(b, n), k) = {b[n] + 2 * d : d \in DefsOf(n, k)}
<1> DEFINE defs == sframes[n].defs
           L == Len(defs)
           at == b[n]
           end == End(sframes, b, n)
           keys == KeysAt(scope, FrameAt(b, n), k)
<1>1. at \in Nat /\ L \in Nat /\ end = at + 1 + 2 * L /\ DOMAIN defs = 1..L
  <2>1. sframes[n] \in Frames
    BY LaidTypes
  <2> QED BY <2>1, LaidTypes DEF End, Frames
<1>2. \A d \in 1..L : PtrAt(scope, at + 2 * d) = defs[d][1]
  <2>1. Defines(scope, sframes, b, n)
    BY LaidFacts
  <2> QED BY <2>1 DEF Defines
<1>3. keys = {i \in at + 2 .. end - 1 : (end - i) % 2 = 1 /\ PtrAt(scope, i) = k}
  BY DEF KeysAt, FrameAt, Place
<1>4. DefsOf(n, k) = {d \in 1..L : defs[d][1] = k}
  BY <1>1 DEF DefsOf
<1> HIDE DEF defs, L, at, end, keys
<1>5. ASSUME NEW i \in keys PROVE \E d \in DefsOf(n, k) : i = at + 2 * d
  <2>1. i \in at + 2 .. end - 1 /\ (end - i) % 2 = 1 /\ PtrAt(scope, i) = k
    BY <1>3
  <2> DEFINE d == (i - at) \div 2
  <2>2. d \in 1..L /\ i = at + 2 * d
    BY <2>1, <1>1
  <2>3. defs[d][1] = k
    BY <2>1, <2>2, <1>2
  <2> HIDE DEF d
  <2> QED BY <2>2, <2>3, <1>4
<1>6. ASSUME NEW d \in DefsOf(n, k) PROVE at + 2 * d \in keys
  <2>1. d \in 1..L /\ defs[d][1] = k
    BY <1>4
  <2>2. at + 2 * d \in at + 2 .. end - 1 /\ (end - (at + 2 * d)) % 2 = 1
    BY <2>1, <1>1
  <2> QED BY <2>1, <2>2, <1>2, <1>3
<1>7. keys = {at + 2 * d : d \in DefsOf(n, k)}
  BY <1>5, <1>6
<1> QED BY <1>7 DEF keys, at

\* The last definition of a name in a frame, which is found first.
LEMMA LastOf ==
  ASSUME NEW b, Laid(scope, sframes, b), NEW n \in 1..Len(sframes), NEW k, DefsOf(n, k) # {}
  PROVE  PtrAt(scope, Max(KeysAt(scope, FrameAt(b, n), k)) - 1)
           = sframes[n].defs[Max(DefsOf(n, k))][2]
<1> DEFINE defs == sframes[n].defs
           L == Len(defs)
           at == b[n]
           D == DefsOf(n, k)
           keys == KeysAt(scope, FrameAt(b, n), k)
<1>1. at \in Nat /\ L \in Nat /\ D \subseteq 1..L
  <2>1. sframes[n] \in Frames
    BY LaidTypes
  <2> QED BY <2>1, LaidTypes DEF Frames, DefsOf
<1>2. keys = {at + 2 * d : d \in D}
  BY KeysOf
<1>3. Defines(scope, sframes, b, n)
  BY LaidFacts
<1>4. \A d \in 1..L : PtrAt(scope, at + 2 * d - 1) = defs[d][2]
  BY <1>3 DEF Defines
<1> HIDE DEF defs, L, at, D, keys
<1>5. D # {}
  BY DEF D
<1>6. Max(D) \in D /\ \A d \in D : d =< Max(D)
  <2>1. D \subseteq 0..L
    BY <1>1
  <2> QED BY <2>1, <1>1, <1>5, Greatest
<1>7. Max(keys) \in keys /\ \A i \in keys : i =< Max(keys)
  <2> DEFINE N == at + 2 * L
  <2>1. keys # {} /\ N \in Nat
    <3>1. keys # {}
      BY <1>2, <1>5
    <3> QED BY <3>1, <1>1
  <2>2. keys \subseteq 0..N
    <3>1. ASSUME NEW i \in keys PROVE i \in 0..N
      <4>1. PICK d \in D : i = at + 2 * d
        BY <1>2
      <4>2. d \in 1..L
        BY <1>1
      <4> QED BY <4>1, <4>2, <1>1
    <3> QED BY <3>1
  <2> HIDE DEF N
  <2> QED BY <2>1, <2>2, Greatest
<1>8. PICK d \in D : Max(keys) = at + 2 * d
  BY <1>2, <1>7
<1>9. at + 2 * Max(D) =< at + 2 * d /\ d =< Max(D) /\ d \in Nat /\ Max(D) \in Nat
  <2> DEFINE m == Max(D)
             last == Max(keys)
  <2>1. at + 2 * m \in keys
    BY <1>2, <1>6
  <2>2. at + 2 * m =< last /\ last = at + 2 * d /\ d =< m /\ m \in D
    BY <2>1, <1>6, <1>7, <1>8
  <2>3. d \in 1..L /\ m \in 1..L
    BY <2>2, <1>1
  <2> HIDE DEF m, last
  <2>4. at + 2 * m =< at + 2 * d /\ d =< m /\ d \in Nat /\ m \in Nat
    BY <2>2, <2>3, <1>1
  <2> QED BY <2>4 DEF m
<1>10. d = Max(D)
  <2> DEFINE m == Max(D)
  <2>1. at + 2 * m =< at + 2 * d /\ d =< m /\ d \in Nat /\ m \in Nat
    BY <1>9
  <2> HIDE DEF m
  <2>2. d = m
    BY <2>1, <1>1
  <2> QED BY <2>2 DEF m
<1>11. PtrAt(scope, at + 2 * d - 1) = defs[d][2]
  BY <1>1, <1>4
<1>12. PtrAt(scope, Max(keys) - 1) = defs[Max(D)][2]
  <2> DEFINE last == Max(keys)
  <2>1. last = at + 2 * d
    BY <1>8
  <2> HIDE DEF last
  <2>3. last - 1 = at + 2 * d - 1
    <3>1. d \in 1..L
      BY <1>1
    <3> QED BY <2>1, <3>1, <1>1
  <2>2. PtrAt(scope, last - 1) = defs[d][2]
    BY <2>3, <1>11
  <2> QED BY <2>2, <1>10 DEF last
<1> QED BY <1>12 DEF keys, D, defs

\* What leaving a scope comes to.
LEMMA OuterIs ==
  ASSUME NEW b, Laid(scope, sframes, b), NEW n \in 1..Len(sframes)
  PROVE  /\ n = 1 => Outer(scope, FrameAt(b, n)) = OffStack
         /\ (n # 1 /\ ~sframes[n].stash) => Outer(scope, FrameAt(b, n)) = FrameAt(b, n - 1)
         /\ sframes[n].stash =>
              /\ n > 2 /\ ~sframes[n - 1].stash
              /\ Outer(scope, FrameAt(b, n)) = FrameAt(b, n - 2)
         /\ Outer(scope, OffStack) = OffStack
<1>1. Len(sframes) \in Nat /\ n \in Int /\ 1 \in 1..Len(sframes)
  BY LaidTypes
<1>2. \A m \in 1..Len(sframes) : b[m] \in Nat /\ b[m] # kStash /\ Begins(scope, sframes, b, m)
  BY LaidTypes, LaidFacts DEF kStash
<1>3. FrameAt(b, n).base = b[n] /\ OffStack.base = 0 /\ 0 # kStash
  BY DEF FrameAt, OffStack, Place, kStash
<1>4. PtrAt(scope, 0) = 0 /\ b[1] = 0 /\ ~sframes[1].stash
  BY <1>1, <1>2 DEF Begins
<1>5. Outer(scope, OffStack) = OffStack
  BY <1>3, <1>4 DEF Outer, BaseBelow, OffStack
<1>6. n = 1 => Outer(scope, FrameAt(b, n)) = OffStack
  BY <1>3, <1>4 DEF Outer, BaseBelow, OffStack
<1>7. ASSUME n # 1, ~sframes[n].stash PROVE Outer(scope, FrameAt(b, n)) = FrameAt(b, n - 1)
  <2>1. n - 1 \in 1..Len(sframes)
    BY <1>1, <1>7
  <2>2. b[n] = End(sframes, b, n - 1) /\ PtrAt(scope, b[n]) = b[n - 1] /\ b[n - 1] # kStash
    BY <2>1, <1>2, <1>7 DEF Begins
  <2> QED BY <2>2, <1>3 DEF Outer, BaseBelow, FrameAt
<1>8. ASSUME sframes[n].stash
      PROVE  /\ n > 2 /\ ~sframes[n - 1].stash
             /\ Outer(scope, FrameAt(b, n)) = FrameAt(b, n - 2)
  <2>1. n # 1
    BY <1>4, <1>8
  <2>2. /\ n > 2 /\ ~sframes[n - 1].stash
        /\ PtrAt(scope, b[n] - 1) = b[n - 1] /\ PtrAt(scope, b[n]) = kStash
    BY <2>1, <1>2, <1>8 DEF Begins
  <2>3. n - 1 \in 1..Len(sframes) /\ n - 1 # 1 /\ n - 1 - 1 = n - 2
    BY <2>2, <1>1
  <2>4. Begins(scope, sframes, b, n - 1)
    BY <2>3, <1>2
  <2>5. b[n - 1] = End(sframes, b, n - 2) /\ PtrAt(scope, b[n - 1]) = b[n - 2]
    BY <2>2, <2>3, <2>4 DEF Begins
  <2> QED BY <2>2, <2>5, <1>3 DEF Outer, BaseBelow, FrameAt
<1> QED BY <1>5, <1>6, <1>7, <1>8

LEMMA AboveFacts ==
  ASSUME NEW b, Laid(scope, sframes, b), NEW n \in InView
  PROVE  /\ Above(n) \in Nat /\ Above(n) =< Len(sframes) - 1
         /\ \A m \in InView : m < n => Above(n) < Above(m)
<1> DEFINE K == Len(sframes)
           Higher(m) == {i \in InView : i > m}
<1>1. K \in Nat /\ InView \subseteq 1..K /\ n \in 1..K
  <2>1. sframes \in Seq(Frames) /\ K \in Nat
    BY LaidTypes, LaidFacts
  <2> QED BY <2>1 DEF InView
<1>2. IsFiniteSet(1..K) /\ IsFiniteSet(2..K) /\ Cardinality(2..K) = K - 1
  <2>1. 1 \in Int /\ 2 \in Int /\ K \in Int /\ K >= 1
    BY <1>1
  <2>2. IsFiniteSet(1..K)
    BY <2>1, FS_Interval
  <2>3. IsFiniteSet(2..K) /\ Cardinality(2..K) = IF 2 > K THEN 0 ELSE K - 2 + 1
    BY <2>1, FS_Interval
  <2> QED BY <2>1, <2>2, <2>3
<1>3. ASSUME NEW m \in InView
      PROVE  IsFiniteSet(Higher(m)) /\ Cardinality(Higher(m)) \in Nat
             /\ Above(m) = Cardinality(Higher(m)) /\ Cardinality(Higher(m)) =< K - 1
  <2>1. Higher(m) \subseteq 2..K
    <3>1. m \in 1..K
      BY <1>1
    <3>2. ASSUME NEW i \in InView, i > m PROVE i \in 2..K
      <4>1. i \in 1..K
        BY <1>1
      <4> HIDE DEF K
      <4> QED BY <4>1, <3>1, <3>2, <1>1
    <3> QED BY <3>2
  <2> HIDE DEF Higher
  <2>2. IsFiniteSet(Higher(m)) /\ Cardinality(Higher(m)) =< Cardinality(2..K)
    BY <2>1, <1>2, FS_Subset
  <2>3. Cardinality(Higher(m)) \in Nat
    BY <2>2, FS_CardinalityType
  <2> QED BY <2>2, <2>3, <1>2 DEF Above, Higher
<1>4. ASSUME NEW m \in InView, m < n PROVE Cardinality(Higher(n)) < Cardinality(Higher(m))
  <2>1. Higher(n) \subseteq Higher(m) /\ n \in Higher(m) /\ n \notin Higher(n)
    <3>1. m \in Int /\ n \in Int
      BY <1>1
    <3>2. ASSUME NEW i \in InView, i > n PROVE i > m
      <4>1. i \in Int
        BY <1>1
      <4> QED BY <4>1, <3>1, <3>2, <1>4
    <3>3. n > m /\ ~(n > n)
      BY <3>1, <1>4
    <3> QED BY <3>2, <3>3, Zenon
  <2> HIDE DEF Higher
  <2>2. /\ Cardinality(Higher(n)) =< Cardinality(Higher(m))
        /\ Cardinality(Higher(m)) = Cardinality(Higher(n)) => Higher(m) = Higher(n)
    BY <2>1, <1>3, FS_Subset
  <2> QED BY <2>1, <2>2, <1>3
<1> HIDE DEF Higher
<1> QED BY <1>3, <1>4

\* One more.
LEMMA AboveNext ==
  ASSUME NEW b, Laid(scope, sframes, b), NEW n \in InView, NEW m \in InView, m < n,
         \A i \in InView : i > m => i >= n
  PROVE  Above(m) = Above(n) + 1
<1> DEFINE Higher(j) == {i \in InView : i > j}
<1>1. Len(sframes) \in Nat /\ InView \subseteq 1..Len(sframes)
  <2>1. sframes \in Seq(Frames) /\ Len(sframes) \in Nat
    BY LaidTypes, LaidFacts
  <2> QED BY <2>1 DEF InView
<1>2. Higher(m) = Higher(n) \cup {n} /\ n \notin Higher(n)
  <2>1. m \in Int /\ n \in Int
    BY <1>1
  <2>2. ASSUME NEW i \in InView PROVE i > m <=> i > n \/ i = n
    <3>1. i \in Int
      BY <1>1
    <3>2. i > m => i >= n
      OBVIOUS
    <3> QED BY <3>1, <3>2, <2>1
  <2>3. ~(n > n)
    BY <2>1
  <2> QED BY <2>2, <2>3, Zenon
<1>3. IsFiniteSet(Higher(n))
  <2>1. IsFiniteSet(1..Len(sframes)) /\ Higher(n) \subseteq 1..Len(sframes)
    <3>1. 1 \in Int /\ Len(sframes) \in Int
      BY <1>1
    <3> QED BY <3>1, <1>1, FS_Interval
  <2> HIDE DEF Higher
  <2> QED BY <2>1, FS_Subset
<1>4. Above(m) = Cardinality(Higher(m)) /\ Above(n) = Cardinality(Higher(n))
  BY DEF Above
<1> HIDE DEF Higher
<1>5. Cardinality(Higher(n) \cup {n}) = Cardinality(Higher(n)) + 1
  BY <1>2, <1>3, FS_AddElement
<1> QED BY <1>2, <1>4, <1>5

(* The walk. *)

Further(s, key, w) == IF KeysAt(s, w, key) = {} THEN Outer(s, w) ELSE w

Walked(s, key, n, g) ==
  g = [d \in 0..n |-> IF d = 0 THEN Place(Length(s), s.base) ELSE Further(s, key, g[d - 1])]

LEMMA WalkExists ==
  ASSUME NEW s, NEW key, NEW N \in Nat
  PROVE  \E g : Walked(s, key, N, g)
<1> DEFINE first == Place(Length(s), s.base)
           Next1(w) == Further(s, key, w)
           S == {n \in 0..N : \E g : Walked(s, key, n, g)}
<1>1. \A n, g : Walked(s, key, n, g) <=>
        g = [d \in 0..n |-> IF d = 0 THEN first ELSE Next1(g[d - 1])]
  BY DEF Walked
<1> HIDE DEF Next1, first
<1>2. 0 \in S
  <2> DEFINE g == [d \in 0..0 |-> first]
  <2>1. g = [d \in 0..0 |-> IF d = 0 THEN first ELSE Next1(g[d - 1])]
    OBVIOUS
  <2>2. Walked(s, key, 0, g)
    BY <2>1, <1>1
  <2> QED BY <2>2
<1>3. ASSUME NEW n \in 1..N, n - 1 \in S
      PROVE  n \in S
  <2>1. PICK g : Walked(s, key, n - 1, g)
    BY <1>3
  <2> DEFINE h == [d \in 0..n |-> IF d = n THEN Next1(g[n - 1]) ELSE g[d]]
  <2>2. ASSUME NEW d \in 0..n
        PROVE  h[d] = IF d = 0 THEN first ELSE Next1(h[d - 1])
    <3>1. CASE d = n
      <4>1. h[d] = Next1(g[n - 1]) /\ h[d - 1] = g[n - 1] /\ d # 0
        BY <3>1
      <4> QED BY <4>1, <3>1
    <3>2. CASE d # n
      <4>1. d \in 0..n - 1 /\ h[d] = g[d]
        BY <3>2
      <4>2. d # 0 => d - 1 \in 0..n /\ d - 1 # n /\ h[d - 1] = g[d - 1]
        BY <3>2
      <4>3. g[d] = IF d = 0 THEN first ELSE Next1(g[d - 1])
        BY <4>1, <2>1, <1>1
      <4> QED BY <4>1, <4>2, <4>3
    <3> QED BY <3>1, <3>2
  <2>3. Walked(s, key, n, h)
    <3>1. h = [d \in 0..n |-> IF d = 0 THEN first ELSE Next1(h[d - 1])]
      BY <2>2
    <3> QED BY <3>1, <1>1
  <2> QED BY <2>3
<1>4. 0..N \subseteq S
  BY <1>2, <1>3, Induction
<1> QED BY <1>4

LEMMA WalkSteps ==
  ASSUME NEW s, NEW key, NEW N \in Nat
  PROVE  \E g :
           /\ g[0] = Place(Length(s), s.base)
           /\ \A d \in 1..N : g[d] = Further(s, key, g[d - 1])
           /\ LET keys == KeysAt(s, g[N], key)
              IN  scope_lookup(s, key, N) = IF keys = {} THEN NotDefined ELSE PtrAt(s, Max(keys) - 1)
<1> DEFINE walk == CHOOSE g : Walked(s, key, N, g)
<1>1. Walked(s, key, N, walk)
  BY WalkExists
<1>2. LET keys == KeysAt(s, walk[N], key)
      IN  scope_lookup(s, key, N) = IF keys = {} THEN NotDefined ELSE PtrAt(s, Max(keys) - 1)
  BY DEF scope_lookup, Walked, Further
<1> HIDE DEF walk
<1>3. walk[0] = Place(Length(s), s.base)
  BY <1>1 DEF Walked
<1>4. ASSUME NEW d \in 1..N PROVE walk[d] = Further(s, key, walk[d - 1])
  BY <1>1 DEF Walked
<1> QED BY <1>2, <1>3, <1>4

\* After d steps the walk is at the innermost frame in view that has the name, at
\* the frame below d others, or has left them all.
WalkAt(b, k, d, w) ==
  \/ \E n \in InView :
       /\ w = FrameAt(b, n) /\ Above(n) =< d
       /\ DefsOf(n, k) # {} \/ Above(n) = d
       /\ \A m \in InView : m > n => DefsOf(m, k) = {}
  \/ w = OffStack /\ \A m \in InView : DefsOf(m, k) = {}

LEMMA InViewTypes ==
  ASSUME NEW b, Laid(scope, sframes, b)
  PROVE  /\ Len(sframes) \in Nat /\ InView \subseteq 1..Len(sframes)
         /\ \A n \in InView : n \in Int
         /\ \A n \in 1..Len(sframes) : n \in InView <=> n = Len(sframes) \/ ~sframes[n + 1].stash
<1>1. sframes \in Seq(Frames) /\ Len(sframes) \in Nat
  BY LaidTypes, LaidFacts
<1>2. DOMAIN sframes = 1..Len(sframes)
  BY <1>1
<1>3. InView \subseteq 1..Len(sframes)
  BY <1>2 DEF InView
<1>4. \A n \in InView : n \in Int
  BY <1>1, <1>3
<1> QED BY <1>1, <1>2, <1>3, <1>4 DEF InView

LEMMA WalkBegins ==
  ASSUME NEW b, Laid(scope, sframes, b), NEW k
  PROVE  WalkAt(b, k, 0, Place(Length(scope), scope.base))
<1> DEFINE K == Len(sframes)
<1>1. K \in Nat /\ K >= 1 /\ K \in InView /\ \A m \in InView : m \in 1..K
  <2>1. K \in Nat /\ K >= 1
    BY LaidTypes
  <2>2. K \in 1..K
    BY <2>1
  <2> QED BY <2>1, <2>2, InViewTypes
<1>2. Place(Length(scope), scope.base) = FrameAt(b, K)
  BY LaidFacts DEF FrameAt
<1>3. \A m \in InView : ~(m > K)
  BY <1>1
<1>4. Above(K) = 0
  <2>1. {m \in InView : m > K} = {}
    BY <1>3
  <2>2. Cardinality({}) = 0
    BY FS_EmptySet
  <2> QED BY <2>1, <2>2 DEF Above
<1> HIDE DEF K
<1> QED BY <1>1, <1>2, <1>3, <1>4 DEF WalkAt

LEMMA WalkGoesOn ==
  ASSUME NEW b, Laid(scope, sframes, b), NEW k, NEW d \in Nat, NEW w, WalkAt(b, k, d, w)
  PROVE  WalkAt(b, k, d + 1, Further(scope, k, w))
<1> DEFINE K == Len(sframes)
<1>1. /\ K \in Nat /\ InView \subseteq 1..K
      /\ \A n \in InView : n \in Int
      /\ \A n \in 1..K : n \in InView <=> n = K \/ ~sframes[n + 1].stash
  BY InViewTypes
<1> HIDE DEF K
<1>2. CASE w = OffStack /\ \A m \in InView : DefsOf(m, k) = {}
  <2>1. KeysAt(scope, OffStack, k) = {}
    BY DEF KeysAt, OffStack, Place
  <2>2. Outer(scope, OffStack) = OffStack
    <3>1. 1 \in 1..Len(sframes)
      BY LaidTypes
    <3> QED BY <3>1, OuterIs
  <2> QED BY <2>1, <2>2, <1>2 DEF Further, WalkAt
<1>3. ASSUME NEW n \in InView, w = FrameAt(b, n), Above(n) =< d,
             DefsOf(n, k) # {} \/ Above(n) = d,
             \A m \in InView : m > n => DefsOf(m, k) = {}
      PROVE  WalkAt(b, k, d + 1, Further(scope, k, w))
  <2>1. n \in 1..Len(sframes) /\ n \in Int /\ Above(n) \in Nat
    BY <1>1, AboveFacts DEF K
  <2>2. KeysAt(scope, w, k) = {} <=> DefsOf(n, k) = {}
    <3>1. KeysAt(scope, w, k) = {b[n] + 2 * i : i \in DefsOf(n, k)}
      BY <2>1, <1>3, KeysOf
    <3> QED BY <3>1
  <2>3. CASE DefsOf(n, k) # {}
    <3>1. Further(scope, k, w) = FrameAt(b, n)
      BY <2>2, <2>3, <1>3 DEF Further
    <3>2. Above(n) =< d + 1
      BY <2>1, <1>3
    <3> QED BY <3>1, <3>2, <2>3, <1>3 DEF WalkAt
  <2>4. CASE DefsOf(n, k) = {}
    <3>1. Further(scope, k, w) = Outer(scope, FrameAt(b, n)) /\ Above(n) = d
      BY <2>2, <2>4, <1>3 DEF Further
    <3>2. \A m \in InView : m >= n => DefsOf(m, k) = {}
      <4>1. \A m \in InView : m >= n => m > n \/ m = n
        BY <2>1, <1>1
      <4> QED BY <4>1, <2>4, <1>3
    <3>3. CASE n = 1
      <4>1. Outer(scope, FrameAt(b, n)) = OffStack
        BY <2>1, <3>3, OuterIs
      <4>2. \A m \in InView : m >= n
        BY <3>3, <1>1
      <4> QED BY <4>1, <4>2, <3>1, <3>2 DEF WalkAt
    <3>4. ASSUME NEW m \in InView, m < n, \A i \in InView : i > m => i >= n,
                 Outer(scope, FrameAt(b, n)) = FrameAt(b, m)
          PROVE  WalkAt(b, k, d + 1, Further(scope, k, w))
      <4>1. Above(m) = d + 1
        BY <3>1, <3>4, AboveNext
      <4>2. Above(m) =< d + 1
        BY <4>1
      <4>3. \A i \in InView : i > m => DefsOf(i, k) = {}
        BY <3>2, <3>4
      <4> QED BY <4>1, <4>2, <4>3, <3>1, <3>4 DEF WalkAt
    <3>5. CASE n # 1 /\ ~sframes[n].stash
      <4>1. Outer(scope, FrameAt(b, n)) = FrameAt(b, n - 1)
        BY <2>1, <3>5, OuterIs
      <4>2. n - 1 \in 1..K /\ n - 1 + 1 = n
        BY <2>1, <1>1, <3>5
      <4>3. n - 1 \in InView
        BY <4>2, <1>1, <3>5
      <4>4. n - 1 < n /\ \A i \in InView : i > n - 1 => i >= n
        BY <2>1, <1>1
      <4> QED BY <4>1, <4>3, <4>4, <3>4
    <3>6. CASE sframes[n].stash
      <4>1. n > 2 /\ ~sframes[n - 1].stash /\ Outer(scope, FrameAt(b, n)) = FrameAt(b, n - 2)
        BY <2>1, <3>6, OuterIs
      <4>2. /\ n - 1 \in 1..K /\ n - 1 + 1 = n /\ n - 1 # K
            /\ n - 2 \in 1..K /\ n - 2 + 1 = n - 1
        BY <2>1, <1>1, <4>1 DEF K
      <4>3. n - 2 \in InView /\ n - 1 \notin InView
        BY <4>1, <4>2, <1>1, <3>6
      <4>4. ASSUME NEW i \in InView, i > n - 2 PROVE i >= n
        <5>1. i \in Int /\ i # n - 1
          BY <4>3, <1>1
        <5> QED BY <5>1, <4>4, <2>1
      <4>5. n - 2 < n
        BY <2>1
      <4> QED BY <4>1, <4>3, <4>4, <4>5, <3>4
    <3> QED BY <3>3, <3>5, <3>6
  <2> QED BY <2>3, <2>4
<1> QED BY <1>2, <1>3 DEF WalkAt

LEMMA ScopeLookupRight ==
  ASSUME NEW b, Laid(scope, sframes, b), NEW k, NEW N \in Nat
  PROVE  scope_lookup(scope, k, N) = Meant(k, N)
<1>1. PICK g :
        /\ g[0] = Place(Length(scope), scope.base)
        /\ \A d \in 1..N : g[d] = Further(scope, k, g[d - 1])
        /\ LET keys == KeysAt(scope, g[N], k)
           IN  scope_lookup(scope, k, N) =
                 IF keys = {} THEN NotDefined ELSE PtrAt(scope, Max(keys) - 1)
  BY WalkSteps
<1> DEFINE S == {d \in 0..N : WalkAt(b, k, d, g[d])}
<1>2. 0 \in S
  BY <1>1, WalkBegins
<1>3. ASSUME NEW d \in 1..N, d - 1 \in S PROVE d \in S
  <2>1. d - 1 \in Nat /\ WalkAt(b, k, d - 1, g[d - 1]) /\ d - 1 + 1 = d
    BY <1>3
  <2> DEFINE e == d - 1
  <2>2. e \in Nat /\ WalkAt(b, k, e, g[e]) /\ e + 1 = d
    BY <2>1
  <2>3. g[d] = Further(scope, k, g[e])
    BY <1>1
  <2> HIDE DEF e
  <2>4. WalkAt(b, k, e + 1, Further(scope, k, g[e]))
    BY <2>2, WalkGoesOn
  <2> QED BY <2>2, <2>3, <2>4
<1>4. WalkAt(b, k, N, g[N])
  <2>1. 0..N \subseteq S
    BY <1>2, <1>3, Induction
  <2> QED BY <2>1
<1> DEFINE within == {n \in InView : Above(n) =< N /\ DefsOf(n, k) # {}}
           keys == KeysAt(scope, g[N], k)
<1>5. Meant(k, N) = IF within = {} THEN NotDefined
                    ELSE sframes[Max(within)].defs[Max(DefsOf(Max(within), k))][2]
  BY DEF Meant
<1>6. scope_lookup(scope, k, N) = IF keys = {} THEN NotDefined ELSE PtrAt(scope, Max(keys) - 1)
  BY <1>1
<1>7. CASE g[N] = OffStack /\ \A m \in InView : DefsOf(m, k) = {}
  <2>1. keys = {}
    BY <1>7 DEF KeysAt, OffStack, Place
  <2>2. within = {}
    BY <1>7
  <2> QED BY <2>1, <2>2, <1>5, <1>6
<1>8. ASSUME NEW n \in InView, g[N] = FrameAt(b, n), Above(n) =< N,
             DefsOf(n, k) # {} \/ Above(n) = N,
             \A m \in InView : m > n => DefsOf(m, k) = {}
      PROVE  scope_lookup(scope, k, N) = Meant(k, N)
  <2>1. n \in 1..Len(sframes) /\ n \in Int /\ Len(sframes) \in Nat /\ \A m \in InView : m \in 1..Len(sframes)
    BY InViewTypes
  <2>2. keys = {b[n] + 2 * i : i \in DefsOf(n, k)}
    BY <2>1, <1>8, KeysOf
  <2>3. CASE DefsOf(n, k) = {}
    <3>1. keys = {}
      BY <2>2, <2>3
    <3>2. Above(n) = N
      BY <1>8, <2>3
    <3>3. ASSUME NEW m \in InView, Above(m) =< N PROVE DefsOf(m, k) = {}
      <4>1. m \in Int
        BY <2>1
      <4>2. CASE m > n
        BY <4>2, <1>8
      <4>3. CASE m = n
        BY <4>3, <2>3
      <4>4. CASE m < n
        <5>1. Above(n) < Above(m) /\ Above(n) \in Nat /\ Above(m) \in Nat
          BY <4>4, AboveFacts
        <5> QED BY <5>1, <3>2, <3>3
      <4> QED BY <4>1, <4>2, <4>3, <4>4, <2>1
    <3>4. within = {}
      BY <3>3
    <3> QED BY <3>1, <3>4, <1>5, <1>6
  <2>4. CASE DefsOf(n, k) # {}
    <3>1. n \in within /\ \A m \in within : ~(m > n)
      BY <2>4, <1>8
    <3>2. Max(within) = n
      <4> DEFINE K == Len(sframes)
      <4>0. \A m \in 1..K : m \in 0..K
        BY <2>1
      <4>1. K \in Nat /\ within \subseteq 0..K /\ within # {}
        BY <4>0, <2>1, <3>1
      <4>6. \A m \in within : m \in Int
        BY <2>1
      <4> HIDE DEF K, within
      <4>2. Max(within) \in within /\ \A m \in within : m =< Max(within)
        BY <4>1, Greatest
      <4> DEFINE last == Max(within)
      <4>3. last \in within /\ n =< last /\ ~(last > n)
        BY <4>2, <3>1
      <4>4. last \in Int
        BY <4>6, <4>3
      <4> HIDE DEF last
      <4>5. last = n
        BY <4>3, <4>4, <2>1
      <4> QED BY <4>5 DEF last
    <3>3. PtrAt(scope, Max(keys) - 1) = sframes[n].defs[Max(DefsOf(n, k))][2]
      BY <2>1, <2>4, <1>8, LastOf
    <3>4. keys # {} /\ within # {}
      BY <2>2, <2>4, <3>1
    <3> HIDE DEF keys, within
    <3> QED BY <3>2, <3>3, <3>4, <1>5, <1>6
  <2> QED BY <2>3, <2>4
<1> QED BY <1>4, <1>7, <1>8 DEF WalkAt

(* However scopes are entered, left, stashed and unstashed around each      *)
(* other, a lookup finds the last definition of a name in the innermost     *)
(* scope that has one and that no stash hides, among as many scopes as it   *)
(* may leave.                                                               *)
THEOREM LookupsFindInnermost == ScopeSpec => []LookupFindsInnermost
<1>1. ScopeInv => LookupFindsInnermost
  <2> SUFFICES ASSUME NEW b, Laid(scope, sframes, b) PROVE LookupFindsInnermost
    BY DEF ScopeInv
  <2> DEFINE K == Len(sframes)
  <2>1. K \in Nat /\ K >= 1 /\ scope.base \in Nat /\ K - 1 =< scope.base
    <3>1. K \in Nat /\ K >= 1
      BY LaidTypes
    <3>2. K \in 1..K
      BY <3>1
    <3> QED BY <3>1, <3>2, LaidTypes, LaidFacts
  <2>2. ASSUME NEW k \in SNames, NEW d \in 0..K
        PROVE  scope_lookup(scope, k, d) = Meant(k, d)
    <3>1. d \in Nat
      BY <2>1
    <3> QED BY <3>1, ScopeLookupRight
  <2>3. ASSUME NEW k \in SNames
        PROVE  scope_lookup(scope, k, Unlimited(scope)) = Meant(k, K)
    <3> DEFINE u == Unlimited(scope)
    <3>1. u \in Nat /\ K - 1 =< u
      BY <2>1 DEF Unlimited
    <3> HIDE DEF u
    <3>2. scope_lookup(scope, k, u) = Meant(k, u)
      BY <3>1, ScopeLookupRight
    <3>3. \A n \in InView : Above(n) =< u /\ Above(n) =< K
      <4>1. \A n \in InView : Above(n) \in Nat /\ Above(n) =< K - 1
        BY AboveFacts
      <4> HIDE DEF K
      <4> QED BY <4>1, <3>1, <2>1
    <3>4. {n \in InView : Above(n) =< u /\ DefsOf(n, k) # {}}
            = {n \in InView : Above(n) =< K /\ DefsOf(n, k) # {}}
      BY <3>3
    <3>5. Meant(k, u) = Meant(k, K)
      BY <3>4 DEF Meant
    <3> QED BY <3>2, <3>5 DEF u
  <2> QED BY <2>2, <2>3 DEF LookupFindsInnermost
<1> QED BY <1>1, ScopeInvInit, ScopeInvNext, PTL DEF ScopeSpec

=============================================================================
