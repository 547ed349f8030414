-------------------------------- MODULE Map ---------------------------------
(***************************************************************************)
(* map_t of src/src/map.c in the hands of one caller, against the function *)
(* it is meant to be.  A map is used with keys that are pointers (the      *)
(* _ptr operations) or with keys that are byte strings; a key is a pointer *)
(* here, and MBytes[k] stands for the bytes it points to.  The seed is a   *)
(* hash function on pointers and on byte strings.  Lookups go on in the    *)
(* parent, if there is one: a package's definitions have the builtins.     *)
(***************************************************************************)
EXTENDS Pow2, FiniteSets, Sequences, SequencesExt

CONSTANTS MKeys,        \* addresses of keys
          MBytes,       \* MBytes[k]: the first bytes k points to
          MValues,      \* values, other than NULL
          MHashes,      \* hash functions to draw seeds from
          MBuiltins,    \* the builtin symbols that a parent holds, a sequence
          MNodes,       \* MNodes[k]: the node of a builtin
          MLenHint,     \* the size the map is made for
          MMaxCap       \* bound: no memory for a larger map

NULL == 0
EMPTY == "NULL"
DELMARK == "DELMARK"
NoEnt == [key |-> EMPTY, value |-> NULL]
Absent == -1

ASSUME MapAssumptions ==
  /\ \A k \in MKeys : \A h \in MHashes : h[k] \in Nat /\ h[MBytes[k]] \in Nat
  /\ EMPTY \notin MKeys /\ DELMARK \notin MKeys /\ NULL \notin MValues
  /\ MBuiltins \in Seq(MKeys) /\ MBuiltins # <<>>
  /\ MLenHint \in Nat \ {0} /\ MMaxCap \in Nat

VARIABLES map,          \* map_t: capacity, length, seed and entries
          mparent,      \* <<its parent>>, or <<>> if it has none
          mkind,        \* the kind of its keys: "ptr" or "bytes"
          mref,         \* what the caller has put into it
          mgrown        \* entries have been moved since the map was cleared

mVars == <<map, mparent, mkind, mref, mgrown>>

\* lenhint + 1 entries and a quarter of that.
MapIdealCap(lenhint) == CeilPow2(lenhint + 1 + (lenhint + 3) \div 4)

\* The 15 builtins are put into a map of 32 entries, which does not grow by that.
ASSUME BuiltinsFit ==
  Len(MBuiltins) =< MapIdealCap(Len(MBuiltins)) - MapIdealCap(Len(MBuiltins)) \div 4

NewMap(cap, seed) ==
  [cap |-> cap, len |-> 0, seed |-> seed, ents |-> [i \in 0..cap-1 |-> NoEnt]]

map_init == \E h \in MHashes : map = NewMap(MapIdealCap(MLenHint), h)

\* What a key is hashed and compared by: ptrhash and keyhash, == and keyeq.
Name(k, kind) == IF kind = "ptr" THEN k ELSE MBytes[k]
KeyEq(a, b, kind) == a \notin {EMPTY, DELMARK} /\ Name(a, kind) = Name(b, kind)

\* The first index from k's own, in cyclic order, that has k or one of the marks.
FirstAt(m, k, kind, marks) ==
  LET own == m.seed[Name(k, kind)] % m.cap
      At(j) == IF own + j < m.cap THEN own + j ELSE own + j - m.cap
      Hits == {j \in 0..m.cap-1 :
                 m.ents[At(j)].key \in marks \/ KeyEq(m.ents[At(j)].key, k, kind)}
  IN  IF Hits = {} THEN Absent ELSE At(Min(Hits))

\* Entries are moved by the bytes their keys point to, whatever their kind.
RelocationKind(kind) == "bytes"

map_relocate(m, ent, kind) ==
  LET i == FirstAt(m, ent.key, RelocationKind(kind), {EMPTY})
  IN  [m EXCEPT !.ents[i] = ent]

IsLive(ent) == ent.key \notin {EMPTY, DELMARK}

\* The entries that map_itnext visits.
Live(m) == {i \in 0..m.cap-1 : IsLive(m.ents[i])}

map_grow1(m, newcap, seed, kind) ==
  LET upto[n \in 0..m.cap] ==
        IF n = 0 THEN NewMap(newcap, seed)
        ELSE IF IsLive(m.ents[n - 1]) THEN map_relocate(upto[n - 1], m.ents[n - 1], kind)
        ELSE upto[n - 1]
  IN  [upto[m.cap] EXCEPT !.len = m.len]

\* Bug: grow when the map is full.
MapMustGrowLate(m) == m.len >= m.cap

MapMustGrow(m) == m.len >= m.cap - m.cap \div 4

\* map_assign, map_assign_ptr and the caller's store, without growth.
AssignIndex(m, k, kind) == FirstAt(m, k, kind, {EMPTY, DELMARK})

Stored(m, k, v, kind) ==
  LET i == AssignIndex(m, k, kind)
  IN  IF KeyEq(m.ents[i].key, k, kind)
      THEN [m EXCEPT !.ents[i].value = v]
      ELSE [m EXCEPT !.ents[i] = [key |-> k, value |-> v], !.len = @ + 1]

\* Bug: do not look beyond a deleted entry.
IndexOfNear(m, k, kind) ==
  LET i == FirstAt(m, k, kind, {EMPTY, DELMARK})
  IN  IF i # Absent /\ KeyEq(m.ents[i].key, k, kind) THEN i ELSE Absent

IndexOf(m, k, kind) ==
  LET i == FirstAt(m, k, kind, {EMPTY})
  IN  IF i # Absent /\ KeyEq(m.ents[i].key, k, kind) THEN i ELSE Absent

\* The entry found, NoEnt if there is none.
map_lookup(m, k, kind) ==
  LET i == IndexOf(m, k, kind)
      j == IndexOf(mparent[1], k, kind)
  IN  IF i # Absent THEN m.ents[i]
      ELSE IF mparent # <<>> /\ j # Absent THEN mparent[1].ents[j]
      ELSE NoEnt

-----------------------------------------------------------------------------
\* What the caller means by a key.
Meaning(k) == Name(k, mkind)

NothingPut == [n \in {} |-> NULL]
Put(f, n, v) == [b \in DOMAIN f \cup {n} |-> IF b = n THEN v ELSE f[b]]

\* configure_builtins fills a map that is made for the number of entries.
Builtins(seed) ==
  LET upto[n \in 0..Len(MBuiltins)] ==
        IF n = 0 THEN NewMap(MapIdealCap(Len(MBuiltins)), seed)
        ELSE Stored(upto[n - 1], MBuiltins[n], MNodes[MBuiltins[n]], "ptr")
  IN  upto[Len(MBuiltins)]

MapInit ==
  /\ map_init
  /\ mkind \in {"ptr", "bytes"}
  /\ mparent \in {<<>>} \cup {<<Builtins(h)>> : h \in IF mkind = "ptr" THEN MHashes ELSE {}}
  /\ mref = NothingPut /\ mgrown = FALSE

\* The new key would take a deleted entry, with k itself perhaps further on, or a
\* free one that len no longer accounts for.  The only code that deletes (cgen.c,
\* gen_structinit) adds nothing between a deletion and the next clearing.
Reuses(m, k) ==
  /\ \E i \in DOMAIN m.ents : m.ents[i].key = DELMARK
  /\ ~KeyEq(m.ents[AssignIndex(m, k, mkind)].key, k, mkind)

map_assign(k, v) ==
  /\ ~Reuses(map, k)
  /\ \E seed \in MHashes :
       LET grows == MapMustGrow(map)
           m == IF grows THEN map_grow1(map, map.cap * 2, seed, mkind) ELSE map
       IN  /\ IF grows THEN map.cap * 2 <= MMaxCap ELSE seed = map.seed
           /\ map' = Stored(m, k, v, mkind)
           /\ mgrown' = (mgrown \/ grows)
  /\ mref' = Put(mref, Meaning(k), v)
  /\ UNCHANGED <<mkind, mparent>>

map_reserve(addlen) ==
  /\ \E seed \in MHashes :
       LET newcap == MapIdealCap(map.len + addlen)
           grows == newcap > map.cap
       IN  /\ IF grows THEN newcap <= MMaxCap ELSE seed = map.seed
           /\ map' = IF grows THEN map_grow1(map, newcap, seed, mkind) ELSE map
           /\ mgrown' = (mgrown \/ grows)
  /\ UNCHANGED <<mkind, mparent, mref>>

map_clear ==
  /\ map' = NewMap(map.cap, map.seed)
  /\ mref' = NothingPut /\ mgrown' = FALSE
  /\ UNCHANGED <<mkind, mparent>>

\* map_del1; the last entry takes the marks of all others with it.  (It would
\* delete from a parent; the map that gen_structinit deletes from has none.)
map_del(k) ==
  LET i == IndexOf(map, k, mkind)
  IN  /\ i # Absent /\ mparent = <<>>
      /\ map' = IF map.len = 1 THEN NewMap(map.cap, map.seed)
                ELSE [map EXCEPT !.len = @ - 1, !.ents[i].key = DELMARK]
      /\ mref' = [n \in DOMAIN mref \ {Meaning(k)} |-> mref[n]]
      /\ UNCHANGED <<mkind, mparent, mgrown>>

MapNext ==
  \/ \E k \in MKeys, v \in MValues : map_assign(k, v)
  \/ \E n \in 1..2 : map_reserve(n)
  \/ map_clear
  \/ \E k \in MKeys : map_del(k)

MapSpec == MapInit /\ [][MapNext]_mVars

-----------------------------------------------------------------------------
Agrees ==
  /\ \E i \in DOMAIN map.ents : map.ents[i].key = EMPTY
  /\ map.len = Cardinality(DOMAIN mref) /\ map.len = Cardinality(Live(map))
  /\ {Meaning(map.ents[i].key) : i \in Live(map)} = DOMAIN mref
  /\ \A k \in MKeys :
       map_lookup(map, k, mkind).value =
         IF Meaning(k) \in DOMAIN mref THEN mref[Meaning(k)]
         ELSE IF mparent # <<>> /\ k \in ToSet(MBuiltins) THEN MNodes[k]
         ELSE NULL

\* Lookups come to an end and find what was assigned last, or else what the parent
\* has; iteration visits each key and len counts them, after any sequence of
\* operations in which, if keys are pointers, no entry is moved.
MapIsFunction == (mkind = "bytes" \/ ~mgrown) => Agrees

\* A key that was added is found ("node %p %s not in nodemap").
NodesInMap ==
  \A k \in MKeys : Meaning(k) \in DOMAIN mref => IndexOf(map, k, mkind) # Absent
=============================================================================
