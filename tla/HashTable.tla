----------------------------- MODULE HashTable ------------------------------
(***************************************************************************)
(* hashtable_t of src/src/hashtable.c as functions on its state: open      *)
(* addressing with linear probing and two status bits per entry.  A table  *)
(* is a record: the entries, their bits, the number of entries ever added, *)
(* its capacity and its seed, which is a hash function here.  An entry is  *)
(* a record with the field key that eqfn compares.                         *)
(***************************************************************************)
EXTENDS Pow2, FiniteSets, Sequences, SequencesExt

STATUS_FREE == 0
STATUS_USE == 1
STATUS_DEL == 2

\* bit_set2 sets bits and clears none: a deleted entry has both.
bit_set2(bits, i, value) ==
  [bits EXCEPT ![i] = IF @ \in {STATUS_FREE, value} THEN value ELSE 3]

NoEntry == [key |-> "no key"]

\* lenhint + 1 entries at the load factor of one half.
idealcap(lenhint) == CeilPow2(lenhint + 1 + (lenhint + 2) \div 2)

EmptyTable(cap, seed) ==
  [cap |-> cap, len |-> 0, seed |-> seed,
   ents |-> [i \in 0..cap-1 |-> NoEntry], bits |-> [i \in 0..cap-1 |-> STATUS_FREE]]

hashtable_init(lenhint, seed) == EmptyTable(idealcap(lenhint), seed)

\* The entries stay in memory, but nothing reads an entry that is free.
hashtable_clear(ht) == EmptyTable(ht.cap, ht.seed)

NotFound == -1

Indices(ht) == 0..ht.cap-1

\* The j-th index from key's own, in cyclic order.
Home(ht, key) == ht.seed[key] % ht.cap
ProbeAt(ht, key, j) ==
  LET i == Home(ht, key) + j IN IF i < ht.cap THEN i ELSE i - ht.cap

\* The first of them that is one of stops.
Probe(ht, key, stops) ==
  LET Hits == {j \in Indices(ht) : ProbeAt(ht, key, j) \in stops}
  IN  IF Hits = {} THEN NotFound ELSE ProbeAt(ht, key, Min(Hits))

Holds(ht, i, key) == ht.bits[i] = STATUS_USE /\ ht.ents[i].key = key

\* Bug: probing ends at a deleted entry.
StopsAtDeleted(ht, i, key) == ht.bits[i] # STATUS_USE \/ Holds(ht, i, key)

StopsAt(ht, i, key) == ht.bits[i] = STATUS_FREE \/ Holds(ht, i, key)

Stops(ht, key) == {i \in Indices(ht) : StopsAt(ht, i, key)}

\* The index of the entry, or NotFound.
hashtable_lookup(ht, key) ==
  LET i == Probe(ht, key, Stops(ht, key))
  IN  IF i # NotFound /\ Holds(ht, i, key) THEN i ELSE NotFound

Store(ht, i, ent) ==
  [ht EXCEPT !.ents[i] = ent, !.bits = bit_set2(@, i, STATUS_USE)]

\* Entries are moved in the order of the old table; deleted ones are dropped,
\* but are still counted by len.
Free(ht) == {i \in Indices(ht) : ht.bits[i] = STATUS_FREE}
Moved(new, ent) == Store(new, Probe(new, ent.key, Free(new)), ent)
Relocated(old) ==
  LET upto[n \in 0..old.cap] ==
        IF n = 0 THEN EmptyTable(old.cap * 2, old.seed)
        ELSE IF old.bits[n - 1] = STATUS_USE THEN Moved(upto[n - 1], old.ents[n - 1])
        ELSE upto[n - 1]
  IN  upto[old.cap]

hashtable_grow(ht) == [Relocated(ht) EXCEPT !.len = ht.len]

MustGrow(ht) == ht.len >= ht.cap - ht.cap \div 2

\* An entry equal to ent is returned as it is; deleted ones are passed over.
hashtable_assign(ht, ent) ==
  LET t == IF MustGrow(ht) THEN hashtable_grow(ht) ELSE ht
      i == Probe(t, ent.key, Stops(t, ent.key))
      found == Holds(t, i, ent.key)
  IN  [ht |-> IF found THEN t ELSE [Store(t, i, ent) EXCEPT !.len = @ + 1],
       index |-> i, added |-> ~found]

MarkDeleted(ht, i) == [ht EXCEPT !.bits = bit_set2(@, i, STATUS_DEL)]

\* With one entry ever added the table is cleared, without looking at the key.
hashtable_del(ht, key) ==
  LET i == hashtable_lookup(ht, key)
  IN  IF ht.len = 1 THEN [ht |-> hashtable_clear(ht), ok |-> TRUE]
      ELSE IF i = NotFound THEN [ht |-> ht, ok |-> FALSE]
      ELSE [ht |-> MarkDeleted(ht, i), ok |-> TRUE]
=============================================================================
