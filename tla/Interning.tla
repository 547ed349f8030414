----------------------------- MODULE Interning ------------------------------
(***************************************************************************)
(* The tables that all threads of the compiler share under an rwmutex_t:   *)
(* symbols (sym.c), type ids (typeid.c) and type functions (typefun.c).    *)
(* Each call looks the key up under the read lock, or adds it under the    *)
(* write lock, or first the one and then the other, and then reads the     *)
(* entry, after it has released the lock.  When the table grows its old    *)
(* memory is freed: an address is a generation of the table and an index.  *)
(***************************************************************************)
EXTENDS HashTable

CONSTANTS IThreads,
          IKeys,
          IHashes,      \* hash functions, IKeys -> Nat, to draw the seed from
          ILenHint,     \* the size the table is made for
          IPredefined,  \* the keys that sym_init adds, a sequence
          IMaxCalls     \* bound: calls

NoThread == "no thread"
Nowhere == [gen |-> 0, index |-> NotFound]
NoValue == 0
NoKey == "no key"

ASSUME InternAssumptions ==
  /\ IHashes \subseteq [IKeys -> Nat]
  /\ IPredefined \in Seq(IKeys)
  /\ \A m, n \in DOMAIN IPredefined : IPredefined[m] = IPredefined[n] => m = n
  /\ ILenHint \in Nat \ {0} /\ IMaxCalls \in Nat
  /\ NoThread \notin IThreads

VARIABLES itable,       \* the hash table; an entry is its key and a unique value
          igen,         \* how often its memory has been replaced
          ireaders, iwriter,   \* the rwmutex_t (see RWMutex)
          ipc, ikey, imode,    \* per thread: next step, key and kind of call
          ient,         \* per thread: the address of the entry
          icalls,       \* calls begun
          inext,        \* the next value (the address of a copied string)
          igiven,       \* the <<key, value>> pairs returned
          idangled      \* a thread has read memory that was freed

iVars == <<itable, igen, ireaders, iwriter, ipc, ikey, imode, ient, icalls, inext,
           igiven, idangled>>

\* "intern": sym_intern, typeid_map_intern; "add": typeid_intern_typeid,
\* typefuntab_add; "find": typefuntab_lookup.
IModes == {"intern", "add", "find"}

\* def_static_symn, for the n-th predefined symbol.
Predefined(n) == [key |-> IPredefined[n], value |-> n]

AllPredefined(empty) ==
  LET upto[n \in 0..Len(IPredefined)] ==
        IF n = 0 THEN empty ELSE hashtable_assign(upto[n - 1], Predefined(n)).ht
  IN  upto[Len(IPredefined)]

InternInit ==
  /\ \E h \in IHashes :
       itable = AllPredefined(hashtable_init(ILenHint, h))
  /\ igen = 1 /\ ireaders = {} /\ iwriter = NoThread
  /\ ipc = [t \in IThreads |-> "idle"]
  /\ ikey = [t \in IThreads |-> NoKey]
  /\ imode = [t \in IThreads |-> "none"]
  /\ ient = [t \in IThreads |-> Nowhere]
  /\ icalls = 0
  /\ inext = Len(IPredefined) + 1
  /\ igiven = {<<IPredefined[n], n>> : n \in DOMAIN IPredefined}
  /\ idangled = FALSE

InternCall(t, k, mode) ==
  /\ ipc[t] = "idle" /\ icalls < IMaxCalls
  /\ icalls' = icalls + 1
  /\ ikey' = [ikey EXCEPT ![t] = k]
  /\ imode' = [imode EXCEPT ![t] = mode]
  /\ ipc' = [ipc EXCEPT ![t] = IF mode = "add" THEN "lock" ELSE "rlock"]
  /\ UNCHANGED <<itable, igen, ireaders, iwriter, ient, inext, igiven, idangled>>

\* rwmutex_rlock
ReadLock(t) ==
  /\ ipc[t] = "rlock" /\ iwriter = NoThread
  /\ ireaders' = ireaders \cup {t}
  /\ ipc' = [ipc EXCEPT ![t] = "lookup"]
  /\ UNCHANGED <<itable, igen, iwriter, ikey, imode, ient, icalls, inext, igiven, idangled>>

AddressOf(i) == IF i = NotFound THEN Nowhere ELSE [gen |-> igen, index |-> i]

\* The lookup, and rwmutex_runlock.
Lookup(t) ==
  LET i == hashtable_lookup(itable, ikey[t])
  IN  /\ ipc[t] = "lookup"
      /\ ient' = [ient EXCEPT ![t] = AddressOf(i)]
      /\ ireaders' = ireaders \ {t}
      /\ ipc' = [ipc EXCEPT ![t] =
                   IF i # NotFound THEN "use"
                   ELSE IF imode[t] = "intern" THEN "lock" ELSE "idle"]
      /\ UNCHANGED <<itable, igen, iwriter, ikey, imode, icalls, inext, igiven, idangled>>

\* rwmutex_lock
WriteLock(t) ==
  /\ ipc[t] = "lock" /\ iwriter = NoThread /\ ireaders = {}
  /\ iwriter' = t
  /\ ipc' = [ipc EXCEPT ![t] = "assign"]
  /\ UNCHANGED <<itable, igen, ireaders, ikey, imode, ient, icalls, inext, igiven, idangled>>

\* Bug: the lookup under the read lock is trusted.
AssignedBlindly(t) ==
  LET t1 == IF MustGrow(itable) THEN hashtable_grow(itable) ELSE itable
      i == Probe(t1, ikey[t], Free(t1))
  IN  [ht |-> [Store(t1, i, [key |-> ikey[t], value |-> inext]) EXCEPT !.len = @ + 1],
       index |-> i, added |-> TRUE]

\* The assignment looks again: another thread may have added the key since.
Assigned(t) == hashtable_assign(itable, [key |-> ikey[t], value |-> inext])

\* The assignment, which may move the table, and rwmutex_unlock.
Assign(t) ==
  LET a == Assigned(t)
  IN  /\ ipc[t] = "assign"
      /\ itable' = a.ht
      /\ igen' = IF a.ht.cap = itable.cap THEN igen ELSE igen + 1
      /\ inext' = IF a.added THEN inext + 1 ELSE inext
      /\ ient' = [ient EXCEPT ![t] = [gen |-> igen', index |-> a.index]]
      /\ iwriter' = NoThread
      /\ ipc' = [ipc EXCEPT ![t] = "use"]
      /\ UNCHANGED <<ireaders, ikey, imode, icalls, igiven, idangled>>

Return(t, v) ==
  /\ igiven' = igiven \cup {<<ikey[t], v>>}
  /\ ipc' = [ipc EXCEPT ![t] = "idle"]
  /\ ient' = [ient EXCEPT ![t] = Nowhere]
  /\ ikey' = [ikey EXCEPT ![t] = NoKey]
  /\ imode' = [imode EXCEPT ![t] = "none"]
  /\ UNCHANGED <<itable, igen, ireaders, iwriter, icalls, inext>>

\* return ent->chars, *ent, ent->fn: the lock is no longer held.
Use(t) ==
  /\ ipc[t] = "use" /\ ient[t].gen = igen
  /\ Return(t, itable.ents[ient[t].index].value)
  /\ UNCHANGED idangled

\* The memory was freed: it may still hold the entry, or anything else.
UseFreed(t) ==
  /\ ipc[t] = "use" /\ ient[t].gen # igen
  /\ idangled' = TRUE
  /\ \E v \in {NoValue} \cup {itable.ents[i].value :
                               i \in {j \in DOMAIN itable.bits : itable.bits[j] = STATUS_USE}} :
       Return(t, v)

InternNext ==
  \E t \in IThreads :
    \/ \E k \in IKeys, mode \in IModes : InternCall(t, k, mode)
    \/ ReadLock(t) \/ Lookup(t) \/ WriteLock(t) \/ Assign(t)
    \/ Use(t) \/ UseFreed(t)

InternSpec == InternInit /\ [][InternNext]_iVars

-----------------------------------------------------------------------------
\* Symbols, type ids and type functions are compared by address: whatever
\* threads intern at the same time, before and after the table grows, equal keys
\* get one value and different keys different ones, as long as nobody has read
\* an entry of a table that was replaced after the lock was released.
OneValuePerKey ==
  ~idangled => \A x, y \in igiven : x[1] = y[1] <=> x[2] = y[2]
=============================================================================
