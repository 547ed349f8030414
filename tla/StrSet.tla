------------------------------- MODULE StrSet -------------------------------
(***************************************************************************)
(* A hashtable_t or strset_t of src/src/hashtable.c in the hands of one    *)
(* caller, against the set it is meant to be.  An assignment can run out   *)
(* of memory for the copy of the string, which leaves a deleted entry.     *)
(***************************************************************************)
EXTENDS HashTable

CONSTANTS StrKeys,      \* the strings
          StrHashes,    \* hash functions, StrKeys -> Nat, to draw the seed from
          StrMaxLen,    \* bound: entries added to a table before it is cleared
          StrLenHint    \* the size the table is made for

ASSUME StrSetAssumptions ==
  /\ StrHashes \subseteq [StrKeys -> Nat]
  /\ StrMaxLen \in Nat /\ StrLenHint \in Nat \ {0}

VARIABLES strset,       \* the table
          strs,         \* the strings it should hold
          strAnswer     \* the last answer was the right one

strVars == <<strset, strs, strAnswer>>

StrInit ==
  /\ \E h \in StrHashes : strset = hashtable_init(StrLenHint, h)
  /\ strs = {}
  /\ strAnswer = TRUE

\* strset_assign; ok: there is memory for the copy.
strset_assign(k, ok) ==
  LET a == hashtable_assign(strset, [key |-> k])
      kept == ok \/ ~a.added
  IN  /\ strset.len < StrMaxLen \/ k \in strs
      /\ strset' = IF kept THEN a.ht ELSE MarkDeleted(a.ht, a.index)
      /\ strs' = IF kept THEN strs \cup {k} ELSE strs
      /\ strAnswer' = (a.added = (k \notin strs))

\* strset_del and, with the shortcut for a single entry, hashtable_del.  The
\* shortcut is right only for the key in the table.
strset_del(k) ==
  LET i == hashtable_lookup(strset, k)
  IN  /\ strset' = IF i = NotFound THEN strset ELSE MarkDeleted(strset, i)
      /\ strs' = strs \ {k}
      /\ strAnswer' = ((i # NotFound) = (k \in strs))

hashtable_del_entry(k) ==
  LET r == hashtable_del(strset, k)
  IN  /\ strset.len = 1 => k \in strs
      /\ strset' = r.ht
      /\ strs' = strs \ {k}
      /\ strAnswer' = (r.ok = (k \in strs))

strset_clear ==
  /\ strset' = hashtable_clear(strset)
  /\ strs' = {}
  /\ strAnswer' = TRUE

StrNext ==
  \/ \E k \in StrKeys :
       \/ \E ok \in BOOLEAN : strset_assign(k, ok)
       \/ strset_del(k)
       \/ hashtable_del_entry(k)
  \/ strset_clear

StrSpec == StrInit /\ [][StrNext]_strVars

-----------------------------------------------------------------------------
\* After any sequence of assignments, failed assignments, deletions, growth and
\* clearing the table holds the strings of the set, each lookup comes to an end
\* with the right answer, and so did the last operation.
TableIsSet ==
  /\ strAnswer
  /\ \E i \in DOMAIN strset.bits : strset.bits[i] = STATUS_FREE
  /\ \A k \in StrKeys : (hashtable_lookup(strset, k) # NotFound) <=> (k \in strs)
=============================================================================
