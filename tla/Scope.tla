-------------------------------- MODULE Scope -------------------------------
(***************************************************************************)
(* scope_t of src/src/scope.c: nested scopes of definitions in one array.  *)
(* ptr holds, in the order of their definition, a value and its key; each  *)
(* scope begins with the index of the scope around it.  The parser and the *)
(* type checker keep names in one, the type checker also what it knows of  *)
(* optional values (see Narrowing).  The operations are functions on the   *)
(* state of a scope_t; below them is one in use, with the stack of scopes  *)
(* it stands for.  scope_stash and scope_unstash are offered beside these  *)
(* and have no caller in the compiler yet; scope_undefine, which has none  *)
(* either, is left out.                                                    *)
(***************************************************************************)
EXTENDS Integers, Sequences, SequencesExt, FiniteSets

kStash == -1            \* marks a stashed scope; no index is negative
NotDefined == "NULL"

\* ptr is indexed from 0 as in the code; what lies behind len is left out.
scope_clear == [ptr |-> <<>>, base |-> 0]

Length(s) == Len(s.ptr)
PtrAt(s, i) == s.ptr[i + 1]
Resized(s, len) == [s EXCEPT !.ptr = SubSeq(@, 1, len)]

scope_push(s) == [ptr |-> Append(s.ptr, s.base), base |-> Length(s)]

scope_pop(s) == [Resized(s, s.base) EXCEPT !.base = PtrAt(s, s.base)]

scope_define(s, key, value) == [s EXCEPT !.ptr = @ \o <<value, key>>]

scope_stash(s) == [ptr |-> s.ptr \o <<s.base, kStash>>, base |-> Length(s) + 1]

scope_unstash(s) ==
  [Resized(s, Length(s) - 2) EXCEPT !.base = PtrAt(s, Length(s) - 2)]

\* Bug: go on below the stash, in the scope it hides.
BaseBelowUnstashed(s, i) == IF PtrAt(s, i) = kStash THEN i - 1 ELSE i

\* Where a walk through the scopes goes on from the base at i.
BaseBelow(s, i) == IF PtrAt(s, i) = kStash THEN PtrAt(s, i - 1) ELSE i

\* A place in the walk: the base of a scope, and the index above its last entry.
Place(end, base) == [end |-> end, base |-> base]
Outer(s, w) == LET j == BaseBelow(s, w.base) IN Place(j, PtrAt(s, j))

\* Where the scope at w has the key.
KeysAt(s, w, key) ==
  {i \in w.base + 2 .. w.end - 1 : (w.end - i) % 2 = 1 /\ PtrAt(s, i) = key}

\* The walk begins in the innermost scope and ends in one that has the key, or
\* when it has left maxdepth scopes.  The outermost scope, at 0, leads to itself,
\* with no entries.  In a scope the last definition counts.
scope_lookup(s, key, maxdepth) ==
  LET walk[d \in 0..maxdepth] ==
        IF d = 0 THEN Place(Length(s), s.base)
        ELSE LET w == walk[d - 1]
             IN  IF KeysAt(s, w, key) = {} THEN Outer(s, w) ELSE w
      keys == KeysAt(s, walk[maxdepth], key)
  IN  IF keys = {} THEN NotDefined ELSE PtrAt(s, Max(keys) - 1)

\* U32_MAX: there are no more scopes to leave, for each begins below the last.
Unlimited(s) == s.base

-----------------------------------------------------------------------------
CONSTANTS SNames, SValues,
          SMaxLen       \* bound: entries of the array

VARIABLES scope,        \* the scope_t
          sframes       \* what it stands for: a stack of frames, innermost last

scopeVars == <<scope, sframes>>

\* A frame holds definitions, or is what scope_stash leaves on top of the frame
\* it hides.
Frame(stash) == [stash |-> stash, defs |-> <<>>]
TopFrame == sframes[Len(sframes)]

\* parser_parse and the type checker clear the scope and enter a first one.
ScopeInit ==
  /\ scope = scope_push(scope_clear)
  /\ sframes = <<Frame(FALSE)>>

Fits == Length(scope) + 2 <= SMaxLen

enter_scope ==
  /\ Fits
  /\ scope' = scope_push(scope)
  /\ sframes' = Append(sframes, Frame(FALSE))

leave_scope ==
  /\ Len(sframes) > 1 /\ ~TopFrame.stash
  /\ scope' = scope_pop(scope)
  /\ sframes' = Front(sframes)

\* define_allow_replace of the type checker; define of the parser refuses a name
\* that the innermost scope defines.
define(k, v) ==
  /\ Fits
  /\ scope' = scope_define(scope, k, v)
  /\ sframes' = [sframes EXCEPT ![Len(sframes)].defs = Append(@, <<k, v>>)]

stash ==
  /\ Fits /\ Len(sframes) > 1 /\ ~TopFrame.stash
  /\ scope' = scope_stash(scope)
  /\ sframes' = Append(sframes, Frame(TRUE))

unstash ==
  /\ TopFrame.stash /\ TopFrame.defs = <<>>
  /\ scope' = scope_unstash(scope)
  /\ sframes' = Front(sframes)

ScopeNext ==
  \/ enter_scope \/ leave_scope \/ stash \/ unstash
  \/ \E k \in SNames, v \in SValues : define(k, v)

ScopeSpec == ScopeInit /\ [][ScopeNext]_scopeVars

-----------------------------------------------------------------------------
\* A stash hides the frame below it.
InView == {n \in DOMAIN sframes : n = Len(sframes) \/ ~sframes[n + 1].stash}
Above(n) == Cardinality({m \in InView : m > n})
DefsOf(n, k) == {d \in DOMAIN sframes[n].defs : sframes[n].defs[d][1] = k}

Meant(k, maxdepth) ==
  LET within == {n \in InView : Above(n) <= maxdepth /\ DefsOf(n, k) # {}}
      found == Max(within)
  IN  IF within = {} THEN NotDefined ELSE sframes[found].defs[Max(DefsOf(found, k))][2]

\* A lookup finds the last definition of the name in the innermost scope that has
\* one, among as many scopes as it may visit; scopes that were left, or hidden by
\* scope_stash, have no effect.
LookupFindsInnermost ==
  \A k \in SNames :
    /\ scope_lookup(scope, k, Unlimited(scope)) = Meant(k, Len(sframes))
    /\ \A d \in 0..Len(sframes) : scope_lookup(scope, k, d) = Meant(k, d)
=============================================================================
