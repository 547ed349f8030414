------------------------------ MODULE Narrowing -----------------------------
(***************************************************************************)
(* What the type checker (src/src/typecheck.c) knows of the optional       *)
(* variables of a function while it visits its body: narrowscope maps a    *)
(* variable to YES, NO or MAYBE.  A use of a variable that is YES becomes  *)
(* a dereference without a test, a test of one that is YES or NO becomes a *)
(* constant.  The body is made statement by statement, and worlds is the   *)
(* set of valuations (which variables hold a value) that the generated     *)
(* code can have when it comes to the point the checker has come to.       *)
(***************************************************************************)
EXTENDS Scope

CONSTANTS OptVars,      \* parameters of optional type
          NConds,       \* conditions (see Checked)
          NMaxStmts,    \* bound: statements
          NMaxNest      \* bound: nesting of blocks

NarrowingAssumptions == NMaxStmts \in Nat /\ NMaxNest \in Nat

MAYBE == "may have value"
YES == "definitely has value"
NO == "definitely no value"

VARIABLES narrowscope,  \* the scope_t of what is known
          worlds,       \* the valuations that reach this point
          nblocks,      \* the open blocks, innermost last
          nstmts,       \* statements so far
          nempty,       \* some valuation dereferences an empty value
          noutdated     \* a block left behind knowledge that its assignments outdate

nVars == <<narrowscope, worlds, nblocks, nstmts, nempty, noutdated>>

narrowinfo_lookup(s, x) == scope_lookup(s, x, Unlimited(s))

\* Bug: negate is not looked at.
define_narrowedAsTested(s, narrowed, negate) ==
  FoldLeft(LAMBDA t, n : scope_define(t, n.x, IF n.isneg THEN NO ELSE YES), s, narrowed)

\* define_narrowed, for a sequence of [x, isneg]
define_narrowed(s, narrowed, negate) ==
  FoldLeft(LAMBDA t, n : scope_define(t, n.x, IF n.isneg # negate THEN NO ELSE YES),
           s, narrowed)

Flip(flags) == IF "NEG" \in flags THEN flags \ {"NEG"} ELSE flags \cup {"NEG"}
From(seq, n) == SubSeq(seq, n + 1, Len(seq))

\* The result of visiting a condition: the narrowscope, the narrowed variables,
\* the flags, whether it is accepted, and the condition that code is made for.
Visit(s, narrowed, out, ok, c) ==
  [scope |-> s, narrowed |-> narrowed, out |-> out, ok |-> ok, cond |-> c]

\* condition_expr.  A condition is a test of a variable, a comparison that uses
\* its value, some other Boolean, a constant, a negation or a pair of conditions.
RECURSIVE Checked(_, _, _, _)
CheckedPair(s, narrowed, flags, c) == 
  LET isor == c.op = "or"
      l == Checked(s, narrowed, flags \ {"OR"}, c.left)
      s2 == define_narrowed(l.scope, From(l.narrowed, Len(narrowed)), isor)
      r == Checked(s2, l.narrowed, (flags \ {"OR"}) \cup (IF isor THEN {"OR"} ELSE {}), c.right)
      out == l.out \cup {IF isor THEN "OR" ELSE "AND"} \cup r.out
      code == [c EXCEPT !.left = l.cond, !.right = r.cond]
  IN  IF isor
      THEN Visit(Resized(r.scope, Length(s)), narrowed, out, l.ok /\ r.ok, code)
      ELSE Visit(define_narrowed(r.scope, From(r.narrowed, Len(l.narrowed)), FALSE),
                 r.narrowed, out, l.ok /\ r.ok, code)
Checked(s, narrowed, flags, c) ==
  CASE c.op = "test" ->
         LET info == narrowinfo_lookup(s, c.x)
         IN  IF info \in {YES, NO}
             THEN Visit(s, narrowed, {}, TRUE, [op |-> "const", value |-> info = YES])
             ELSE Visit(s, IF "OR" \in flags THEN narrowed
                           ELSE Append(narrowed, [x |-> c.x, isneg |-> "NEG" \in flags]),
                        {}, TRUE, c)
    [] c.op = "use" -> Visit(s, narrowed, {}, narrowinfo_lookup(s, c.x) = YES, c)
    [] c.op = "bool" -> Visit(s, narrowed, {}, TRUE, c)
    [] c.op = "not" ->
         LET v == Checked(s, narrowed, Flip(flags), c.arg)
         IN  [v EXCEPT !.out = Flip(@), !.cond = [c EXCEPT !.arg = v.cond]]
    [] c.op \in {"and", "or"} -> CheckedPair(s, narrowed, flags, c)

\* define_narrowed_else: only if it is definitive
IsDefinitive(out) == (out \cap {"OR", "AND"} = {}) # ("NEG" \in out)

\* The valuations in which the code of a condition yields true and false, and
\* whether one of them uses an empty value on the way.
RECURSIVE Run(_, _)
Run(c, ws) ==
  LET Result(t, f, bad) == [t |-> t, f |-> f, bad |-> bad]
  IN  CASE c.op = "test" -> Result({w \in ws : w[c.x]}, {w \in ws : ~w[c.x]}, FALSE)
        [] c.op = "use" -> Result(ws, ws, \E w \in ws : ~w[c.x])
        [] c.op = "bool" -> Result(ws, ws, FALSE)
        [] c.op = "const" -> Result(IF c.value THEN ws ELSE {}, IF c.value THEN {} ELSE ws, FALSE)
        [] c.op = "not" -> LET r == Run(c.arg, ws) IN Result(r.f, r.t, r.bad)
        [] c.op = "and" -> LET l == Run(c.left, ws)
                               r == Run(c.right, l.t)
                           IN  Result(r.t, l.f \cup r.f, l.bad \/ r.bad)
        [] c.op = "or" -> LET l == Run(c.left, ws)
                              r == Run(c.right, l.f)
                          IN  Result(l.t \cup r.t, r.f, l.bad \/ r.bad)

-----------------------------------------------------------------------------
NarrowInit ==
  /\ narrowscope = scope_push(scope_clear)
  /\ worlds = [OptVars -> BOOLEAN]
  /\ nblocks = <<>> /\ nstmts = 0
  /\ nempty = FALSE /\ noutdated = FALSE

Stmt == nstmts < NMaxStmts /\ nstmts' = nstmts + 1 /\ worlds # {}

\* A block: how it goes on, and the variables that are assigned in it.
Open(kind, next, narrowed, out) ==
  [kind |-> kind, next |-> next, narrowed |-> narrowed, out |-> out, assigned |-> {}]

Innermost == nblocks[Len(nblocks)]
Noted(x) ==
  IF nblocks = <<>> THEN nblocks
  ELSE [nblocks EXCEPT ![Len(nblocks)].assigned = @ \cup {x}]

\* Of assign: what an assignment to an optional variable tells.
Told(x, info) ==
  LET known == narrowinfo_lookup(narrowscope, x)
      before == IF known = NotDefined THEN MAYBE ELSE known
  IN  IF before = info THEN narrowscope ELSE scope_define(narrowscope, x, info)

\* "x = 3", "x = void"
AssignConst(x, present) ==
  /\ Stmt
  /\ narrowscope' = Told(x, IF present THEN YES ELSE NO)
  /\ worlds' = {[w EXCEPT ![x] = present] : w \in worlds}
  /\ nblocks' = Noted(x)
  /\ UNCHANGED <<nempty, noutdated>>

\* "x = y"; refused if y is known to be empty
AssignVar(x, y) ==
  /\ Stmt /\ x # y /\ narrowinfo_lookup(narrowscope, y) # NO
  /\ narrowscope' = Told(x, MAYBE)
  /\ worlds' = {[w EXCEPT ![x] = w[y]] : w \in worlds}
  /\ nblocks' = Noted(x)
  /\ UNCHANGED <<nempty, noutdated>>

\* ifexpr up to the "then" branch
If(c) ==
  LET v == Checked(scope_push(narrowscope), <<>>, {}, c)
      r == Run(v.cond, worlds)
  IN  /\ Stmt /\ Len(nblocks) < NMaxNest /\ v.ok
      /\ narrowscope' = define_narrowed(v.scope, v.narrowed, FALSE)
      /\ worlds' = r.t
      /\ nblocks' = Append(nblocks, Open("then", r.f, v.narrowed, v.out))
      /\ nempty' = (nempty \/ r.bad)
      /\ UNCHANGED noutdated

\* leave_scope drops what the block's assignments told, and what was known
\* outside is known again.
Left == scope_pop(narrowscope)
Outdated(assigned) ==
  \E x \in assigned : /\ narrowinfo_lookup(Left, x) \in {YES, NO}
                      /\ narrowinfo_lookup(Left, x) # narrowinfo_lookup(narrowscope, x)

Else ==
  LET s == scope_push(Left)
  IN  /\ nblocks # <<>> /\ Innermost.kind = "then"
      /\ narrowscope' = IF IsDefinitive(Innermost.out)
                        THEN define_narrowed(s, Innermost.narrowed, TRUE) ELSE s
      /\ worlds' = Innermost.next
      /\ nblocks' = [nblocks EXCEPT ![Len(nblocks)] =
                       [@ EXCEPT !.kind = "else", !.next = worlds]]
      /\ noutdated' = (noutdated \/ Outdated(Innermost.assigned))
      /\ UNCHANGED <<nstmts, nempty>>

\* "{", "}" and the end of an if
BlockBegin ==
  /\ Stmt /\ Len(nblocks) < NMaxNest
  /\ narrowscope' = scope_push(narrowscope)
  /\ nblocks' = Append(nblocks, Open("block", {}, <<>>, {}))
  /\ UNCHANGED <<worlds, nempty, noutdated>>

BlockEnd ==
  LET outer == Front(nblocks)
  IN  /\ nblocks # <<>>
      /\ narrowscope' = Left
      /\ worlds' = worlds \cup Innermost.next
      /\ nblocks' = IF outer = <<>> THEN outer
                    ELSE [outer EXCEPT ![Len(outer)].assigned = @ \cup Innermost.assigned]
      /\ noutdated' = (noutdated \/ Outdated(Innermost.assigned))
      /\ UNCHANGED <<nstmts, nempty>>

\* "return": nothing comes after it; knowledge stays as it is.
Return ==
  /\ Stmt /\ nblocks # <<>>
  /\ worlds' = {}
  /\ UNCHANGED <<narrowscope, nblocks, nempty, noutdated>>

NarrowNext ==
  \/ \E x \in OptVars, present \in BOOLEAN : AssignConst(x, present)
  \/ \E x, y \in OptVars : AssignVar(x, y)
  \/ \E c \in NConds : If(c)
  \/ Else \/ BlockBegin \/ BlockEnd \/ Return

-----------------------------------------------------------------------------
KnownIsTrue ==
  /\ ~nempty
  /\ \A x \in OptVars, w \in worlds : narrowinfo_lookup(narrowscope, x) = YES => w[x]

\* No dereference of an optional value without a test finds it empty: whatever
\* the checker knows to have a value has one, on every path through conditions,
\* branches, assignments and returns, unless a block assigns to a variable that
\* is narrowed outside of it.
NoEmptyDeref == noutdated \/ KnownIsTrue
=============================================================================
