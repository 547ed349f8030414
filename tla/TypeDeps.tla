------------------------------ MODULE TypeDeps ------------------------------
(***************************************************************************)
(* The order of definitions and the check for cyclic types:                *)
(* ast_toposort_visit_def of src/src/ast.c, which both the type checker    *)
(* (src/src/check_typedeps.c) and the C code generator (gen_unit of        *)
(* src/src/cgen.c) call once for every top-level definition of a unit,     *)
(* with the array the call before left.                                    *)
(*                                                                         *)
(* A program gives the children of every node in the order of ast_childit. *)
(* Expressions inside a body are transparent to the visit, so the children *)
(* of a function are its type and the definitions its body refers to.      *)
(* Types are interned, one node for *A.  Templates, which are visited as   *)
(* structures are, imported types, drop functions, the visibility filter   *)
(* of a package's header, and running out of memory are left out.          *)
(***************************************************************************)
EXTENDS Integers, Sequences, SequencesExt, FiniteSets, QSort

CONSTANT TPrograms      \* records: kids, a function from nodes; unit, a sequence
                        \* of nodes; use, who asks: "check" or "gen"

Node(kind, name) == [kind |-> kind, name |-> name, fwd |-> FALSE]
FwdDecl(n) == [n EXCEPT !.fwd = TRUE]

References == {"ref", "slice"}
IsType(n) == ~n.fwd /\ n.kind \notin {"fun", "var"}

-----------------------------------------------------------------------------
\* Only a variable that is itself at top level is a definition, and only for
\* the code generator, which alone passes AST_TOPOSORT_TOPLEVEL.
VisitsSelf(n, toplevel) == n.kind # "var" \/ toplevel

\* Bug: a definition is put before what it depends on.
FinishedInFront(s, n) == [defs |-> <<n>> \o s.defs, marked |-> s.marked \ {n}]

\* n and its children have been visited.
Finished(s, n) == [defs |-> Append(s.defs, n), marked |-> s.marked \ {n}]

\* The visit's state s is the array and the nodes that have NF_MARK1.
RECURSIVE Visit(_, _, _, _)
Visit(prog, n, toplevel, s) ==
  LET Children(from) ==
        FoldLeft(LAMBDA acc, kid : Visit(prog, kid, FALSE, acc), from, prog.kids[n])
  IN  IF ~VisitsSelf(n, toplevel) THEN Children(s)
      ELSE IF n \in s.marked
      THEN IF n.kind = "struct" THEN s ELSE [s EXCEPT !.defs = Append(@, FwdDecl(n))]
      ELSE IF Contains(s.defs, n) THEN s
      ELSE Finished(Children([s EXCEPT !.marked = @ \cup {n}]), n)

\* ast_toposort_cmp: types, then variables, then functions and forward declarations.
Rank(n) == IF IsType(n) THEN 2 ELSE IF n.kind = "var" /\ ~n.fwd THEN 1 ELSE 0

Grouped(defs) == \A i, j \in DOMAIN defs : i < j => Rank(defs[i]) >= Rank(defs[j])

Sorted(defs) ==
  LET a == co_qsort([i \in 0..Len(defs)-1 |-> defs[i + 1]], [n \in Range(defs) |-> -Rank(n)])
  IN  [i \in 1..Len(defs) |-> a[i - 1]]

Visited(prog, n, defs) == Visit(prog, n, prog.use = "gen", [defs |-> defs, marked |-> {}]).defs

-----------------------------------------------------------------------------
\* The "bottom type" of t, and what is inside references to t.
RECURSIVE Unwrap(_, _, _)
Unwrap(prog, t, kinds) ==
  IF t.kind \in kinds THEN Unwrap(prog, prog.kids[t][1], kinds) ELSE t

\* Bug: what a pointer owns is not looked at.
BottomOfOptionals(prog, t) == Unwrap(prog, t, {"opt"})

Bottom(prog, t) == Unwrap(prog, t, {"opt", "ptr"})

\* References are only looked into inside an alias.
Inspected(t, aliasnest) ==
  \/ t.kind \in {"array", "struct", "alias"}
  \/ t.kind \in References /\ aliasnest > 0

\* type A [&A]
AliasOfOwnArray(prog, t) ==
  LET elem == prog.kids[t][1]
  IN  t.kind = "alias" /\ elem.kind = "array"
        /\ Unwrap(prog, prog.kids[elem][1], {"ref", "ptr"}) = t

\* s is the types not yet checked and whether all is well; the types of a
\* structure's fields are checked up to the first error.
RECURSIVE check_type(_, _, _, _, _)
check_type(prog, t, aliasnest, stack, s) ==
  LET bt == Bottom(prog, t)
      nest == IF bt.kind = "alias" THEN aliasnest + 1 ELSE aliasnest
      Check(acc, kid) ==
        IF acc.ok THEN check_type(prog, kid, nest, Append(stack, bt), acc) ELSE acc
      left == [s EXCEPT !.left = @ \ {bt}]
  IN  IF ~Inspected(bt, aliasnest) THEN s
      ELSE IF Contains(stack, bt) THEN [s EXCEPT !.ok = FALSE]
      ELSE IF bt \notin s.left THEN s
      ELSE IF AliasOfOwnArray(prog, bt) THEN [left EXCEPT !.ok = FALSE]
      ELSE FoldLeft(Check, left, prog.kids[bt])

\* The loop over the array; a place whose type has been checked is NULL.
CheckDefs(prog, defs) ==
  LET Check(s, n) ==
        IF s.ok /\ n \in s.left /\ IsType(n) THEN check_type(prog, n, 0, <<>>, s) ELSE s
  IN  FoldLeft(Check, [left |-> Range(defs), ok |-> TRUE], defs).ok

-----------------------------------------------------------------------------
VARIABLES tprog,        \* the program
          tdone,        \* top-level definitions visited
          tdefs,        \* the array
          tmoved,       \* history: a sort was given an array that was not grouped
          tverdict      \* "none", or what the check found: "ok", "cycle"

tVars == <<tprog, tdone, tdefs, tmoved, tverdict>>

TInit ==
  /\ tprog \in TPrograms
  /\ tdone = 0 /\ tdefs = <<>> /\ tmoved = FALSE /\ tverdict = "none"

ast_toposort_visit_def ==
  LET defs == Visited(tprog, tprog.unit[tdone + 1], tdefs)
  IN  /\ tdone < Len(tprog.unit)
      /\ tdone' = tdone + 1
      /\ tdefs' = Sorted(defs)
      /\ tmoved' = (tmoved \/ ~Grouped(defs))
      /\ UNCHANGED <<tprog, tverdict>>

\* check_typedeps of a package's definitions; check_typedep is the same for a
\* unit of one alias.
check_typedeps ==
  /\ tprog.use = "check" /\ tdone = Len(tprog.unit) /\ tverdict = "none"
  /\ tverdict' = IF CheckDefs(tprog, tdefs) THEN "ok" ELSE "cycle"
  /\ UNCHANGED <<tprog, tdone, tdefs, tmoved>>

TNext == ast_toposort_visit_def \/ check_typedeps

-----------------------------------------------------------------------------
\* What can be reached from the nodes S along the edges E.
RECURSIVE ReachedFrom(_, _)
ReachedFrom(S, E) ==
  LET more == S \cup {e[2] : e \in {d \in E : d[1] \in S}}
  IN  IF more = S THEN S ELSE ReachedFrom(more, E)

Edges(prog) ==
  UNION {{<<n, prog.kids[n][i]>> : i \in DOMAIN prog.kids[n]} : n \in DOMAIN prog.kids}

OnCycle(n, E) == n \in ReachedFrom({e[2] : e \in {d \in E : d[1] = n}}, E)

\* References hold nothing: a type that contains itself contains it by value,
\* in an array or through an owning pointer.
Contained(prog) == {e \in Edges(prog) : e[1].kind \notin References}
OfAliases(prog) == {e \in Edges(prog) : e[1].kind # "struct"}

Cyclic(E) == \E e \in E : OnCycle(e[1], E)

\* The check for cyclic types is right wherever the order of the definitions
\* cannot matter.  It finds every type that contains itself (or owns itself),
\* and every alias that only leads to itself, also through references; and what
\* it reports is on some cycle.
CyclesFound ==
  tverdict # "none" =>
    LET reached == ReachedFrom(Range(tprog.unit), Edges(tprog))
        Of(E) == {e \in E : e[1] \in reached}
    IN  /\ Cyclic(Of(Contained(tprog))) \/ Cyclic(Of(OfAliases(tprog))) => tverdict = "cycle"
        /\ tverdict = "cycle" => Cyclic(Of(Edges(tprog)))

Before(c, i) == \E j \in 1..i-1 : tdefs[j] \in {c, FwdDecl(c)}

\* A structure that refers back to n needs no declaration.
DependenciesFirst ==
  \A i \in DOMAIN tdefs : ~tdefs[i].fwd =>
    LET kids == tprog.kids[tdefs[i]]
    IN  \A k \in DOMAIN kids :
          \/ kids[k].kind = "var"
          \/ Before(kids[k], i)
          \/ /\ kids[k].kind = "struct"
             /\ tdefs[i] \in ReachedFrom({kids[k]}, Edges(tprog))

\* What the array holds for those who read it in order.  After each call it has
\* every definition the ones so far depend on, once, types first and functions
\* last; and as long as no sort had anything to do, every definition has those
\* it depends on, or a declaration of them, before it.
DefsExact ==
  LET roots == {tprog.unit[i] : i \in 1..tdone}
      reached == ReachedFrom(roots, Edges(tprog))
      own == {n \in reached : n.kind # "var"}
               \cup {n \in roots : n.kind = "var" /\ tprog.use = "gen"}
      defs == SelectSeq(tdefs, LAMBDA n : ~n.fwd)
  IN  /\ Range(defs) = own /\ Len(defs) = Cardinality(own)
      /\ Grouped(tdefs)
      /\ ~tmoved => DependenciesFirst

\* As the declaration of ast_toposort_visit_def (src/src/ast.h) promises:
\* "topological order (dependencies first, dependants after.)"
DefsInOrder == DependenciesFirst
=============================================================================
