----------------------------- MODULE MCCompile ------------------------------
(* The steps of a package's compilation and the tables they use.  These      *)
(* share nothing among them, so a behaviour uses only one; the others rest,  *)
(* those that this module extends at an initial state and those that it      *)
(* instantiates at 0.  The function under analysis has owning parameters and *)
(* a short body.                                                             *)
EXTENDS Ownership, StrSet, Interning, Map, Scope

CONSTANT CompileUses    \* the parts that are in use
VARIABLE use            \* the part that the behaviour uses
InUse(part) == use = part /\ UNCHANGED use

-----------------------------------------------------------------------------
(* Hash tables: strings and interned keys that collide, at the end of the    *)
(* table too; a map whose keys k1 and k2 point to equal bytes.               *)
CONSTANTS k1, k2, k3, k4
ThreeKeys == {k1, k2, k3}
MCStrHashes ==
  {[k \in ThreeKeys |-> IF k \in S THEN 3 ELSE IF k = k1 THEN 6 ELSE 0] : S \in SUBSET ThreeKeys}
MCIHashes == {[k \in ThreeKeys |-> IF k = k1 THEN 3 ELSE 7]}
MCPredefined == <<k1>>

FourKeys == {k1, k2, k3, k4}
MCBytes == [k \in FourKeys |-> IF k \in {k1, k2} THEN "x" ELSE IF k = k3 THEN "y" ELSE "z"]
AllCollide == [k \in FourKeys \cup {"x", "y", "z"} |-> 3]
MCHashes ==
  {AllCollide,
   [k \in FourKeys \cup {"x", "y", "z"} |->
      CASE k = k1 -> 1 [] k = k2 -> 5 [] k = "x" -> 7 [] k \in {"y", "z"} -> 3 [] OTHER -> 0]}
MCBuiltins == <<k3>>
MCNodes == [k \in FourKeys |-> 9]

-----------------------------------------------------------------------------
(* Two names in nested scopes; two optional variables and conditions on them *)
(* of up to three parts.                                                     *)
CONSTANTS x, y, NConds, NMaxStmts, NMaxNest
VARIABLES narrowscope, worlds, nblocks, nstmts, nempty, noutdated
Narrow == INSTANCE Narrowing WITH OptVars <- {x, y}

Test(v) == [op |-> "test", x |-> v]
Used(v) == [op |-> "use", x |-> v]
Not(c) == [op |-> "not", arg |-> c]
Bool == [op |-> "bool"]
Ands(A, B) == {[op |-> "and", left |-> l, right |-> s] : l \in A, s \in B}
Ors(A, B) == {[op |-> "or", left |-> l, right |-> s] : l \in A, s \in B}
Pos == UNION {{Test(v), Used(v)} : v \in {x, y}} \cup {Bool}
Lits == Pos \cup {Not(Test(v)) : v \in {x, y}}
MCConds ==
  Lits \cup Ands(Pos, Pos) \cup Ors(Lits, Lits) \cup {Not(c) : c \in Ands({Test(x), Test(y)}, Pos)}
    \cup Ors(Ands({Test(x)}, {Test(y), Bool}), Lits)
    \cup Ands({Test(x)}, Ors({Test(x), Test(y), Not(Test(x))}, {Used(x), Used(y), Bool}))

-----------------------------------------------------------------------------
(* Three types that contain, own, refer to or rename each other and          *)
(* themselves, a variable of type A and two functions.                       *)
CONSTANT TPrograms
VARIABLES tprog, tdone, tdefs, tmoved, tverdict
Deps == INSTANCE TypeDeps

TypeNames == {"A", "B", "C"}
NodeOf(kind, name) == [kind |-> kind, name |-> name, fwd |-> FALSE]
Opaque == <<"struct", "int">>
Bodies(kind, forms) == {<<kind, f, n>> : f \in forms, n \in TypeNames}
Def(body, n) == NodeOf(body[n][1], n)
FunF == NodeOf("fun", "f")
FunG == NodeOf("fun", "g")
FunType == NodeOf("funtype", "fun()")
VarV == NodeOf("var", "v")

Kids(body, calls, n) ==
  CASE n.kind = "fun" -> <<FunType>> \o calls[n.name]
    [] n.kind = "funtype" -> <<>>
    [] n.kind = "var" -> <<Def(body, "A")>>
    [] n.kind \in {"ptr", "ref", "array"} -> <<Def(body, n.name)>>
    [] OTHER -> LET d == body[n.name]
                IN  IF d = Opaque THEN <<>>
                    ELSE IF d[2] = "val" THEN <<Def(body, d[3])>> ELSE <<NodeOf(d[2], d[3])>>

Program(body, calls, order, who) ==
  LET At(n) == CASE n \in TypeNames -> Def(body, n) [] n = "f" -> FunF [] n = "g" -> FunG [] n = "v" -> VarV
      nodes == {Def(body, n) : n \in TypeNames} \cup {FunF, FunG, FunType, VarV}
                 \cup {NodeOf(k, n) : k \in {"ptr", "ref", "array"}, n \in TypeNames}
  IN  [kids |-> [n \in nodes |-> Kids(body, calls, n)],
       unit |-> [i \in DOMAIN order |-> At(order[i])], use |-> who]

NoCalls == [n \in {"f", "g"} |-> <<>>]
CheckPrograms(orders) ==
  {Program(body, NoCalls, order, "check") :
     body \in [TypeNames -> {Opaque} \cup Bodies("struct", {"val", "ptr", "ref"})
                              \cup Bodies("alias", {"val", "ref", "array"})],
     order \in orders}
GenPrograms(orders) ==
  {Program(body, [n \in {"f", "g"} |-> IF n = "f" THEN cf ELSE cg], order, "gen") :
     body \in [TypeNames -> {Opaque} \cup Bodies("struct", {"val", "ref"})],
     cf \in {<<>>, <<FunG>>, <<VarV, FunG>>}, cg \in {<<>>, <<FunF>>},
     order \in orders}
MCPrograms ==
  CheckPrograms({<<"f", "A", "B", "C">>})
    \cup GenPrograms({<<"A", "B", "C", "v", "f", "g">>, <<"f", "A", "v", "B", "C">>,
                      <<"v", "A", "f", "g", "B", "C">>})

\* C holds a B, B holds an A.
ChainPrograms ==
  {Program([n \in TypeNames |-> CASE n = "A" -> Opaque [] n = "B" -> <<"struct", "val", "A">>
                                  [] n = "C" -> <<"struct", "val", "B">>],
           NoCalls, order, "gen") :
     order \in {<<"f", "C", "B", "A">>, <<"f", "A", "B", "C">>, <<"A", "B", "C", "f">>}}

-----------------------------------------------------------------------------
ASSUME CompileAssumption == Narrow!NarrowingAssumptions

\* One seed will do for the builtins, whose map has one entry, and for what rests.
OneForBuiltins == mparent # <<>> => mparent[1].seed = AllCollide
OwnershipParked == result = CHOOSE t \in Results : TRUE
StringsParked == strset.seed = CHOOSE h \in StrHashes : TRUE
MapParked == map.seed = AllCollide /\ mkind = "ptr" /\ mparent = <<>>
NarrowParked ==
  /\ narrowscope = 0 /\ worlds = 0 /\ nblocks = 0 /\ nstmts = 0 /\ nempty = 0 /\ noutdated = 0
DepsParked == tprog = 0 /\ tdone = 0 /\ tdefs = 0 /\ tmoved = 0 /\ tverdict = 0

MCInit ==
  /\ use \in CompileUses
  /\ Init /\ StrInit /\ InternInit /\ MapInit /\ ScopeInit /\ OneForBuiltins
  /\ use # "ownership" => OwnershipParked
  /\ use # "strings" => StringsParked
  /\ use # "map" => MapParked
  /\ IF use = "narrowing" THEN Narrow!NarrowInit ELSE NarrowParked
  /\ IF use = "deps" THEN Deps!TInit ELSE DepsParked

nVars == <<narrowscope, worlds, nblocks, nstmts, nempty, noutdated>>
tVars == <<tprog, tdone, tdefs, tmoved, tverdict>>

\* Bound: functions with a value as their result, the simplest case, nest less deep.
ShallowIfValue == result = "value" => Len(frames') < MaxNest

MCNext ==
  \/ /\ InUse("ownership") /\ Next /\ ShallowIfValue
     /\ UNCHANGED <<strVars, iVars, mVars, scopeVars, nVars, tVars>>
  \/ /\ InUse("strings") /\ StrNext
     /\ UNCHANGED <<vars, iVars, mVars, scopeVars, nVars, tVars>>
  \/ /\ InUse("interning") /\ InternNext
     /\ UNCHANGED <<vars, strVars, mVars, scopeVars, nVars, tVars>>
  \/ /\ InUse("map") /\ MapNext
     /\ UNCHANGED <<vars, strVars, iVars, scopeVars, nVars, tVars>>
  \/ /\ InUse("scope") /\ ScopeNext
     /\ UNCHANGED <<vars, strVars, iVars, mVars, nVars, tVars>>
  \/ /\ InUse("narrowing") /\ Narrow!NarrowNext
     /\ UNCHANGED <<vars, strVars, iVars, mVars, scopeVars, tVars>>
  \/ /\ InUse("deps") /\ Deps!TNext
     /\ UNCHANGED <<vars, strVars, iVars, mVars, scopeVars, nVars>>

MCVars == <<vars, strVars, iVars, mVars, scopeVars, nVars, tVars, use>>
MCSpec == MCInit /\ [][MCNext]_MCVars

-----------------------------------------------------------------------------
\* Whatever the type checker takes to have a value has one, on every path through
\* conditions, branches, assignments and returns, unless a block assigns to a
\* variable that is narrowed outside of it.
NoEmptyDeref == use = "narrowing" => Narrow!NoEmptyDeref

\* check_typedeps finds every type that contains or owns itself and every alias
\* that only leads to itself, and what it reports is on some cycle.
CyclesFound == use = "deps" => Deps!CyclesFound

\* ast_toposort_visit_def leaves every definition that those so far depend on, once,
\* types first and functions last, and each after what it depends on as long as
\* no sort had anything to move.
DefsExact == use = "deps" => Deps!DefsExact

\* ast.h: "topological order (dependencies first, dependants after.)"
DefsInOrder == use = "deps" => Deps!DefsInOrder
=============================================================================
