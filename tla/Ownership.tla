----------------------------- MODULE Ownership ------------------------------
(***************************************************************************)
(* The ownership analysis of a function body (src/src/ir.c), which decides *)
(* where an owning variable is dropped and which uses are errors, and what *)
(* the code that src/src/cgen.c generates from it does when it runs.       *)
(*                                                                         *)
(* The program under analysis is arbitrary: each action is one statement   *)
(* or the opening or closing of a block, an "if" or an "else".  Beside the *)
(* analysis the model follows every run of the function through the part   *)
(* built so far: the objects that are alive, once as the IR's MOVE and     *)
(* DROP have it (runs) and once as the generated C has it (cruns; cfell    *)
(* those that have gone on where the function returns).                    *)
(*                                                                         *)
(* Variables are owners of type *T, defined by "let" and never assigned    *)
(* again.  So a variable is its IR value, and its object never changes.    *)
(***************************************************************************)
EXTENDS Integers, FiniteSets, Sequences, SequencesExt

CONSTANTS Params,       \* the number of owning parameters of the function
          MaxValues,    \* bound on IR values
          MaxStmts,     \* bound on statements, counting those that open a block
          MaxNest,      \* bound on the nesting of blocks
          Results       \* result types: "void", "owner", or "value" for any other

ASSUME OwnershipAssumptions ==
  /\ Params \in Nat /\ MaxValues \in Nat /\ MaxStmts \in Nat /\ MaxNest \in Nat
  /\ Params <= MaxValues
  /\ Results \subseteq {"void", "value", "owner"}

VARIABLES result,    \* the function's result type
          nvals,     \* values 1..nvals exist; later values have higher numbers
          obj,       \* obj[v]: the object that v owns or owned
          scopes,    \* c->owners and c->dropstack: the scopes, innermost last
          deadset,   \* c->deadset
          pt,        \* the end of c->b, the block that code is appended to
          frames,    \* ifexpr's and blockexpr's locals, innermost last
          stmts,
          status,    \* "building", "built" or "error"
          ghost      \* what has gone wrong in some run

vars == <<result, nvals, obj, scopes, deadset, pt, frames, stmts, status, ghost>>

Values == 1 .. MaxValues
NoScope == [vars |-> {}, owners |-> {}, drops |-> <<>>]

Objs(S) == {obj[v] : v \in S}
Top == Last(scopes)
OwnersTo(n) == UNION {scopes[i].owners : i \in 1 .. n}
Owners == OwnersTo(Len(scopes))
Visible == UNION {scopes[i].vars : i \in DOMAIN scopes}
condnest == Cardinality({i \in DOMAIN frames : frames[i].kind # "block"})

\* The members of S, the last one first.
Rank(S, v) == Cardinality({w \in S : w >= v})
Descending(S) == [i \in 1 .. Cardinality(S) |-> CHOOSE v \in S : Rank(S, v) = i]

Init ==
  /\ result \in Results
  /\ nvals = Params
  /\ obj = [v \in Values |-> v]
  /\ scopes = <<[NoScope EXCEPT !.vars = 1 .. Params, !.owners = 1 .. Params]>>
  /\ deadset = {}
  /\ pt = [runs |-> {1 .. Params}, cruns |-> {1 .. Params}, cfell |-> {}, ret |-> FALSE,
           live |-> [v \in Values |-> "none"]]
  /\ frames = <<>>
  /\ stmts = 0
  /\ status = "building"
  /\ ghost = [doubled |-> {}, leaked |-> {}, cdoubled |-> {}, cleaked |-> {},
              fell |-> {}, lost |-> {}, late |-> {}, misused |-> FALSE]

-----------------------------------------------------------------------------
(* Liveness variables.  create_liveness_var writes to the block that       *)
(* defines the owner, so the value shows wherever it is read later.        *)

Written(live, S, l) == [v \in Values |-> IF v \in S THEN l ELSE live[v]]
Created(live, S, l) == Written(live, {v \in S : live[v] = "none"}, l)
CreatedInFrames(S, l) ==
  [i \in DOMAIN frames |->
     [frames[i] EXCEPT !.entry.live = Created(@, S, l), !.then.live = Created(@, S, l)]]

\* A block with two predecessors reads a PHI where they disagree.
Joined(l1, l2) == [v \in Values |-> IF l1[v] = l2[v] THEN l1[v] ELSE "phi"]
Join(p, q) == [runs |-> p.runs \cup q.runs, cruns |-> p.cruns \cup q.cruns,
               cfell |-> p.cfell \cup q.cfell,
               ret |-> FALSE, live |-> Joined(p.live, q.live)]
\* p is also reached by the runs that have gone on behind a return of q.
Behind(p, q) == [p EXCEPT !.cfell = @ \cup q.cfell]

-----------------------------------------------------------------------------
(* Drops.  A DROP in the IR ends its objects on every run through the      *)
(* block; the drop_t added to the AST makes the generated code end them    *)
(* when it leaves the block of the innermost scope.                        *)

Without(rs, gone) == {r \ gone : r \in rs}
Missing(rs, gone) == {o \in gone : \E r \in rs : o \notin r}

drop(p, S) == [p EXCEPT !.runs = Without(@, Objs(S))]
DropDoubled(p, S) ==
  Missing(p.runs, Objs(S)) \cup {obj[v] : v \in {w \in S : \E u \in S \ {w} : obj[u] = obj[w]}}
\* g with the objects that a run drops again, in a block that has returned or in another
Doubling(g, p, S) ==
  IF p.ret THEN [g EXCEPT !.late = @ \cup DropDoubled(p, S)]
           ELSE [g EXCEPT !.doubled = @ \cup DropDoubled(p, S)]
backpropagate_drop_to_ast(scope, S) ==
  [scope EXCEPT !.drops = @ \o [i \in 1 .. Cardinality(S) |-> obj[Descending(S)[i]]]]

\* What the generated code does with the drop list of a block it leaves.
gen_drops(p, scope) ==
  [p EXCEPT !.cruns = Without(@, ToSet(scope.drops)), !.cfell = Without(@, ToSet(scope.drops))]
CDoubled(p, scope) ==
  Missing(p.cruns, ToSet(scope.drops))
    \cup {scope.drops[i] : i \in {j \in DOMAIN scope.drops :
                                    \E k \in 1 .. j - 1 : scope.drops[k] = scope.drops[j]}}
CFell(p, scope) == Missing(p.cfell, ToSet(scope.drops))

Xor(S, T) == (S \ T) \cup (T \ S)
\* Bug: unwind only the innermost scope.
owners_unwind_allTop == Top.owners \ deadset
owners_unwind_all == Owners \ deadset
owners_unwind_scope(killed) == Top.owners \ killed
owners_find_lost(entry_deadset, exit_deadset, owners) ==
  {v \in owners : v \notin entry_deadset /\ v \in exit_deadset}

-----------------------------------------------------------------------------
(* Statements.  c->b->kind = IR_BLOCK_RET (pt.ret) ends a list of          *)
(* statements: blockexpr0 does not look at what follows a return.  (It     *)
(* does go on after an "if" with two branches that return; the programs    *)
(* here have no such unreachable statement.)                               *)

Statement ==
  /\ status = "building" /\ ~pt.ret /\ stmts < MaxStmts
  /\ stmts' = stmts + 1

\* load_local and the first test of move_owner
IsDead(x) == x \in deadset \/ pt.live[x] \notin {"none", "live"}

Refuse(x) ==
  /\ IsDead(x)
  /\ status' = "error"
  /\ UNCHANGED <<nvals, obj, scopes, deadset, pt, frames, ghost>>

Misused(x) == ghost.misused \/ \E r \in pt.runs : obj[x] \notin r

\* move_owner under a condition keeps track of liveness at run time
LivenessOfMove(live, x, new) ==
  IF condnest = 0 THEN live ELSE Written(Written(live, {x}, "dead"), new, "live")
FramesOfMove(x) == IF condnest = 0 THEN frames ELSE CreatedInFrames({x}, "dead")

\* let v = x
LetMove(x) ==
  LET v == nvals + 1 IN
  /\ Statement
  /\ nvals < MaxValues
  /\ \/ Refuse(x)
     \/ /\ ~IsDead(x)
        /\ nvals' = v
        /\ obj' = [obj EXCEPT ![v] = obj[x]]
        /\ scopes' = [scopes EXCEPT ![Len(scopes)].vars = @ \cup {v}, ![Len(scopes)].owners = @ \cup {v}]
        /\ deadset' = deadset \cup {x}
        /\ pt' = [pt EXCEPT !.live = LivenessOfMove(@, x, {v})]
        /\ frames' = FramesOfMove(x)
        /\ ghost' = [ghost EXCEPT !.misused = Misused(x)]
        /\ UNCHANGED status

\* let v = make().  The value of the call is an owner too, and dead from here on.
LetCall ==
  LET v == nvals + 1 IN
  /\ Statement
  /\ nvals < MaxValues
  /\ nvals' = v
  /\ scopes' = [scopes EXCEPT ![Len(scopes)].vars = @ \cup {v}, ![Len(scopes)].owners = @ \cup {v}]
  /\ pt' = [pt EXCEPT !.runs = {r \cup {v} : r \in @}, !.cruns = {r \cup {v} : r \in @},
                      !.cfell = {r \cup {v} : r \in @},
                      !.live = IF condnest = 0 THEN @ ELSE Written(@, {v}, "live")]
  /\ UNCHANGED <<obj, deadset, frames, status, ghost>>

\* The end of the code when the object of x has been given away.
Given(x) == [pt EXCEPT !.runs = Without(@, {obj[x]}), !.cruns = Without(@, {obj[x]}),
                       !.cfell = Without(@, {obj[x]}), !.live = LivenessOfMove(@, x, {})]

\* consume(x), a call of a function with an owning parameter
Consume(x) ==
  /\ Statement
  /\ \/ Refuse(x)
     \/ /\ ~IsDead(x)
        /\ deadset' = deadset \cup {x}
        /\ pt' = Given(x)
        /\ frames' = FramesOfMove(x)
        /\ ghost' = [ghost EXCEPT !.misused = Misused(x), !.fell = @ \cup Missing(pt.cfell, {obj[x]})]
        /\ UNCHANGED <<nvals, obj, scopes, status>>

\* ret: every live owner of every scope is dropped, by the innermost block
Returned(p, S) == [drop(p, S) EXCEPT !.ret = TRUE]
RetGhost(p, S) == [Doubling(ghost, p, S) EXCEPT !.leaked = @ \cup UNION drop(p, S).runs]
\* Bug: owners_unwind_all does not empty the scope.
RetScopesKept(S) == [scopes EXCEPT ![Len(scopes)] = backpropagate_drop_to_ast(@, S)]
RetScopes(S) ==
  [scopes EXCEPT ![Len(scopes)] = [backpropagate_drop_to_ast(@, S) EXCEPT !.owners = {}]]

\* return, without a value or with one that is no owner
RetNone ==
  /\ Statement /\ result # "owner"
  /\ scopes' = RetScopes(owners_unwind_all)
  /\ pt' = Returned(pt, owners_unwind_all)
  /\ ghost' = RetGhost(pt, owners_unwind_all)
  /\ UNCHANGED <<nvals, obj, deadset, frames, status>>

\* return x, or x as the last expression of the function
Ret(x) ==
  LET S == owners_unwind_all \ {x} IN
  /\ Statement /\ result = "owner"
  /\ \/ Refuse(x)
     \/ /\ ~IsDead(x)
        /\ deadset' = deadset \cup {x}
        /\ scopes' = RetScopes(S)
        /\ pt' = Returned(Given(x), S)
        /\ frames' = FramesOfMove(x)
        /\ ghost' = [RetGhost(Given(x), S) EXCEPT !.misused = Misused(x)]
        /\ UNCHANGED <<nvals, obj, status>>

-----------------------------------------------------------------------------
(* Blocks and branches. *)

NoPoint == [runs |-> {}, cruns |-> {}, cfell |-> {}, ret |-> FALSE, live |-> [v \in Values |-> "none"]]

owners_enter_scope == Append(scopes, NoScope)

Enter(kind) == /\ Statement
               /\ Len(frames) < MaxNest
               /\ scopes' = owners_enter_scope
               /\ frames' = Append(frames, [kind |-> kind, entry |-> pt, entry_deadset |-> deadset,
                                            then |-> NoPoint, then_deadset |-> {}])
               /\ UNCHANGED <<nvals, obj, deadset, pt, status, ghost>>

\* A block that has returned.  Of a return of type void gen_block prints the value
\* and the drops but no "return", so the generated code goes on behind the block.
Gone(p) == [p EXCEPT !.cruns = {}, !.cfell = IF result = "void" THEN @ \cup p.cruns ELSE {}]

\* The end of the innermost scope, which drops S: the point behind it, ...
Unwound(S) == backpropagate_drop_to_ast(Top, S)
Left(S) == LET p == gen_drops(drop(pt, S), Unwound(S))
           IN  IF pt.ret THEN Gone(p) ELSE p
\* ... and what went wrong before it.
LeftGhost(S) ==
  [Doubling(ghost, pt, S) EXCEPT
                !.cdoubled = @ \cup CDoubled(pt, Unwound(S)),
                !.fell = @ \cup CFell(pt, Unwound(S)),
                !.cleaked = IF pt.ret THEN @ \cup UNION gen_drops(pt, Unwound(S)).cruns ELSE @]

\* {
BlockEnter == Enter("block")

\* }.  The code goes on in a new block, that a return does not reach.
BlockLeave ==
  LET S == owners_unwind_scope(deadset) IN
  /\ status = "building" /\ frames # <<>> /\ Last(frames).kind = "block"
  /\ scopes' = Front(scopes)
  /\ frames' = Front(frames)
  /\ pt' = IF pt.ret THEN [Left(S) EXCEPT !.runs = {}, !.ret = FALSE] ELSE Left(S)
  /\ ghost' = LeftGhost(S)
  /\ UNCHANGED <<nvals, obj, deadset, stmts, status>>

\* if cond {
IfThen == Enter("then")

BranchDrops == owners_unwind_scope(Xor(deadset, Last(frames).entry_deadset))
InBranch(kind) == status = "building" /\ frames # <<>> /\ Last(frames).kind = kind

\* } else {
IfElse ==
  /\ InBranch("then")
  /\ stmts < MaxStmts
  /\ stmts' = stmts + 1
  /\ scopes' = Append(Front(scopes), NoScope)
  /\ frames' = [frames EXCEPT ![Len(frames)] =
                   [@ EXCEPT !.kind = "else", !.then = Left(BranchDrops), !.then_deadset = deadset]]
  /\ deadset' = Last(frames).entry_deadset
  /\ pt' = Last(frames).entry
  /\ ghost' = LeftGhost(BranchDrops)
  /\ UNCHANGED <<nvals, obj, status>>

\* owners_drop_lost, at the end of the block p, in the scope sc around the "if"
LostScope(sc, L) == [backpropagate_drop_to_ast(sc, L) EXCEPT !.owners = @ \ L]
\* Bug: owners_drop_lost does not write the liveness variable.
LostPointUntracked(p, sc, L) == drop(p, L)
LostPoint(p, sc, L) == [drop(p, L) EXCEPT !.live = Written(@, L \ sc.owners, "dead")]
LostGhost(g, p, L) == [Doubling(g, p, L) EXCEPT !.lost = @ \cup Objs(L)]
OuterOwners == OwnersTo(Len(scopes) - 1)

\* A branch that returns undoes what it did to the deadset.
\* Bug: it does not.
KeptDeadset(ret, before) == deadset
UndoneDeadset(ret, before) == IF ret THEN before ELSE deadset

\* } of an "if" without "else"
IfEnd ==
  LET f == Last(frames)
      sc == scopes[Len(scopes) - 1]
      then == Left(BranchDrops)
      L == IF then.ret THEN {} ELSE owners_find_lost(f.entry_deadset, deadset, OuterOwners)
  IN
  /\ InBranch("then")
  /\ frames' = Front(frames)
  /\ deadset' = UndoneDeadset(then.ret, f.entry_deadset)
  /\ pt' = IF then.ret THEN Behind(f.entry, then) ELSE Join(LostPoint(f.entry, sc, L), then)
  /\ scopes' = [Front(scopes) EXCEPT ![Len(scopes) - 1] = LostScope(@, L)]
  /\ ghost' = LostGhost(LeftGhost(BranchDrops), f.entry, L)
  /\ UNCHANGED <<nvals, obj, stmts, status>>

\* } of the "else" after a "then" that returned: the code goes on in the "else" block
ElseEndThenReturned ==
  /\ InBranch("else")
  /\ Last(frames).then.ret
  /\ frames' = Front(frames)
  /\ scopes' = Front(scopes)
  /\ pt' = Behind(Left(BranchDrops), Last(frames).then)
  /\ ghost' = LeftGhost(BranchDrops)
  /\ UNCHANGED <<nvals, obj, deadset, stmts, status>>

\* } of any other "else": each branch drops what only the other one lost
ElseEnd ==
  LET f == Last(frames)
      sc == scopes[Len(scopes) - 1]
      else == Left(BranchDrops)
      inthen == owners_find_lost(deadset, f.then_deadset, OuterOwners)
      inelse == IF else.ret THEN {}
                ELSE owners_find_lost(f.then_deadset, deadset, OuterOwners \ inthen)
      then2 == LostPoint(f.then, sc, inelse)
  IN
  /\ InBranch("else")
  /\ ~f.then.ret
  /\ frames' = Front(frames)
  /\ deadset' = UndoneDeadset(else.ret, f.then_deadset) \cup f.then_deadset
  /\ pt' = IF else.ret THEN Behind(then2, else) ELSE Join(LostPoint(else, sc, inthen), then2)
  /\ scopes' = [Front(scopes) EXCEPT ![Len(scopes) - 1] = LostScope(LostScope(@, inthen), inelse)]
  /\ ghost' = LostGhost(LostGhost(LeftGhost(BranchDrops), else, inthen), f.then, inelse)
  /\ UNCHANGED <<nvals, obj, stmts, status>>

\* The } of the function: an implicit return, unless the body has returned.
FunEnd ==
  LET S == IF pt.ret THEN owners_unwind_scope(deadset) ELSE owners_unwind_all
      sc == RetScopes(S)[1]
      p == gen_drops(pt, sc)
      g == IF pt.ret THEN Doubling(ghost, pt, S) ELSE RetGhost(pt, S)
  IN
  /\ status = "building" /\ frames = <<>>
  /\ pt.ret \/ result = "void"
  /\ status' = "built"
  /\ scopes' = RetScopes(S)
  /\ pt' = [Returned(p, S) EXCEPT !.cruns = {}, !.cfell = {}]
  /\ ghost' = [g EXCEPT !.cdoubled = @ \cup CDoubled(pt, sc), !.fell = @ \cup CFell(pt, sc),
                        !.cleaked = @ \cup UNION p.cruns]
  /\ UNCHANGED <<nvals, obj, deadset, frames, stmts>>

Next ==
  /\ \/ \E x \in Visible : LetMove(x) \/ Consume(x) \/ Ret(x)
     \/ LetCall \/ RetNone
     \/ BlockEnter \/ BlockLeave
     \/ IfThen \/ IfElse \/ IfEnd \/ ElseEnd \/ ElseEndThenReturned
     \/ FunEnd
  /\ UNCHANGED result

Spec == Init /\ [][Next]_vars

-----------------------------------------------------------------------------
(* Properties. *)

Lives == {"none", "live", "dead", "phi"}
Points == [runs : SUBSET SUBSET Values, cruns : SUBSET SUBSET Values,
           cfell : SUBSET SUBSET Values, ret : BOOLEAN, live : [Values -> Lives]]
Scopes == [vars : SUBSET Values, owners : SUBSET Values, drops : Seq(Values)]
Frames == [kind : {"block", "then", "else"}, entry : Points, entry_deadset : SUBSET Values,
           then : Points, then_deadset : SUBSET Values]
Ghosts == [doubled : SUBSET Values, leaked : SUBSET Values, cdoubled : SUBSET Values,
           cleaked : SUBSET Values, fell : SUBSET Values, lost : SUBSET Values, late : SUBSET Values,
           misused : BOOLEAN]

TypeOK ==
  /\ result \in Results
  /\ nvals \in 0 .. MaxValues
  /\ obj \in [Values -> Values]
  /\ scopes \in Seq(Scopes) /\ frames \in Seq(Frames)
  /\ deadset \subseteq Values
  /\ pt \in Points
  /\ stmts \in 0 .. MaxStmts
  /\ status \in {"building", "built", "error"}
  /\ ghost \in Ghosts

(* While code is added to a block, the objects alive in every run that     *)
(* gets there are exactly those of the owners that the deadset of ir.c     *)
(* does not name, and no two of these own the same object.  This is what   *)
(* the deadsets saved and merged around "if" and "else" have to keep up.   *)
OwnersExact ==
  LET alive == Owners \ deadset IN
  status = "building" /\ ~pt.ret =>
    /\ \A r \in pt.runs : r = Objs(alive)
    /\ \A v, w \in alive : obj[v] = obj[w] => v = w

(* In a function that is accepted, the IR ends every object exactly once   *)
(* on every run: by one DROP, or by giving it away.  Left out are the      *)
(* blocks that have returned, where ifexpr and fun add DROPs of objects    *)
(* that the return has dropped already (late).                             *)
IRDropsOnce == ghost.doubled = {} /\ ghost.leaked = {} /\ ~ghost.misused

(* So does the generated code for every object that no branch alone gives  *)
(* away, wherever the drop list that ends it is and whatever returns early,*)
(* on the runs that do not go on behind a return.                          *)
CDropsOnceIfNotLost == ghost.cdoubled \cup ghost.cleaked \subseteq ghost.lost

(* In a function that is accepted every object ends exactly once on every  *)
(* run, in the IR and in the generated code, as far as the two above say.  *)
DropsOnce == IRDropsOnce /\ CDropsOnceIfNotLost

(* The liveness variable of an owner never has to be decided at run time,  *)
(* and is not "live" for a dead owner: the assertions of                   *)
(* write_liveness_var and owners_unwind_one hold, and conditional_drop is  *)
(* never needed.                                                           *)
LivenessDefinite ==
  status = "building" =>
    \A v \in Owners : pt.live[v] # "phi" /\ (v \in deadset => pt.live[v] # "live")

(* In a function that is accepted, the generated code never drops an       *)
(* object that a run has dropped or given away before: "Memory safety via  *)
(* ownership" (README.md:35).                                              *)
CDropsOnce == ghost.cdoubled \cup ghost.fell = {}
=============================================================================
