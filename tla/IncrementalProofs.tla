------------------------- MODULE IncrementalProofs --------------------------
(***************************************************************************)
(* Proofs about Incremental for any packages and imports, any number of    *)
(* files, edits, builds and crashes.                                       *)
(*                                                                         *)
(* SourcesCurrent and ApisCurrentAfterTwo speak of the end of a build; the *)
(* inductive invariant says what the files on disk can be worth at every   *)
(* moment.  Products: the products of a package describe each other, or    *)
(* the library is visibly old.  DepsNoticed: a metafile has the present    *)
(* API of an import, or is visibly older than it.                          *)
(***************************************************************************)
EXTENDS Incremental, TLAPS

\* Every time on disk, and of what was parsed, is in the past.
ClockAhead ==
  \A p \in Pkgs :
    /\ meta[p].mtime <= clock /\ lib[p].mtime <= clock
    /\ \A f \in Files : src[p][f].mtime <= clock /\ parsed[p][f].mtime <= clock

\* The run: which packages it has reached, and in what order.
RunOrder ==
  /\ top = NoPkg => \A p \in Pkgs : phase[p] = "idle"
  /\ top # NoPkg => phase[top] \in {"parse", "import", "link"}
  /\ top # NoPkg /\ streak.n >= 1 => streak.top = top
  /\ streak.settled <= streak.n /\ streak.n >= -1
  /\ streak.n >= 1 => streak.top \in Pkgs
  /\ \A p \in Pkgs :
       /\ phase[p] # "idle" => p \in NeededBy[top]
       /\ phase[p] \in {"link", "loaded"} => ImportsLoaded(p)

\* The memory of the run agrees with the metafiles.
MemoryOK ==
  \A p \in Pkgs :
    /\ phase[p] \in {"deps", "link", "loaded"} => api[p] = meta[p].api
    /\ phase[p] = "deps" => mtime[p] = Age(p)

\* A source that is there is not older than what was parsed.
ParsedOlder ==
  \A p \in Pkgs : phase[p] \in {"import", "link"} =>
    \A f \in Files : src[p][f].mtime = 0 \/ src[p][f].mtime >= parsed[p][f].mtime

\* Between the metafile and the library.
Linking ==
  \A p \in Pkgs : phase[p] = "link" =>
    /\ meta[p].ok /\ meta[p].mtime > 0
    /\ meta[p].files = Names(parsed[p]) /\ meta[p].api = API(parsed[p])
    /\ \A f \in Files : parsed[p][f].mtime <= meta[p].mtime
    /\ \A d \in Imports[p] : meta[p].deps[d] = meta[d].api
    /\ p \notin raced =>
         \A f \in Files : \/ src[p][f] = parsed[p][f] \/ src[p][f].mtime = 0
                          \/ src[p][f].mtime > meta[p].mtime
    /\ \A q \in Pkgs : p \in Imports[q] => meta[q].mtime < meta[p].mtime

\* A source is newer than the library, or gone.
Old(p) == \E f \in meta[p].files : src[p][f].mtime = 0 \/ src[p][f].mtime > lib[p].mtime

\* The metafile describes the library, and what changed since is newer than both.
Matches(p) ==
  /\ meta[p].files = Names(lib[p].made) /\ meta[p].api = API(lib[p].made)
  /\ meta[p].deps = lib[p].deps
  /\ \A f \in Files : \/ src[p][f] = lib[p].made[f] \/ src[p][f].mtime = 0
                      \/ src[p][f].mtime > Age(p)

Products ==
  \A p \in Pkgs : Sound(p) /\ meta[p].ok /\ phase[p] # "link" => Old(p) \/ Matches(p)

\* The metafile of p has the present API of d, or p is older than d.
Agree(p, d) == meta[p].deps[d] = meta[d].api
DepsNoticed ==
  \A p \in Pkgs : \A d \in Imports[p] : meta[p].ok =>
    \/ Agree(p, d) \/ Age(d) > Age(p)
    \/ phase[d] = "link" \/ d \in torn \/ ~meta[d].ok \/ Old(d)

\* What a run that saw no edit knows.
Undisturbed ==
  top # NoPkg /\ streak.n >= 0 =>
    \A p \in Pkgs :
      /\ phase[p] \in {"import", "link"} => parsed[p] = src[p]
      /\ phase[p] \in {"deps", "loaded"} => UpToDate(p)

AllUpToDate ==
  streak.n >= 1 => \A p \in NeededBy[streak.top] : UpToDate(p) \/ phase[p] = "link"

\* What a run after a whole build without edits knows.
Settling ==
  top # NoPkg /\ streak.settled >= 1 =>
    \A p \in Pkgs : \A d \in Imports[p] : meta[p].ok =>
      /\ phase[d] = "link" /\ Sound(d) => Agree(p, d) \/ lib[d].mtime > Age(p)
      /\ phase[d] = "loaded" => mtime[d] = Age(d) \/ Agree(p, d) \/ mtime[d] > Age(p)
      /\ phase[p] = "loaded" => Agree(p, d) \/ Age(d) <= Age(p)

Settled ==
  streak.settled >= 2 =>
    /\ \A p \in NeededBy[streak.top] : \A d \in Imports[p] : Agree(p, d) \/ Age(d) <= Age(p)
    /\ top # NoPkg => \A p \in Pkgs \ {top} :
         /\ phase[p] \in {"idle", "deps", "loaded"}
         /\ phase[p] = "loaded" => mtime[p] = Age(p)

IInv ==
  /\ TypeOK /\ ClockAhead /\ RunOrder /\ MemoryOK /\ ParsedOlder /\ Linking
  /\ Products /\ DepsNoticed /\ Undisturbed /\ AllUpToDate /\ Settling /\ Settled
  /\ SourcesCurrent /\ ApisCurrentAfterTwo

-----------------------------------------------------------------------------
\* What the least closed set of packages is.
LEMMA NeededFacts ==
  ASSUME NEW p \in Pkgs
  PROVE  /\ NeededBy[p] \subseteq Pkgs /\ p \in NeededBy[p]
         /\ \A q \in NeededBy[p] : Imports[q] \subseteq NeededBy[p]
         /\ \A S \in SUBSET Pkgs : p \in S /\ Closed(S) => NeededBy[p] \subseteq S
<1>1. NeededBy[p] = {q \in Pkgs : \A S \in SUBSET Pkgs : p \in S /\ Closed(S) => q \in S}
  BY DEF NeededBy
<1>2. ASSUME NEW q \in NeededBy[p], NEW d \in Imports[q]
      PROVE  d \in NeededBy[p]
  <2>1. q \in Pkgs /\ d \in Pkgs
    BY <1>1, IncrementalAssumptions
  <2>2. ASSUME NEW S \in SUBSET Pkgs, p \in S, Closed(S)
        PROVE  d \in S
    BY <1>1, <2>2 DEF Closed
  <2> QED BY <1>1, <2>1, <2>2
<1> QED BY <1>1, <1>2

\* The age of the products is that of the older one.
LEMMA AgeFacts ==
  ASSUME TypeOK, NEW p \in Pkgs
  PROVE  /\ Age(p) \in Nat /\ Age(p) <= lib[p].mtime /\ Age(p) <= meta[p].mtime
         /\ Age(p) = lib[p].mtime \/ Age(p) = meta[p].mtime
BY DEF TypeOK, Age, ProductTime

\* The first state satisfies the invariant.
LEMMA InitIInv == Init => IInv
<1> SUFFICES ASSUME Init PROVE IInv
  OBVIOUS
<1>1. /\ src \in [Pkgs -> Sources] /\ parsed \in [Pkgs -> Sources]
      /\ API(NoSource) \in APIs /\ NoSource \in Sources
  BY DEF Init, Sources, SourceFiles, NoSource, Absent, API, APIs
<1>2. ASSUME NEW p \in Pkgs
      PROVE  [d \in Imports[p] |-> API(NoSource)] \in DepAPIs
  BY <1>1 DEF DepAPIs
<1>3. /\ \A p \in Pkgs : meta[p] = NoMeta(p) /\ lib[p] = NoLib(p)
      /\ \A p \in Pkgs : phase[p] = "idle"
      /\ streak.n = 0 /\ streak.settled = 0 /\ top = NoPkg
  BY DEF Init, NoStreak, Streak
<1>4. TypeOK
  <2>1. meta \in [Pkgs -> [mtime : Nat, ok : BOOLEAN, api : APIs, files : SUBSET Files, deps : DepAPIs]]
    BY <1>1, <1>2 DEF Init, NoMeta
  <2>2. lib \in [Pkgs -> [mtime : Nat, made : Sources, deps : DepAPIs]]
    BY <1>1, <1>2 DEF Init, NoLib
  <2> QED BY <1>1, <2>1, <2>2 DEF Init, TypeOK, NoStreak, Streak
<1>5. ClockAhead
  BY <1>3 DEF Init, ClockAhead, NoMeta, NoLib, NoSource, Absent
<1>6. ASSUME NEW p \in Pkgs PROVE ~meta[p].ok
  <2>1. meta[p] = NoMeta(p)
    BY <1>3
  <2>2. NoMeta(p).ok = FALSE
    BY DEF NoMeta
  <2> QED BY <2>1, <2>2, Zenon
<1> QED
  BY <1>3, <1>4, <1>5, <1>6
  DEF IInv, RunOrder, MemoryOK, ParsedOlder, Linking, Products, DepsNoticed, Undisturbed,
      AllUpToDate, Settling, Settled, SourcesCurrent, ApisCurrentAfterTwo, CompiledAgainst

-----------------------------------------------------------------------------
\* What is said about the disk stays as it is when the disk does.
LEMMA SameDisk ==
  ASSUME UNCHANGED disk
  PROVE  \A p \in Pkgs : /\ Age(p)' = Age(p)
                         /\ UpToDate(p)' <=> UpToDate(p)
                         /\ Old(p)' <=> Old(p)
                         /\ Matches(p)' <=> Matches(p)
                         /\ \A d \in Pkgs : Agree(p, d)' <=> Agree(p, d)
BY DEF disk, Age, UpToDate, SrcUpToDate, Old, Matches, Agree

\* A step of a run that writes nothing and neither begins nor ends the writing
\* of a library keeps everything that is said about the disk.
LEMMA NothingWritten ==
  ASSUME IInv, TypeOK', UNCHANGED <<clock, disk, raced, torn>>,
         \A p \in Pkgs : phase'[p] = "link" <=> phase[p] = "link",
         streak' = streak \/ (streak'.n <= 0 /\ streak'.settled <= 0)
  PROVE  /\ Products' /\ DepsNoticed' /\ AllUpToDate'
         /\ SourcesCurrent' /\ ApisCurrentAfterTwo'
<1>1. \A p \in Pkgs : Imports[p] \subseteq Pkgs
  BY IncrementalAssumptions
<1>2. Products'
  <2> SUFFICES ASSUME NEW p \in Pkgs, Sound(p)', meta'[p].ok, phase'[p] # "link"
               PROVE  Old(p)' \/ Matches(p)'
    BY DEF Products
  <2> QED BY SameDisk DEF IInv, Products, Sound, disk
<1>3. DepsNoticed'
  <2> SUFFICES ASSUME NEW p \in Pkgs, NEW d \in Imports[p], meta'[p].ok
               PROVE  \/ Agree(p, d)' \/ Age(d)' > Age(p)'
                      \/ phase'[d] = "link" \/ d \in torn' \/ ~meta'[d].ok \/ Old(d)'
    BY DEF DepsNoticed
  <2> QED BY <1>1, SameDisk DEF IInv, DepsNoticed, disk
<1>4. ASSUME streak' = streak
      PROVE  AllUpToDate' /\ SourcesCurrent' /\ ApisCurrentAfterTwo'
  <2>1. streak.n >= 1 => NeededBy[streak.top] \subseteq Pkgs
    BY NeededFacts DEF IInv, RunOrder
  <2>2. AllUpToDate'
    BY <1>4, <2>1, SameDisk DEF IInv, AllUpToDate
  <2>3. SourcesCurrent' /\ ApisCurrentAfterTwo'
    BY <1>4 DEF IInv, SourcesCurrent, ApisCurrentAfterTwo, CompiledAgainst, Sound, disk
  <2> QED BY <2>2, <2>3
<1>5. ASSUME streak'.n <= 0, streak'.settled <= 0
      PROVE  AllUpToDate' /\ SourcesCurrent' /\ ApisCurrentAfterTwo'
  BY <1>5 DEF TypeOK, AllUpToDate, SourcesCurrent, ApisCurrentAfterTwo, CompiledAgainst
<1> QED BY <1>2, <1>3, <1>4, <1>5

\* load_dependency0 looks at the products of a package.
LEMMA BeginStep ==
  ASSUME IInv, NEW p \in Pkgs, Begin(p)
  PROVE  IInv'
<1>1. /\ UNCHANGED <<clock, src, meta, lib, top, parsed, streak, raced, torn, edits>>
      /\ phase[p] = "idle" /\ top # NoPkg /\ UNCHANGED disk
  BY DEF Begin, disk, history
<1>2. \/ phase'[p] = "deps" /\ UpToDate(p) /\ mtime'[p] = Age(p) /\ api'[p] = meta[p].api
      \/ phase'[p] = "parse" /\ ~UpToDate(p)
  <2>1. CASE UpToDate(p)
    BY <2>1 DEF Begin, IInv, TypeOK
  <2>2. CASE ~UpToDate(p)
    BY <2>2 DEF Begin, IInv, TypeOK
  <2> QED BY <2>1, <2>2
<1>3. \A q \in Pkgs : q # p => phase'[q] = phase[q] /\ mtime'[q] = mtime[q] /\ api'[q] = api[q]
  <2>1. CASE UpToDate(p)
    BY <2>1 DEF Begin, IInv, TypeOK
  <2>2. CASE ~UpToDate(p)
    BY <2>2 DEF Begin, IInv, TypeOK
  <2> QED BY <2>1, <2>2
<1>4. TypeOK'
  <2>1. phase' \in [Pkgs -> {"idle", "deps", "parse", "import", "link", "loaded"}]
    BY DEF Begin, IInv, TypeOK
  <2>2. Age(p) \in Nat /\ meta[p].api \in APIs
    BY AgeFacts DEF IInv, TypeOK
  <2>3. mtime' \in [Pkgs -> Nat] /\ api' \in [Pkgs -> APIs]
    <3>1. CASE UpToDate(p)
      BY <2>2, <3>1 DEF Begin, IInv, TypeOK
    <3>2. CASE ~UpToDate(p)
      BY <3>2 DEF Begin, IInv, TypeOK
    <3> QED BY <3>1, <3>2
  <2> QED BY <1>1, <2>1, <2>3 DEF IInv, TypeOK
<1>5. p \in NeededBy[top]
  <2>1. PICK q \in Pkgs : phase[q] \in {"deps", "import"} /\ p \in Imports[q]
    BY DEF Begin, Wanted
  <2>2. q \in NeededBy[top] /\ top \in Pkgs
    BY <1>1, <2>1, IncrementalAssumptions DEF IInv, RunOrder, TypeOK
  <2> QED BY <2>1, <2>2, NeededFacts
<1>6. ClockAhead' /\ ParsedOlder' /\ Linking'
  BY <1>1, <1>2, <1>3 DEF IInv, ClockAhead, ParsedOlder, Linking, Names
<1>7. RunOrder'
  <2>1. top \in Pkgs /\ top # p
    BY <1>1, IncrementalAssumptions DEF IInv, RunOrder, TypeOK
  <2>2. ASSUME NEW q \in Pkgs, phase'[q] \in {"link", "loaded"}
        PROVE  ImportsLoaded(q)'
    <3>1. phase[q] \in {"link", "loaded"} /\ q # p
      BY <1>2, <1>3, <2>2
    <3> QED BY <1>1, <1>3, <3>1, IncrementalAssumptions DEF IInv, RunOrder, ImportsLoaded
  <2> QED BY <1>1, <1>3, <1>5, <2>1, <2>2 DEF IInv, RunOrder
<1>8. MemoryOK'
  BY <1>1, <1>2, <1>3, SameDisk DEF IInv, MemoryOK
<1>9. Products' /\ DepsNoticed' /\ AllUpToDate' /\ SourcesCurrent' /\ ApisCurrentAfterTwo'
  BY <1>1, <1>2, <1>3, <1>4, NothingWritten
<1>10. Undisturbed'
  BY <1>1, <1>2, <1>3, SameDisk DEF IInv, Undisturbed
<1>11. Settling'
  <2> SUFFICES ASSUME top # NoPkg, streak.settled >= 1,
                      NEW q \in Pkgs, NEW d \in Imports[q], meta[q].ok
               PROVE
        /\ phase'[d] = "link" /\ Sound(d)' => Agree(q, d)' \/ lib'[d].mtime > Age(q)'
        /\ phase'[d] = "loaded" => mtime'[d] = Age(d)' \/ Agree(q, d)' \/ mtime'[d] > Age(q)'
        /\ phase'[q] = "loaded" => Agree(q, d)' \/ Age(d)' <= Age(q)'
    BY <1>1 DEF Settling
  <2>1. d \in Pkgs
    BY IncrementalAssumptions
  <2> QED BY <1>1, <1>2, <1>3, <2>1, SameDisk DEF IInv, Settling, Sound
<1>12. Settled'
  <2> SUFFICES ASSUME streak.settled >= 2
               PROVE  Settled'
    BY <1>1 DEF Settled
  <2>1. streak.n >= 1 /\ streak.top = top /\ top \in Pkgs
    BY <1>1, IncrementalAssumptions DEF IInv, TypeOK, RunOrder
  <2>2. UpToDate(p)
    BY <1>1, <1>5, <2>1 DEF IInv, AllUpToDate
  <2>3. NeededBy[streak.top] \subseteq Pkgs
    BY <2>1, NeededFacts
  <2>4. \A q \in NeededBy[streak.top] : \A d \in Imports[q] :
          Agree(q, d)' \/ Age(d)' <= Age(q)'
    BY <1>1, <1>2, <1>3, <2>2, <2>3, SameDisk, IncrementalAssumptions DEF IInv, Settled
  <2>5. ASSUME NEW q \in Pkgs \ {top}
        PROVE  /\ phase'[q] \in {"idle", "deps", "loaded"}
               /\ phase'[q] = "loaded" => mtime'[q] = Age(q)'
    BY <1>1, <1>2, <1>3, <2>2, <2>3, SameDisk, IncrementalAssumptions DEF IInv, Settled
  <2> QED BY <1>1, <2>4, <2>5 DEF Settled
<1> QED BY <1>4, <1>6, <1>7, <1>8, <1>9, <1>10, <1>11, <1>12 DEF IInv

\* load_dependency1 compares a package with its imports.
LEMMA CheckDepsStep ==
  ASSUME IInv, NEW p \in Pkgs, CheckDeps(p)
  PROVE  IInv'
<1>1. /\ UNCHANGED <<clock, src, meta, lib, top, parsed, mtime, api, streak, raced, torn, edits>>
      /\ phase[p] = "deps" /\ top # NoPkg /\ ImportsLoaded(p) /\ UNCHANGED disk
  BY DEF CheckDeps, disk, history
<1>2. \/ phase'[p] = "parse" /\ Stale(p)
      \/ phase'[p] = "loaded" /\ ~Stale(p)
  <2>1. CASE Stale(p)
    BY <2>1 DEF CheckDeps, IInv, TypeOK
  <2>2. CASE ~Stale(p)
    BY <2>2 DEF CheckDeps, IInv, TypeOK
  <2> QED BY <2>1, <2>2
<1>3. \A q \in Pkgs : q # p => phase'[q] = phase[q]
  BY DEF CheckDeps, IInv, TypeOK
<1>4. TypeOK'
  <2>1. phase' \in [Pkgs -> {"idle", "deps", "parse", "import", "link", "loaded"}]
    BY DEF CheckDeps, IInv, TypeOK
  <2> QED BY <1>1, <2>1 DEF IInv, TypeOK
<1>5. p \in NeededBy[top] /\ top \in Pkgs /\ top # p
  BY <1>1, IncrementalAssumptions DEF IInv, RunOrder, TypeOK
<1>6. ClockAhead' /\ ParsedOlder' /\ Linking'
  BY <1>1, <1>2, <1>3 DEF IInv, ClockAhead, ParsedOlder, Linking, Names
<1>7. RunOrder'
  <2>1. ASSUME NEW q \in Pkgs, phase'[q] \in {"link", "loaded"}
        PROVE  ImportsLoaded(q)'
    <3>1. ImportsLoaded(q)
      BY <1>1, <1>2, <1>3, <2>1 DEF IInv, RunOrder
    <3> QED BY <1>1, <1>3, <3>1, IncrementalAssumptions DEF ImportsLoaded
  <2> QED BY <1>1, <1>3, <1>5, <2>1 DEF IInv, RunOrder
<1>8. MemoryOK'
  BY <1>1, <1>2, <1>3, SameDisk DEF IInv, MemoryOK
<1>9. Products' /\ DepsNoticed' /\ AllUpToDate' /\ SourcesCurrent' /\ ApisCurrentAfterTwo'
  BY <1>1, <1>2, <1>3, <1>4, NothingWritten
<1>10. Undisturbed'
  BY <1>1, <1>2, <1>3, SameDisk DEF IInv, Undisturbed
<1>11. ASSUME NEW d \in Imports[p], ~Stale(p)
       PROVE  phase[d] = "loaded" /\ (mtime[d] <= Age(p) \/ Agree(p, d))
  <2>1. d \in Pkgs /\ phase[d] = "loaded" /\ api[d] = meta[d].api /\ mtime[p] = Age(p)
    BY <1>1, IncrementalAssumptions DEF ImportsLoaded, IInv, MemoryOK
  <2>2. mtime[d] <= mtime[p] \/ meta[p].deps[d] = api[d]
    BY <1>11, <2>1 DEF Stale, ApiChanged, IInv, TypeOK
  <2> QED BY <2>1, <2>2 DEF Agree
<1>12. Settling'
  <2> SUFFICES ASSUME top # NoPkg, streak.settled >= 1,
                      NEW q \in Pkgs, NEW d \in Imports[q], meta[q].ok
               PROVE
        /\ phase'[d] = "link" /\ Sound(d)' => Agree(q, d)' \/ lib'[d].mtime > Age(q)'
        /\ phase'[d] = "loaded" => mtime'[d] = Age(d)' \/ Agree(q, d)' \/ mtime'[d] > Age(q)'
        /\ phase'[q] = "loaded" => Agree(q, d)' \/ Age(d)' <= Age(q)'
    BY <1>1 DEF Settling
  <2>1. d \in Pkgs /\ Age(d) \in Nat /\ Age(q) \in Nat /\ mtime[d] \in Nat
    BY IncrementalAssumptions, AgeFacts DEF IInv, TypeOK
  <2>2. /\ phase'[d] = "link" /\ Sound(d)' => Agree(q, d)' \/ lib'[d].mtime > Age(q)'
        /\ phase'[d] = "loaded" => mtime'[d] = Age(d)' \/ Agree(q, d)' \/ mtime'[d] > Age(q)'
    BY <1>1, <1>2, <1>3, <2>1, SameDisk DEF IInv, Settling, MemoryOK, Sound
  <2>3. CASE q = p /\ ~Stale(p)
    <3>1. mtime[d] = Age(d) \/ Agree(p, d) \/ mtime[d] > Age(p)
      BY <1>11, <2>3 DEF IInv, Settling
    <3>2. Agree(p, d) \/ Age(d) <= Age(p)
      BY <1>11, <2>1, <2>3, <3>1
    <3> QED BY <2>1, <2>2, <2>3, <3>2, SameDisk, <1>1
  <2>4. CASE q # p \/ Stale(p)
    BY <1>1, <1>2, <1>3, <2>1, <2>2, <2>4, SameDisk DEF IInv, Settling
  <2> QED BY <2>3, <2>4
<1>13. Settled'
  <2> SUFFICES ASSUME streak.settled >= 2
               PROVE  Settled'
    BY <1>1 DEF Settled
  <2>1. streak.n >= 1 /\ streak.top = top /\ NeededBy[top] \subseteq Pkgs
    BY <1>1, <1>5, NeededFacts DEF IInv, TypeOK, RunOrder
  <2>2. ~Stale(p)
    <3> SUFFICES ASSUME NEW d \in Imports[p], mtime[d] > mtime[p]
                 PROVE  ~ApiChanged(p, d)
      BY DEF Stale
    <3>1. /\ d \in Pkgs /\ phase[d] = "loaded" /\ api[d] = meta[d].api /\ mtime[p] = Age(p)
          /\ Age(d) \in Nat /\ Age(p) \in Nat /\ mtime[d] \in Nat
      BY <1>1, AgeFacts, IncrementalAssumptions DEF ImportsLoaded, IInv, MemoryOK, TypeOK
    <3>2. Agree(p, d) \/ Age(d) <= Age(p)
      BY <1>5, <2>1 DEF IInv, Settled
    <3>3. mtime[d] = Age(d)
      BY <1>1, <1>5, <2>1, <3>1 DEF IInv, Settled, RunOrder
    <3> QED BY <3>1, <3>2, <3>3 DEF Agree, ApiChanged
  <2>4. \A q \in NeededBy[streak.top] : \A d \in Imports[q] :
          Agree(q, d)' \/ Age(d)' <= Age(q)'
    BY <1>1, <1>2, <1>3, <2>1, <2>2, SameDisk, IncrementalAssumptions DEF IInv, Settled, MemoryOK
  <2>5. ASSUME NEW q \in Pkgs \ {top}
        PROVE  /\ phase'[q] \in {"idle", "deps", "loaded"}
               /\ phase'[q] = "loaded" => mtime'[q] = Age(q)'
    BY <1>1, <1>2, <1>3, <2>1, <2>2, SameDisk, IncrementalAssumptions DEF IInv, Settled, MemoryOK
  <2> QED BY <1>1, <2>4, <2>5 DEF Settled
<1> QED BY <1>4, <1>6, <1>7, <1>8, <1>9, <1>10, <1>12, <1>13 DEF IInv

\* The sources are parsed.
LEMMA ParseStep ==
  ASSUME IInv, NEW p \in Pkgs, Parse(p)
  PROVE  IInv'
<1>1. /\ UNCHANGED <<clock, src, meta, lib, top, mtime, api, streak, raced, torn, edits>>
      /\ phase[p] = "parse" /\ top # NoPkg /\ UNCHANGED disk
  BY DEF Parse, disk, history
<1>2. phase'[p] = "import" /\ parsed'[p] = src[p]
  BY DEF Parse, IInv, TypeOK
<1>3. \A q \in Pkgs : q # p => phase'[q] = phase[q] /\ parsed'[q] = parsed[q]
  BY DEF Parse, IInv, TypeOK
<1>4. TypeOK'
  <2>1. /\ phase' \in [Pkgs -> {"idle", "deps", "parse", "import", "link", "loaded"}]
        /\ parsed' \in [Pkgs -> Sources]
    BY DEF Parse, IInv, TypeOK
  <2> QED BY <1>1, <2>1 DEF IInv, TypeOK
<1>5. ClockAhead' /\ ParsedOlder' /\ Linking'
  <2>1. \A f \in Files : src[p][f].mtime <= clock /\ src[p][f].mtime \in Nat
    BY DEF IInv, TypeOK, ClockAhead, Sources, SourceFiles, Absent
  <2> QED BY <1>1, <1>2, <1>3, <2>1 DEF IInv, ClockAhead, ParsedOlder, Linking, Names, API
<1>6. RunOrder'
  <2>1. ASSUME NEW q \in Pkgs, phase'[q] \in {"link", "loaded"}
        PROVE  ImportsLoaded(q)'
    <3>1. ImportsLoaded(q)
      BY <1>2, <1>3, <2>1 DEF IInv, RunOrder
    <3> QED BY <1>1, <1>3, <3>1, IncrementalAssumptions DEF ImportsLoaded
  <2>2. phase'[top] \in {"parse", "import", "link"} /\ top \in Pkgs
    BY <1>1, <1>2, <1>3, IncrementalAssumptions DEF IInv, RunOrder, TypeOK
  <2> QED BY <1>1, <1>3, <2>1, <2>2 DEF IInv, RunOrder
<1>7. MemoryOK'
  BY <1>1, <1>2, <1>3, SameDisk DEF IInv, MemoryOK
<1>8. Products' /\ DepsNoticed' /\ AllUpToDate' /\ SourcesCurrent' /\ ApisCurrentAfterTwo'
  BY <1>1, <1>2, <1>3, <1>4, NothingWritten
<1>9. Undisturbed'
  BY <1>1, <1>2, <1>3, SameDisk DEF IInv, Undisturbed
<1>10. Settling'
  <2> SUFFICES ASSUME top # NoPkg, streak.settled >= 1,
                      NEW q \in Pkgs, NEW d \in Imports[q], meta[q].ok
               PROVE
        /\ phase'[d] = "link" /\ Sound(d)' => Agree(q, d)' \/ lib'[d].mtime > Age(q)'
        /\ phase'[d] = "loaded" => mtime'[d] = Age(d)' \/ Agree(q, d)' \/ mtime'[d] > Age(q)'
        /\ phase'[q] = "loaded" => Agree(q, d)' \/ Age(d)' <= Age(q)'
    BY <1>1 DEF Settling
  <2>1. d \in Pkgs
    BY IncrementalAssumptions
  <2> QED BY <1>1, <1>2, <1>3, <2>1, SameDisk DEF IInv, Settling, Sound
<1>11. Settled'
  <2> SUFFICES ASSUME streak.settled >= 2
               PROVE  Settled'
    BY <1>1 DEF Settled
  <2>1. streak.top \in Pkgs /\ NeededBy[streak.top] \subseteq Pkgs /\ p = top
    BY <1>1, NeededFacts DEF IInv, TypeOK, RunOrder, Settled
  <2>2. \A q \in NeededBy[streak.top] : \A d \in Imports[q] :
          Agree(q, d)' \/ Age(d)' <= Age(q)'
    BY <1>1, <2>1, SameDisk, IncrementalAssumptions DEF IInv, Settled
  <2>3. ASSUME NEW q \in Pkgs \ {top}
        PROVE  /\ phase'[q] \in {"idle", "deps", "loaded"}
               /\ phase'[q] = "loaded" => mtime'[q] = Age(q)'
    BY <1>1, <1>3, <2>1, SameDisk DEF IInv, Settled
  <2> QED BY <1>1, <2>2, <2>3 DEF Settled
<1> QED BY <1>4, <1>5, <1>6, <1>7, <1>8, <1>9, <1>10, <1>11 DEF IInv

\* compis is started.
LEMMA StartStep ==
  ASSUME IInv, NEW t \in Tops, Start(t)
  PROVE  IInv'
<1>1. /\ UNCHANGED <<clock, src, meta, lib, parsed, mtime, api, raced, torn, edits>>
      /\ top = NoPkg /\ top' = t /\ t \in Pkgs /\ t # NoPkg /\ UNCHANGED disk
  BY IncrementalAssumptions DEF Start, disk
<1>2. phase'[t] = "parse" /\ \A q \in Pkgs : phase[q] = "idle"
  BY <1>1 DEF Start, IInv, TypeOK, RunOrder
<1>3. \A q \in Pkgs : q # t => phase'[q] = "idle"
  BY <1>1 DEF Start, IInv, TypeOK, RunOrder
<1>4. \/ streak' = streak /\ streak.top = t
      \/ streak'.n = 0 /\ streak'.settled = 0 /\ streak' = NoStreak
  BY DEF Start, NoStreak, Streak
<1>5. TypeOK'
  <2>1. phase' \in [Pkgs -> {"idle", "deps", "parse", "import", "link", "loaded"}]
    BY DEF Start, IInv, TypeOK
  <2>2. streak' \in [top : Pkgs \cup {NoPkg}, n : Int, settled : Int]
    BY <1>4 DEF IInv, TypeOK, NoStreak, Streak
  <2> QED BY <1>1, <2>1, <2>2 DEF IInv, TypeOK
<1>6. /\ ClockAhead' /\ ParsedOlder' /\ Linking' /\ MemoryOK' /\ Undisturbed'
  BY <1>1, <1>2, <1>3 DEF IInv, ClockAhead, ParsedOlder, Linking, MemoryOK, Undisturbed
<1>7. RunOrder'
  <2>1. \A q \in Pkgs : phase'[q] # "idle" => q \in NeededBy[t]
    BY <1>1, <1>3, NeededFacts
  <2> QED BY <1>1, <1>2, <1>3, <1>4, <2>1 DEF IInv, TypeOK, RunOrder
<1>8. Products' /\ DepsNoticed' /\ AllUpToDate' /\ SourcesCurrent' /\ ApisCurrentAfterTwo'
  <2>1. \A q \in Pkgs : phase'[q] = "link" <=> phase[q] = "link"
    BY <1>2, <1>3
  <2> QED BY <1>1, <1>4, <1>5, <2>1, NothingWritten
<1>9. Settling'
  BY <1>1, <1>2, <1>3, IncrementalAssumptions DEF Settling
<1>10. Settled'
  <2> SUFFICES ASSUME streak.settled >= 2, streak' = streak
               PROVE  Settled'
    BY <1>4 DEF Settled
  <2>1. streak.top \in Pkgs /\ NeededBy[streak.top] \subseteq Pkgs
    BY NeededFacts DEF IInv, TypeOK, RunOrder
  <2>2. \A q \in NeededBy[streak.top] : \A d \in Imports[q] :
          Agree(q, d)' \/ Age(d)' <= Age(q)'
    BY <1>1, <2>1, SameDisk, IncrementalAssumptions DEF IInv, Settled
  <2> QED BY <1>1, <1>3, <2>2 DEF Settled
<1> QED BY <1>5, <1>6, <1>7, <1>8, <1>9, <1>10 DEF IInv

\* Nothing happens.
LEMMA Stutter ==
  ASSUME IInv, UNCHANGED vars
  PROVE  IInv'
BY DEF IInv, vars, disk, run, history, TypeOK, ClockAhead, RunOrder, MemoryOK, ParsedOlder,
       Linking, Products, DepsNoticed, Undisturbed, AllUpToDate, Settling, Settled,
       SourcesCurrent, ApisCurrentAfterTwo, CompiledAgainst, ImportsLoaded, Age, UpToDate,
       SrcUpToDate, Old, Matches, Agree, Sound

\* The user writes or removes a source file.
LEMMA EditStep ==
  ASSUME IInv, NEW p \in Pkgs, Edit(p)
  PROVE  IInv'
<1>1. /\ UNCHANGED <<meta, lib, top, phase, parsed, mtime, api, raced, torn>>
      /\ clock' = clock + 1 /\ edits' = edits + 1 /\ streak' = Interrupted
      /\ clock \in Nat /\ edits \in Nat
  BY DEF Edit, run, Tick, IInv, TypeOK
<1>2. /\ src' \in [Pkgs -> Sources]
      /\ \A q \in Pkgs, g \in Files :
           \/ src'[q][g] = src[q][g] \/ src'[q][g].mtime = 0 \/ src'[q][g].mtime = clock + 1
  <2>1. PICK f \in Files : \E x \in SourceFiles : /\ src' = [src EXCEPT ![p][f] = x]
                                                  /\ x.mtime = 0 \/ x.mtime = clock + 1
    <3>1. PICK f \in Files :
            \/ \E a \in {src[p][f].decl, edits'} :
                 src' = [src EXCEPT ![p][f] = [mtime |-> clock', decl |-> a]]
            \/ src' = [src EXCEPT ![p][f] = Absent]
      BY DEF Edit
    <3>2. src[p][f].decl \in Nat
      BY DEF IInv, TypeOK, Sources, SourceFiles, Absent
    <3>3. \A a \in Nat : [mtime |-> clock', decl |-> a] \in SourceFiles
      BY <1>1 DEF SourceFiles
    <3>4. Absent \in SourceFiles /\ Absent.mtime = 0
      BY DEF SourceFiles, Absent
    <3>5. CASE src' = [src EXCEPT ![p][f] = Absent]
      BY <3>4, <3>5
    <3>6. ASSUME NEW a \in {src[p][f].decl, edits'},
                 src' = [src EXCEPT ![p][f] = [mtime |-> clock', decl |-> a]]
          PROVE  \E x \in SourceFiles : /\ src' = [src EXCEPT ![p][f] = x]
                                        /\ x.mtime = 0 \/ x.mtime = clock + 1
      <4>1. a \in Nat
        BY <1>1, <3>2
      <4> QED BY <1>1, <3>3, <3>6, <4>1
    <3> QED BY <3>1, <3>5, <3>6
  <2>2. PICK x \in SourceFiles : /\ src' = [src EXCEPT ![p][f] = x]
                                 /\ x.mtime = 0 \/ x.mtime = clock + 1
    BY <2>1
  <2>3. src \in [Pkgs -> [Files -> SourceFiles]]
    BY DEF IInv, TypeOK, Sources
  <2>4. src' \in [Pkgs -> [Files -> SourceFiles]]
    BY <2>2, <2>3
  <2> QED BY <2>2, <2>3, <2>4 DEF Sources
<1>3. /\ streak'.n <= 0 /\ streak'.n >= -1 /\ streak'.settled <= 0 /\ streak'.settled = streak'.n
      /\ top # NoPkg => streak'.n = -1
      /\ streak' \in [top : Pkgs \cup {NoPkg}, n : Int, settled : Int]
  BY <1>1 DEF Interrupted, NoStreak, Streak
<1>4. TypeOK'
  BY <1>1, <1>2, <1>3 DEF IInv, TypeOK
<1>5. \A q \in Pkgs : Age(q)' = Age(q) /\ Age(q) <= clock
  BY <1>1, AgeFacts DEF IInv, TypeOK, ClockAhead, Age
<1>6. \A q \in Pkgs, g \in Files : src[q][g].mtime \in Nat /\ parsed[q][g].mtime \in Nat
  BY DEF IInv, TypeOK, Sources, SourceFiles, Absent
<1>7. ClockAhead'
  <2> SUFFICES ASSUME NEW q \in Pkgs
               PROVE  /\ meta[q].mtime <= clock + 1 /\ lib[q].mtime <= clock + 1
                      /\ \A g \in Files : src'[q][g].mtime <= clock + 1 /\ parsed[q][g].mtime <= clock + 1
    BY <1>1 DEF ClockAhead
  <2>1. /\ meta[q].mtime <= clock /\ lib[q].mtime <= clock
        /\ meta[q].mtime \in Nat /\ lib[q].mtime \in Nat
        /\ \A g \in Files : src[q][g].mtime <= clock /\ parsed[q][g].mtime <= clock
    BY DEF IInv, ClockAhead, TypeOK
  <2> QED BY <1>1, <1>2, <1>6, <2>1
<1>8. RunOrder' /\ MemoryOK'
  BY <1>1, <1>3, <1>5 DEF IInv, RunOrder, MemoryOK, ImportsLoaded
<1>9. ParsedOlder'
  <2> SUFFICES ASSUME NEW q \in Pkgs, phase[q] \in {"import", "link"}, NEW g \in Files
               PROVE  src'[q][g].mtime = 0 \/ src'[q][g].mtime >= parsed[q][g].mtime
    BY <1>1 DEF ParsedOlder
  <2>1. /\ parsed[q][g].mtime <= clock
        /\ src[q][g].mtime = 0 \/ src[q][g].mtime >= parsed[q][g].mtime
    BY DEF IInv, ClockAhead, ParsedOlder
  <2>2. clock + 1 >= parsed[q][g].mtime
    BY <1>1, <1>6, <2>1
  <2> QED BY <1>2, <2>1, <2>2
<1>10. Linking'
  <2> SUFFICES ASSUME NEW q \in Pkgs, phase[q] = "link", q \notin raced, NEW g \in Files
               PROVE  \/ src'[q][g] = parsed[q][g] \/ src'[q][g].mtime = 0
                      \/ src'[q][g].mtime > meta[q].mtime
    BY <1>1 DEF IInv, Linking, Names
  <2>1. meta[q].mtime < clock + 1
    BY DEF IInv, TypeOK, ClockAhead
  <2> QED BY <1>2, <2>1 DEF IInv, Linking
<1>11. ASSUME NEW q \in Pkgs, Old(q)
       PROVE  Old(q)'
  <2>1. PICK f \in meta[q].files : src[q][f].mtime = 0 \/ src[q][f].mtime > lib[q].mtime
    BY <1>11 DEF Old
  <2>2. f \in Files /\ lib[q].mtime < clock + 1
    BY DEF IInv, TypeOK, ClockAhead
  <2> QED BY <1>1, <1>2, <2>1, <2>2 DEF Old
<1>12. Products'
  <2> SUFFICES ASSUME NEW q \in Pkgs, Sound(q), meta[q].ok, phase[q] # "link"
               PROVE  Old(q)' \/ Matches(q)'
    BY <1>1 DEF Products, Sound
  <2>1. CASE Matches(q)
    <3>1. ASSUME NEW g \in Files
          PROVE  \/ src'[q][g] = lib[q].made[g] \/ src'[q][g].mtime = 0
                 \/ src'[q][g].mtime > Age(q)
      <4>1. Age(q) < clock + 1
        BY <1>5, AgeFacts DEF IInv, TypeOK
      <4> QED BY <1>2, <2>1, <4>1 DEF Matches
    <3> QED BY <1>1, <1>5, <2>1, <3>1 DEF Matches, Names
  <2> QED BY <1>11, <2>1 DEF IInv, Products
<1>13. DepsNoticed'
  <2> SUFFICES ASSUME NEW q \in Pkgs, NEW d \in Imports[q], meta'[q].ok
               PROVE  \/ Agree(q, d)' \/ Age(d)' > Age(q)'
                      \/ phase'[d] = "link" \/ d \in torn' \/ ~meta'[d].ok \/ Old(d)'
    BY DEF DepsNoticed
  <2>1. d \in Pkgs
    BY IncrementalAssumptions
  <2> QED BY <1>1, <1>5, <1>11, <2>1 DEF IInv, DepsNoticed, Agree
<1>14. /\ Undisturbed' /\ AllUpToDate' /\ Settling' /\ Settled'
       /\ SourcesCurrent' /\ ApisCurrentAfterTwo'
  BY <1>1, <1>3 DEF TypeOK, Undisturbed, AllUpToDate, Settling, Settled,
                    SourcesCurrent, ApisCurrentAfterTwo, CompiledAgainst
<1> QED BY <1>4, <1>7, <1>8, <1>9, <1>10, <1>12, <1>13, <1>14 DEF IInv

\* The metafile that is written describes what was parsed.
LEMMA MetafileType ==
  ASSUME TypeOK, NEW p \in Pkgs, NEW ok \in BOOLEAN, clock' = clock + 1
  PROVE  /\ Metafile(p, ok) \in [mtime : Nat, ok : BOOLEAN, api : APIs, files : SUBSET Files, deps : DepAPIs]
         /\ API(parsed[p]) \in APIs
<1>1. [d \in Imports[p] |-> api[d]] \in DepAPIs
  <2>1. [d \in Imports[p] |-> api[d]] \in [Imports[p] -> APIs]
    BY IncrementalAssumptions DEF TypeOK
  <2> QED BY <2>1 DEF DepAPIs
<1>2. API(parsed[p]) \in APIs
  BY DEF TypeOK, API, APIs, Sources, SourceFiles, Absent
<1>3. Registered(parsed[p]) \subseteq Files
  BY DEF Registered, Names
<1>4. clock' \in Nat
  BY DEF TypeOK
<1> QED BY <1>1, <1>2, <1>3, <1>4 DEF Metafile

\* The run dies.
LEMMA CrashStep ==
  ASSUME IInv, Crash
  PROVE  IInv'
<1>1. /\ UNCHANGED <<src, lib, raced, edits>>
      /\ clock' = clock + 1 /\ clock \in Nat
      /\ top' = NoPkg /\ streak' = NoStreak
      /\ phase' = [q \in Pkgs |-> "idle"] /\ parsed' = [q \in Pkgs |-> NoSource]
      /\ mtime' = [q \in Pkgs |-> 0] /\ api' = [q \in Pkgs |-> API(NoSource)]
      /\ torn' = torn \cup {q \in Pkgs : /\ phase[q] = "link"
                                         /\ \A f \in Files : parsed[q][f].mtime <= lib[q].mtime}
  BY DEF Crash, Exit, Tick, IInv, TypeOK
<1>2. /\ meta' \in [Pkgs -> [mtime : Nat, ok : BOOLEAN, api : APIs, files : SUBSET Files, deps : DepAPIs]]
      /\ \A q \in Pkgs : meta'[q] = meta[q] \/ (meta'[q].ok = FALSE /\ meta'[q].mtime = clock + 1)
  <2>1. CASE UNCHANGED meta
    BY <2>1 DEF IInv, TypeOK
  <2>2. ASSUME NEW p \in Pkgs, meta' = [meta EXCEPT ![p] = Metafile(p, FALSE)]
        PROVE  <1>2!1 /\ <1>2!2
    <3>1. Metafile(p, FALSE).ok = FALSE /\ Metafile(p, FALSE).mtime = clock + 1
      BY <1>1 DEF Metafile
    <3>2. Metafile(p, FALSE) \in [mtime : Nat, ok : BOOLEAN, api : APIs, files : SUBSET Files, deps : DepAPIs]
      BY <1>1, MetafileType DEF IInv
    <3> QED BY <2>2, <3>1, <3>2 DEF IInv, TypeOK
  <2> QED BY <2>1, <2>2 DEF Crash
<1>3. /\ NoSource \in Sources /\ API(NoSource) \in APIs
      /\ \A f \in Files : NoSource[f].mtime = 0
  BY DEF NoSource, Sources, SourceFiles, Absent, API, APIs
<1>4. TypeOK'
  <2>1. /\ phase' \in [Pkgs -> {"idle", "deps", "parse", "import", "link", "loaded"}]
        /\ parsed' \in [Pkgs -> Sources] /\ mtime' \in [Pkgs -> Nat] /\ api' \in [Pkgs -> APIs]
    BY <1>1, <1>3
  <2>2. streak' \in [top : Pkgs \cup {NoPkg}, n : Int, settled : Int]
    BY <1>1 DEF NoStreak, Streak
  <2> QED BY <1>1, <1>2, <2>1, <2>2 DEF IInv, TypeOK
<1>5. ClockAhead'
  <2> SUFFICES ASSUME NEW q \in Pkgs
               PROVE  /\ meta'[q].mtime <= clock + 1 /\ lib[q].mtime <= clock + 1
                      /\ \A g \in Files : src[q][g].mtime <= clock + 1 /\ parsed'[q][g].mtime <= clock + 1
    BY <1>1 DEF ClockAhead
  <2>1. /\ meta[q].mtime <= clock /\ lib[q].mtime <= clock
        /\ meta[q].mtime \in Nat /\ lib[q].mtime \in Nat
        /\ \A g \in Files : src[q][g].mtime <= clock /\ src[q][g].mtime \in Nat
    BY DEF IInv, ClockAhead, TypeOK, Sources, SourceFiles, Absent
  <2> QED BY <1>1, <1>2, <1>3, <2>1
<1>6. /\ RunOrder' /\ MemoryOK' /\ ParsedOlder' /\ Linking' /\ Undisturbed'
      /\ AllUpToDate' /\ Settling' /\ Settled' /\ SourcesCurrent' /\ ApisCurrentAfterTwo'
  BY <1>1 DEF NoStreak, Streak, RunOrder, MemoryOK, ParsedOlder, Linking, Undisturbed,
              AllUpToDate, Settling, Settled, SourcesCurrent, ApisCurrentAfterTwo, CompiledAgainst
<1>7. ASSUME NEW q \in Pkgs, meta'[q] = meta[q]
      PROVE  /\ Age(q)' = Age(q) /\ Old(q)' = Old(q) /\ Matches(q)' = Matches(q)
  BY <1>1, <1>7 DEF Age, Old, Matches
<1>8. ASSUME NEW q \in Pkgs, phase[q] = "link"
      PROVE  q \in torn' \/ Old(q)
  <2> SUFFICES ASSUME q \notin torn' PROVE Old(q)
    OBVIOUS
  <2>1. PICK f \in Files : ~(parsed[q][f].mtime <= lib[q].mtime)
    BY <1>1, <1>8
  <2>2. parsed[q][f].mtime \in Nat /\ src[q][f].mtime \in Nat /\ lib[q].mtime \in Nat
    BY DEF IInv, TypeOK, Sources, SourceFiles, Absent
  <2>3. f \in meta[q].files
    BY <1>8, <2>1, <2>2 DEF IInv, Linking, Names
  <2>4. src[q][f].mtime = 0 \/ src[q][f].mtime >= parsed[q][f].mtime
    BY <1>8 DEF IInv, ParsedOlder
  <2> QED BY <2>1, <2>2, <2>3, <2>4 DEF Old
<1>9. Products'
  <2> SUFFICES ASSUME NEW q \in Pkgs, Sound(q)', meta'[q].ok
               PROVE  Old(q)' \/ Matches(q)'
    BY DEF Products
  <2>1. meta'[q] = meta[q]
    BY <1>2
  <2>2. Sound(q) /\ q \notin torn'
    BY <1>1 DEF Sound
  <2> QED BY <1>7, <1>8, <2>1, <2>2 DEF IInv, Products
<1>10. DepsNoticed'
  <2> SUFFICES ASSUME NEW q \in Pkgs, NEW d \in Imports[q], meta'[q].ok, meta'[d].ok, d \notin torn'
               PROVE  Agree(q, d)' \/ Age(d)' > Age(q)' \/ Old(d)'
    BY DEF DepsNoticed
  <2>1. d \in Pkgs
    BY IncrementalAssumptions
  <2>2. meta'[q] = meta[q] /\ meta'[d] = meta[d] /\ d \notin torn
    BY <1>1, <1>2, <2>1
  <2>3. Agree(q, d)' = Agree(q, d)
    BY <2>2 DEF Agree
  <2> QED BY <1>7, <1>8, <2>1, <2>2, <2>3 DEF IInv, DepsNoticed
<1> QED BY <1>4, <1>5, <1>6, <1>9, <1>10 DEF IInv

-----------------------------------------------------------------------------
\* check_pkg_src_uptodate can be relied upon.
LEMMA CurrentProducts ==
  ASSUME IInv, NEW p \in Pkgs, Sound(p), UpToDate(p), phase[p] # "link"
  PROVE  /\ lib[p].made = src[p] /\ meta[p].api = API(src[p]) /\ meta[p].deps = lib[p].deps
         /\ meta[p].ok /\ ~Old(p)
<1>1. /\ meta[p].ok /\ Names(src[p]) = meta[p].files
      /\ \A f \in Files : src[p][f].mtime <= Age(p)
  BY DEF UpToDate, SrcUpToDate
<1>2. /\ src[p] \in [Files -> SourceFiles] /\ lib[p].made \in [Files -> SourceFiles]
      /\ \A f \in Files : src[p][f].mtime \in Nat /\ lib[p].made[f].mtime \in Nat
      /\ Age(p) \in Nat /\ Age(p) <= lib[p].mtime /\ lib[p].mtime \in Nat
  <2>1. src[p] \in [Files -> SourceFiles] /\ lib[p].made \in [Files -> SourceFiles]
    BY DEF IInv, TypeOK, Sources
  <2>2. \A x \in SourceFiles : x.mtime \in Nat
    BY DEF SourceFiles, Absent
  <2>3. Age(p) \in Nat /\ Age(p) <= lib[p].mtime /\ lib[p].mtime \in Nat
    BY AgeFacts DEF IInv, TypeOK
  <2> QED BY <2>1, <2>2, <2>3
<1>3. ~Old(p)
  BY <1>1, <1>2 DEF Old, Names
<1>4. Matches(p)
  BY <1>1, <1>3 DEF IInv, Products
<1>5. ASSUME NEW f \in Files PROVE src[p][f] = lib[p].made[f]
  <2>1. CASE src[p][f].mtime > 0
    BY <1>1, <1>2, <1>4, <2>1 DEF Matches
  <2>2. CASE src[p][f].mtime = 0
    <3>1. f \notin Names(lib[p].made)
      BY <1>1, <1>4, <2>2 DEF Matches, Names
    <3>2. lib[p].made[f].mtime = 0
      BY <1>2, <3>1 DEF Names
    <3> QED BY <1>2, <2>2, <3>2 DEF SourceFiles
  <2> QED BY <1>2, <2>1, <2>2
<1>6. lib[p].made = src[p]
  BY <1>2, <1>5
<1> QED BY <1>1, <1>3, <1>4, <1>6 DEF Matches

\* When the top-level package has its imports, the run has nothing else to do.
LEMMA AllLoaded ==
  ASSUME IInv, top # NoPkg, ImportsLoaded(top)
  PROVE  /\ top \in Pkgs /\ top \in NeededBy[top] /\ NeededBy[top] \subseteq Pkgs
         /\ \A q \in NeededBy[top] \ {top} : phase[q] = "loaded"
         /\ \A q \in NeededBy[top] : ImportsLoaded(q) /\ top \notin Imports[q]
         /\ \A q \in Pkgs : phase[q] = "link" => q = top
<1>1. top \in Pkgs /\ phase[top] # "loaded"
  BY IncrementalAssumptions DEF IInv, TypeOK, RunOrder
<1> DEFINE S == {q \in Pkgs : q = top \/ phase[q] = "loaded"}
<1>2. \A q \in S : ImportsLoaded(q)
  BY DEF IInv, RunOrder
<1>3. Closed(S)
  BY <1>2, IncrementalAssumptions DEF Closed, ImportsLoaded
<1>4. NeededBy[top] \subseteq S /\ top \in NeededBy[top]
  BY <1>1, <1>3, NeededFacts
<1> QED BY <1>1, <1>2, <1>4 DEF ImportsLoaded, IInv, RunOrder

\* The metafile is written.
LEMMA MetaStep ==
  ASSUME IInv, NEW p \in Pkgs, Meta(p)
  PROVE  IInv'
<1>1. /\ UNCHANGED <<src, lib, top, parsed, mtime, edits, streak, torn>>
      /\ clock' = clock + 1 /\ clock \in Nat
      /\ top # NoPkg /\ phase[p] = "import" /\ ImportsLoaded(p)
      /\ raced \subseteq raced' /\ raced' \subseteq raced \cup {p}
      /\ p \notin raced' => parsed[p] = src[p]
  BY DEF Meta, Tick, IInv, TypeOK
<1>2. /\ meta' \in [Pkgs -> [mtime : Nat, ok : BOOLEAN, api : APIs, files : SUBSET Files, deps : DepAPIs]]
      /\ \A q \in Pkgs : q # p => meta'[q] = meta[q]
      /\ meta'[p].ok /\ meta'[p].mtime = clock + 1 /\ meta'[p].api = API(parsed[p])
      /\ meta'[p].files = Names(parsed[p]) /\ \A d \in Imports[p] : meta'[p].deps[d] = api[d]
  <2>1. Metafile(p, TRUE) \in [mtime : Nat, ok : BOOLEAN, api : APIs, files : SUBSET Files, deps : DepAPIs]
    BY <1>1, MetafileType DEF IInv
  <2>2. /\ meta' \in [Pkgs -> [mtime : Nat, ok : BOOLEAN, api : APIs, files : SUBSET Files, deps : DepAPIs]]
        /\ \A q \in Pkgs : q # p => meta'[q] = meta[q]
        /\ meta'[p] = Metafile(p, TRUE)
    BY <2>1 DEF Meta, IInv, TypeOK
  <2>3. /\ Metafile(p, TRUE).ok = TRUE /\ Metafile(p, TRUE).mtime = clock + 1
        /\ Metafile(p, TRUE).api = API(parsed[p]) /\ Metafile(p, TRUE).files = Names(parsed[p])
        /\ \A d \in Imports[p] : Metafile(p, TRUE).deps[d] = api[d]
    BY <1>1 DEF Metafile, Registered
  <2> QED BY <2>2, <2>3
<1>3. /\ phase' \in [Pkgs -> {"idle", "deps", "parse", "import", "link", "loaded"}]
      /\ phase'[p] = "link" /\ \A q \in Pkgs : q # p => phase'[q] = phase[q]
  BY DEF Meta, IInv, TypeOK
<1>4. /\ api' \in [Pkgs -> APIs]
      /\ api'[p] = API(parsed[p]) /\ \A q \in Pkgs : q # p => api'[q] = api[q]
  <2>1. API(parsed[p]) \in APIs
    BY <1>1, MetafileType DEF IInv
  <2> QED BY <2>1 DEF Meta, IInv, TypeOK
<1>5. TypeOK'
  BY <1>1, <1>2, <1>3, <1>4 DEF IInv, TypeOK
<1>6. \A d \in Imports[p] : d \in Pkgs /\ d # p /\ phase[d] = "loaded" /\ api[d] = meta[d].api
  BY <1>1, IncrementalAssumptions DEF ImportsLoaded, IInv, MemoryOK
<1>7. \A d \in Imports[p] : Agree(p, d)'
  BY <1>2, <1>6 DEF Agree
<1>8. ASSUME NEW q \in Pkgs, q # p
      PROVE  /\ Age(q)' = Age(q) /\ (UpToDate(q)' <=> UpToDate(q))
             /\ (Old(q)' <=> Old(q)) /\ (Matches(q)' <=> Matches(q))
             /\ \A d \in Pkgs : d # p => (Agree(q, d)' <=> Agree(q, d))
  BY <1>1, <1>2, <1>8 DEF Age, UpToDate, SrcUpToDate, Old, Matches, Agree
<1>9. \A q \in Pkgs : Imports[q] \subseteq Pkgs
  BY IncrementalAssumptions
<1>10. ClockAhead'
  <2> SUFFICES ASSUME NEW q \in Pkgs
               PROVE  /\ meta'[q].mtime <= clock + 1 /\ lib[q].mtime <= clock + 1
                      /\ \A g \in Files : src[q][g].mtime <= clock + 1 /\ parsed[q][g].mtime <= clock + 1
    BY <1>1 DEF ClockAhead
  <2>1. /\ meta[q].mtime <= clock /\ lib[q].mtime <= clock
        /\ meta[q].mtime \in Nat /\ lib[q].mtime \in Nat
        /\ \A g \in Files : /\ src[q][g].mtime <= clock /\ src[q][g].mtime \in Nat
                            /\ parsed[q][g].mtime <= clock /\ parsed[q][g].mtime \in Nat
    BY DEF IInv, ClockAhead, TypeOK, Sources, SourceFiles, Absent
  <2> QED BY <1>1, <1>2, <2>1
<1>11. RunOrder'
  <2>1. ASSUME NEW q \in Pkgs, phase'[q] \in {"link", "loaded"}
        PROVE  ImportsLoaded(q)'
    <3>1. ImportsLoaded(q)
      BY <1>1, <1>3, <2>1 DEF IInv, RunOrder
    <3> QED BY <1>1, <1>3, <1>9, <3>1 DEF ImportsLoaded
  <2>2. top \in Pkgs /\ phase'[top] \in {"parse", "import", "link"}
    BY <1>1, <1>3, IncrementalAssumptions DEF IInv, RunOrder, TypeOK
  <2> QED BY <1>1, <1>3, <2>1, <2>2 DEF IInv, RunOrder
<1>12. MemoryOK' /\ ParsedOlder'
  BY <1>1, <1>2, <1>3, <1>4, <1>8 DEF IInv, MemoryOK, ParsedOlder
<1>13. Linking'
  <2> SUFFICES ASSUME NEW q \in Pkgs, phase'[q] = "link"
               PROVE
        /\ meta'[q].ok /\ meta'[q].mtime > 0
        /\ meta'[q].files = Names(parsed[q]) /\ meta'[q].api = API(parsed[q])
        /\ \A f \in Files : parsed[q][f].mtime <= meta'[q].mtime
        /\ \A d \in Imports[q] : meta'[q].deps[d] = meta'[d].api
        /\ q \notin raced' =>
             \A f \in Files : \/ src[q][f] = parsed[q][f] \/ src[q][f].mtime = 0
                              \/ src[q][f].mtime > meta'[q].mtime
        /\ \A r \in Pkgs : q \in Imports[r] => meta'[r].mtime < meta'[q].mtime
    BY <1>1 DEF Linking, Names, API
  <2>1. CASE q = p
    <3>1. \A f \in Files : parsed[q][f].mtime <= clock + 1
      BY <1>1, <1>10 DEF ClockAhead
    <3>2. \A r \in Pkgs : p \in Imports[r] => r # p /\ meta[r].mtime < clock + 1
      BY <1>1, <1>6 DEF IInv, ClockAhead, TypeOK
    <3> QED BY <1>1, <1>2, <1>6, <2>1, <3>1, <3>2
  <2>2. CASE q # p
    <3>1. phase[q] = "link" /\ ImportsLoaded(q) /\ q \notin Imports[p]
      BY <1>3, <1>6, <2>2 DEF IInv, RunOrder
    <3>2. \A d \in Imports[q] : d \in Pkgs /\ d # p
      BY <1>1, <1>9, <3>1 DEF ImportsLoaded
    <3> QED BY <1>1, <1>2, <2>2, <3>1, <3>2 DEF IInv, Linking
  <2> QED BY <2>1, <2>2
<1>14. Products'
  <2> SUFFICES ASSUME NEW q \in Pkgs, Sound(q)', meta'[q].ok, phase'[q] # "link"
               PROVE  Old(q)' \/ Matches(q)'
    BY DEF Products
  <2> QED BY <1>1, <1>2, <1>3, <1>8 DEF IInv, Products, Sound
<1>15. DepsNoticed'
  <2> SUFFICES ASSUME NEW q \in Pkgs, NEW d \in Imports[q], meta'[q].ok
               PROVE  \/ Agree(q, d)' \/ Age(d)' > Age(q)'
                      \/ phase'[d] = "link" \/ d \in torn' \/ ~meta'[d].ok \/ Old(d)'
    BY DEF DepsNoticed
  <2>1. CASE q = p
    BY <1>7, <2>1
  <2>2. CASE q # p
    BY <1>1, <1>2, <1>3, <1>8, <1>9, <2>2 DEF IInv, DepsNoticed
  <2> QED BY <2>1, <2>2
<1>16. Undisturbed'
  BY <1>1, <1>3, <1>8 DEF IInv, Undisturbed
<1>17. AllUpToDate' /\ SourcesCurrent' /\ ApisCurrentAfterTwo'
  <2>1. streak.n >= 1 => NeededBy[streak.top] \subseteq Pkgs
    BY NeededFacts DEF IInv, RunOrder
  <2>2. AllUpToDate'
    BY <1>1, <1>3, <1>8, <2>1 DEF IInv, AllUpToDate
  <2>3. SourcesCurrent' /\ ApisCurrentAfterTwo'
    BY <1>1 DEF IInv, SourcesCurrent, ApisCurrentAfterTwo, CompiledAgainst, Sound
  <2> QED BY <2>2, <2>3
<1>18. ASSUME streak.settled >= 1
       PROVE  streak.n >= 1 /\ streak.top = top /\ parsed[p] = src[p] /\ UpToDate(p)
  BY <1>1, <1>18 DEF IInv, TypeOK, RunOrder, Undisturbed, AllUpToDate
<1>19. ASSUME streak.settled >= 1, NEW q \in Pkgs, p \in Imports[q], meta[q].ok, Sound(p)'
       PROVE  Agree(q, p)' \/ lib[p].mtime > Age(q)
  <2>1. Sound(p) /\ q # p
    BY <1>1, <1>6, <1>19 DEF Sound
  <2>2. meta[p].api = API(src[p]) /\ meta[p].ok /\ ~Old(p)
    BY <1>1, <1>18, <1>19, <2>1, CurrentProducts
  <2>3. Agree(q, p) \/ Age(p) > Age(q)
    BY <1>1, <1>19, <2>1, <2>2 DEF IInv, DepsNoticed, Sound
  <2>4. CASE Agree(q, p)
    BY <1>2, <1>18, <1>19, <2>1, <2>2, <2>4 DEF Agree
  <2>5. CASE Age(p) > Age(q)
    BY <2>5, AgeFacts DEF IInv, TypeOK
  <2> QED BY <2>3, <2>4, <2>5
<1>20. Settling'
  <2> SUFFICES ASSUME streak.settled >= 1, NEW q \in Pkgs, NEW d \in Imports[q], meta'[q].ok
               PROVE
        /\ phase'[d] = "link" /\ Sound(d)' => Agree(q, d)' \/ lib[d].mtime > Age(q)'
        /\ phase'[d] = "loaded" => mtime[d] = Age(d)' \/ Agree(q, d)' \/ mtime[d] > Age(q)'
        /\ phase'[q] = "loaded" => Agree(q, d)' \/ Age(d)' <= Age(q)'
    BY <1>1 DEF Settling
  <2>1. CASE q = p
    BY <1>7, <2>1
  <2>2. CASE q # p /\ d = p
    <3>1. phase[q] # "loaded"
      BY <1>1, <2>2 DEF IInv, RunOrder, ImportsLoaded
    <3> QED BY <1>2, <1>3, <1>8, <1>19, <2>2, <3>1
  <2>3. CASE q # p /\ d # p
    BY <1>1, <1>2, <1>3, <1>8, <1>9, <2>3 DEF IInv, Settling, Sound
  <2> QED BY <2>1, <2>2, <2>3
<1>21. Settled'
  <2> SUFFICES ASSUME streak.settled >= 2
               PROVE  Settled'
    BY <1>1 DEF Settled
  <2>1. streak.top = top /\ p = top
    BY <1>1, <1>18 DEF IInv, TypeOK, Settled
  <2>2. \A q \in NeededBy[top] : \A d \in Imports[q] : Agree(q, d)' \/ Age(d)' <= Age(q)'
    <3> SUFFICES ASSUME NEW q \in NeededBy[top], NEW d \in Imports[q]
                 PROVE  Agree(q, d)' \/ Age(d)' <= Age(q)'
      OBVIOUS
    <3>1. q \in Pkgs /\ d \in Pkgs /\ d # p
      BY <1>1, <1>9, <2>1, AllLoaded
    <3>2. CASE q = p
      BY <1>7, <3>2
    <3>3. CASE q # p
      BY <1>8, <2>1, <3>1, <3>3 DEF IInv, Settled
    <3> QED BY <3>2, <3>3
  <2>3. ASSUME NEW q \in Pkgs \ {top}
        PROVE  /\ phase'[q] \in {"idle", "deps", "loaded"}
               /\ phase'[q] = "loaded" => mtime[q] = Age(q)'
    BY <1>1, <1>3, <1>8, <2>1 DEF IInv, Settled
  <2> QED BY <1>1, <2>1, <2>2, <2>3 DEF Settled
<1> QED
  BY <1>5, <1>10, <1>11, <1>12, <1>13, <1>14, <1>15, <1>16, <1>17, <1>20, <1>21 DEF IInv

\* The library is written: what both ends of the step have in common.
LEMMA LinkEffect ==
  ASSUME IInv, NEW p \in Pkgs, Link(p)
  PROVE  /\ UNCHANGED <<src, meta, edits>> /\ clock' = clock + 1 /\ clock \in Nat
         /\ lib' \in [Pkgs -> [mtime : Nat, made : Sources, deps : DepAPIs]]
         /\ lib'[p].mtime = clock + 1 /\ lib'[p].made = parsed[p] /\ lib'[p].deps = meta[p].deps
         /\ \A q \in Pkgs : q # p => /\ lib'[q] = lib[q] /\ Age(q)' = Age(q)
                                     /\ (UpToDate(q)' <=> UpToDate(q))
                                     /\ (Old(q)' <=> Old(q)) /\ (Matches(q)' <=> Matches(q))
                                     /\ (Sound(q)' <=> Sound(q))
         /\ \A q \in Pkgs, d \in Pkgs : Agree(q, d)' <=> Agree(q, d)
         /\ Age(p)' = meta[p].mtime /\ Age(p)' \in Nat
         /\ raced' \subseteq raced /\ raced \subseteq raced' \cup {p} /\ torn' = torn \ {p}
         /\ Sound(p)' => p \notin raced \/ parsed[p] = src[p]
         /\ top # NoPkg /\ phase[p] = "link" /\ ImportsLoaded(p)
         /\ \A d \in Imports[p] : d \in Pkgs /\ d # p /\ phase[d] = "loaded" /\ Agree(p, d)
         /\ ClockAhead'
<1>1. /\ UNCHANGED <<src, meta, edits>> /\ clock' = clock + 1 /\ clock \in Nat
      /\ raced' \subseteq raced /\ raced \subseteq raced' \cup {p} /\ torn' = torn \ {p}
      /\ top # NoPkg /\ phase[p] = "link" /\ ImportsLoaded(p)
  BY DEF Link, Tick, IInv, TypeOK, RunOrder
<1>2. Sound(p)' => p \notin raced \/ parsed[p] = src[p]
  BY DEF Link, Sound
<1>3. /\ lib' \in [Pkgs -> [mtime : Nat, made : Sources, deps : DepAPIs]]
      /\ lib'[p].mtime = clock + 1 /\ lib'[p].made = parsed[p] /\ lib'[p].deps = meta[p].deps
      /\ \A q \in Pkgs : q # p => lib'[q] = lib[q]
  <2> DEFINE new == [mtime |-> clock', made |-> parsed[p], deps |-> meta[p].deps]
  <2>1. /\ new \in [mtime : Nat, made : Sources, deps : DepAPIs]
        /\ new.mtime = clock + 1 /\ new.made = parsed[p] /\ new.deps = meta[p].deps
    BY <1>1 DEF IInv, TypeOK
  <2>2. lib' = [lib EXCEPT ![p] = new]
    BY DEF Link
  <2> HIDE DEF new
  <2> QED BY <2>1, <2>2 DEF IInv, TypeOK
<1>4. ASSUME NEW q \in Pkgs, q # p
      PROVE  /\ Age(q)' = Age(q) /\ (UpToDate(q)' <=> UpToDate(q))
             /\ (Old(q)' <=> Old(q)) /\ (Matches(q)' <=> Matches(q))
             /\ (Sound(q)' <=> Sound(q))
  BY <1>1, <1>3, <1>4 DEF Age, UpToDate, SrcUpToDate, Old, Matches, Sound
<1>5. \A q \in Pkgs, d \in Pkgs : Agree(q, d)' <=> Agree(q, d)
  BY <1>1 DEF Agree
<1>6. Age(p)' = meta[p].mtime /\ Age(p)' \in Nat
  <2>1. meta[p].mtime \in Nat /\ meta[p].mtime <= clock
    BY DEF IInv, TypeOK, ClockAhead
  <2> QED BY <1>1, <1>3, <2>1 DEF Age, ProductTime
<1>7. \A d \in Imports[p] : d \in Pkgs /\ d # p /\ phase[d] = "loaded" /\ Agree(p, d)
  BY <1>1, IncrementalAssumptions DEF ImportsLoaded, IInv, Linking, Agree
<1>8. ClockAhead'
  <2>1. \A g \in Files : NoSource[g].mtime = 0
    BY DEF NoSource, Absent
  <2>2. ASSUME NEW q \in Pkgs
        PROVE  parsed'[q] = parsed[q] \/ parsed'[q] = NoSource
    BY DEF Link, Exit
  <2>3. ASSUME NEW q \in Pkgs
        PROVE  /\ meta[q].mtime <= clock /\ lib[q].mtime <= clock
               /\ meta[q].mtime \in Nat /\ lib[q].mtime \in Nat
               /\ \A g \in Files : /\ src[q][g].mtime <= clock /\ src[q][g].mtime \in Nat
                                   /\ parsed[q][g].mtime <= clock /\ parsed[q][g].mtime \in Nat
    BY DEF IInv, ClockAhead, TypeOK, Sources, SourceFiles, Absent
  <2>4. ASSUME NEW q \in Pkgs
        PROVE  /\ meta[q].mtime <= clock + 1 /\ lib'[q].mtime <= clock + 1
               /\ \A g \in Files : src[q][g].mtime <= clock + 1 /\ parsed'[q][g].mtime <= clock + 1
    BY <1>1, <1>3, <2>1, <2>2, <2>3
  <2> QED BY <1>1, <2>4 DEF ClockAhead
<1> QED BY <1>1, <1>2, <1>3, <1>4, <1>5, <1>6, <1>7, <1>8

\* The new library matches its metafile; importers are older than it.
LEMMA LinkDisk ==
  ASSUME IInv, NEW p \in Pkgs, Link(p),
         \A q \in Pkgs : q # p /\ phase[q] = "link" => phase'[q] = "link"
  PROVE  /\ Products' /\ DepsNoticed'
         /\ parsed[p] = src[p] => UpToDate(p)'
<1>1. Products'
  <2> SUFFICES ASSUME NEW q \in Pkgs, Sound(q)', meta[q].ok, phase'[q] # "link"
               PROVE  Old(q)' \/ Matches(q)'
    BY LinkEffect DEF Products
  <2>1. CASE q = p
    <3>1. /\ meta[p].files = Names(parsed[p]) /\ meta[p].api = API(parsed[p])
          /\ p \notin raced => \A f \in Files : \/ src[p][f] = parsed[p][f] \/ src[p][f].mtime = 0
                                               \/ src[p][f].mtime > meta[p].mtime
      BY LinkEffect DEF IInv, Linking
    <3>2. \A f \in Files : \/ src[p][f] = parsed[p][f] \/ src[p][f].mtime = 0
                           \/ src[p][f].mtime > meta[p].mtime
      BY <2>1, <3>1, LinkEffect
    <3>3. /\ meta'[p] = meta[p] /\ src'[p] = src[p] /\ lib'[p].made = parsed[p]
          /\ lib'[p].deps = meta[p].deps /\ Age(p)' = meta[p].mtime
      BY LinkEffect
    <3>4. Matches(p)'
      BY <3>1, <3>2, <3>3 DEF Matches, Names, API
    <3> QED BY <2>1, <3>4
  <2>2. CASE q # p
    BY <2>2, LinkEffect DEF IInv, Products
  <2> QED BY <2>1, <2>2
<1>2. DepsNoticed'
  <2> SUFFICES ASSUME NEW q \in Pkgs, NEW d \in Imports[q], meta[q].ok
               PROVE  \/ Agree(q, d)' \/ Age(d)' > Age(q)'
                      \/ phase'[d] = "link" \/ d \in torn' \/ ~meta[d].ok \/ Old(d)'
    BY LinkEffect DEF DepsNoticed
  <2>0. d \in Pkgs
    BY IncrementalAssumptions
  <2>1. CASE q = p
    BY <2>0, <2>1, LinkEffect
  <2>2. CASE q # p /\ d = p
    <3>1. meta[q].mtime < meta[p].mtime /\ meta[q].mtime \in Nat /\ meta[p].mtime \in Nat
      BY <2>2, LinkEffect DEF IInv, Linking, TypeOK
    <3>2. Age(q)' = Age(q) /\ Age(q) \in Nat /\ Age(q) <= meta[q].mtime /\ Age(p)' = meta[p].mtime
      BY <2>2, LinkEffect, AgeFacts DEF IInv
    <3> QED BY <2>2, <3>1, <3>2
  <2>3. CASE q # p /\ d # p
    <3>1. /\ Age(q)' = Age(q) /\ Age(d)' = Age(d) /\ (Old(d)' <=> Old(d))
          /\ (Agree(q, d)' <=> Agree(q, d)) /\ (d \in torn => d \in torn')
      BY <2>0, <2>3, LinkEffect
    <3> QED BY <2>0, <2>3, <3>1 DEF IInv, DepsNoticed
  <2> QED BY <2>1, <2>2, <2>3
<1>3. ASSUME parsed[p] = src[p] PROVE UpToDate(p)'
  <2>1. /\ meta[p].ok /\ meta[p].mtime > 0 /\ meta[p].files = Names(parsed[p])
        /\ \A f \in Files : parsed[p][f].mtime <= meta[p].mtime
    BY LinkEffect DEF IInv, Linking
  <2>2. /\ meta'[p] = meta[p] /\ src'[p] = src[p] /\ lib'[p].mtime > 0 /\ Age(p)' = meta[p].mtime
    BY LinkEffect
  <2> QED BY <1>3, <2>1, <2>2 DEF UpToDate, SrcUpToDate, Names
<1> QED BY <1>1, <1>2, <1>3

\* The library of an import is written.
LEMMA LinkImportStep ==
  ASSUME IInv, NEW p \in Pkgs, Link(p), p # top
  PROVE  IInv'
<1>0. \A q \in Pkgs : Imports[q] \subseteq Pkgs
  BY IncrementalAssumptions
<1>1. /\ UNCHANGED <<src, meta, top, parsed, api>>
      /\ mtime' \in [Pkgs -> Nat] /\ mtime'[p] = Age(p)
      /\ \A q \in Pkgs : q # p => mtime'[q] = mtime[q]
  <2>1. Age(p) \in Nat /\ mtime \in [Pkgs -> Nat] /\ mtime' = [mtime EXCEPT ![p] = Age(p)]
    BY AgeFacts DEF Link, IInv, TypeOK
  <2>2. UNCHANGED <<src, meta, top, parsed, api>>
    BY DEF Link
  <2> QED BY <2>1, <2>2
<1>2. /\ phase' \in [Pkgs -> {"idle", "deps", "parse", "import", "link", "loaded"}]
      /\ phase'[p] = "loaded" /\ \A q \in Pkgs : q # p => phase'[q] = phase[q]
  BY DEF Link, IInv, TypeOK
<1>3. /\ streak'.top = streak.top /\ streak'.n = streak.n
      /\ \/ streak'.settled = -1
         \/ streak'.settled = streak.settled /\ Sound(p)
      /\ streak' \in [top : Pkgs \cup {NoPkg}, n : Int, settled : Int]
  BY DEF Link, Streak, Sound, IInv, TypeOK
<1>4. /\ top \in Pkgs /\ top # NoPkg /\ phase[p] = "link"
      /\ phase'[top] \in {"parse", "import", "link"}
  BY <1>2, LinkEffect, IncrementalAssumptions DEF IInv, RunOrder, TypeOK
<1>5. TypeOK'
  <2>1. clock' \in Nat /\ raced' \subseteq Pkgs /\ torn' \subseteq Pkgs /\ edits' = edits
        /\ lib' \in [Pkgs -> [mtime : Nat, made : Sources, deps : DepAPIs]]
    BY LinkEffect DEF IInv, TypeOK
  <2> QED BY <1>1, <1>2, <1>3, <2>1 DEF IInv, TypeOK
<1>6. RunOrder'
  <2>1. ASSUME NEW q \in Pkgs, phase'[q] \in {"link", "loaded"}
        PROVE  ImportsLoaded(q)'
    <3>1. ImportsLoaded(q)
      BY <1>2, <2>1, LinkEffect DEF IInv, RunOrder
    <3> QED BY <1>0, <1>2, <3>1 DEF ImportsLoaded
  <2>2. streak'.settled <= streak'.n /\ streak'.n >= -1
    BY <1>3 DEF IInv, RunOrder, TypeOK
  <2> QED BY <1>1, <1>2, <1>3, <1>4, <2>1, <2>2 DEF IInv, RunOrder
<1>7. MemoryOK' /\ ParsedOlder'
  <2>1. ASSUME NEW q \in Pkgs
        PROVE  /\ phase'[q] \in {"deps", "link", "loaded"} => api[q] = meta[q].api
               /\ phase'[q] = "deps" => mtime'[q] = Age(q)'
    <3>1. CASE q = p
      BY <1>2, <1>4, <3>1 DEF IInv, MemoryOK
    <3>2. CASE q # p
      BY <1>1, <1>2, <3>2, LinkEffect DEF IInv, MemoryOK
    <3> QED BY <3>1, <3>2
  <2>2. MemoryOK'
    BY <1>1, <2>1 DEF MemoryOK
  <2>3. \A q \in Pkgs : phase'[q] \in {"import", "link"} => phase[q] \in {"import", "link"}
    BY <1>2
  <2> QED BY <1>1, <2>2, <2>3 DEF IInv, ParsedOlder
<1>8. Linking'
  <2> SUFFICES ASSUME NEW q \in Pkgs, phase'[q] = "link"
               PROVE  q # p /\ phase[q] = "link" /\ (q \notin raced' => q \notin raced)
    BY <1>1 DEF IInv, Linking, Names, API
  <2> QED BY <1>2, LinkEffect
<1>9. Products' /\ DepsNoticed'
  BY <1>2, LinkDisk
<1>10. ASSUME streak.n >= 0
       PROVE  parsed[p] = src[p] /\ UpToDate(p)'
  BY <1>4, <1>10, LinkDisk, <1>2 DEF IInv, Undisturbed
<1>11. Undisturbed'
  <2> SUFFICES ASSUME streak.n >= 0, NEW q \in Pkgs
               PROVE  /\ phase'[q] \in {"import", "link"} => parsed[q] = src[q]
                      /\ phase'[q] \in {"deps", "loaded"} => UpToDate(q)'
    BY <1>1, <1>3 DEF Undisturbed
  <2> QED BY <1>2, <1>4, <1>10, LinkEffect DEF IInv, Undisturbed
<1>12. streak.n >= 1 => streak.n >= 0 /\ streak.top \in Pkgs /\ NeededBy[streak.top] \subseteq Pkgs
  BY NeededFacts DEF IInv, RunOrder, TypeOK
<1>13. AllUpToDate'
  <2> SUFFICES ASSUME streak.n >= 1, NEW q \in NeededBy[streak.top]
               PROVE  UpToDate(q)' \/ phase'[q] = "link"
    BY <1>3 DEF AllUpToDate
  <2> QED BY <1>2, <1>10, <1>12, LinkEffect DEF IInv, AllUpToDate
<1>14. SourcesCurrent'
  <2> SUFFICES ASSUME streak.n >= 1, NEW q \in NeededBy[streak.top], Sound(q)'
               PROVE  lib'[q].made = src[q]
    BY <1>1, <1>3 DEF SourcesCurrent
  <2>1. q \in Pkgs
    BY <1>12
  <2>2. CASE q = p
    BY <1>10, <1>12, <2>2, LinkEffect
  <2>3. CASE q # p
    BY <2>1, <2>3, LinkEffect DEF IInv, SourcesCurrent
  <2> QED BY <2>2, <2>3
<1>15. streak'.settled >= 1 => Sound(p) /\ streak.settled >= 1 /\ streak'.settled = streak.settled
  BY <1>3 DEF IInv, TypeOK
<1>16. ~(streak'.settled >= 2)
  BY <1>3, <1>4 DEF IInv, Settled, TypeOK
<1>17. ApisCurrentAfterTwo' /\ Settled'
  BY <1>16 DEF ApisCurrentAfterTwo, CompiledAgainst, Settled
<1>18. Settling'
  <2> SUFFICES ASSUME streak.settled >= 1, Sound(p), NEW q \in Pkgs, NEW d \in Imports[q], meta[q].ok
               PROVE
        /\ phase'[d] = "link" /\ Sound(d)' => Agree(q, d)' \/ lib'[d].mtime > Age(q)'
        /\ phase'[d] = "loaded" => mtime'[d] = Age(d)' \/ Agree(q, d)' \/ mtime'[d] > Age(q)'
        /\ phase'[q] = "loaded" => Agree(q, d)' \/ Age(d)' <= Age(q)'
    BY <1>1, <1>15 DEF Settling
  <2>0. d \in Pkgs /\ (Agree(q, d)' <=> Agree(q, d))
    BY <1>0, LinkEffect
  <2>1. CASE q = p
    BY <2>0, <2>1, LinkEffect
  <2>2. CASE q # p /\ d = p
    <3>1. phase[q] # "loaded"
      BY <1>4, <2>2 DEF IInv, RunOrder, ImportsLoaded
    <3>2. Agree(q, p) \/ lib[p].mtime > Age(q)
      BY <1>4, <2>2 DEF IInv, Settling
    <3>3. meta[p].mtime > Age(q)
      <4>1. meta[q].mtime < meta[p].mtime /\ meta[q].mtime \in Nat /\ meta[p].mtime \in Nat
        BY <1>4, <2>2 DEF IInv, Linking, TypeOK
      <4> QED BY <4>1, AgeFacts DEF IInv
    <3>4. Agree(q, p) \/ Age(p) > Age(q)
      BY <3>2, <3>3, AgeFacts DEF IInv
    <3> QED BY <1>1, <1>2, <2>0, <2>2, <3>1, <3>4, LinkEffect
  <2>3. CASE q # p /\ d # p
    <3>1. /\ phase'[q] = phase[q] /\ phase'[d] = phase[d] /\ mtime'[d] = mtime[d]
          /\ Age(q)' = Age(q) /\ Age(d)' = Age(d) /\ lib'[d] = lib[d] /\ (Sound(d)' <=> Sound(d))
      BY <1>1, <1>2, <2>0, <2>3, LinkEffect
    <3> QED BY <1>4, <2>0, <3>1 DEF IInv, Settling
  <2> QED BY <2>1, <2>2, <2>3
<1> QED
  BY <1>5, <1>6, <1>7, <1>8, <1>9, <1>11, <1>13, <1>14, <1>17, <1>18, LinkEffect DEF IInv

\* The library of the top-level package is written: the build has succeeded.
LEMMA LinkTopStep ==
  ASSUME IInv, NEW p \in Pkgs, Link(p), p = top
  PROVE  IInv'
<1>0. \A q \in Pkgs : Imports[q] \subseteq Pkgs
  BY IncrementalAssumptions
<1>1. /\ top' = NoPkg /\ phase' = [q \in Pkgs |-> "idle"] /\ parsed' = [q \in Pkgs |-> NoSource]
      /\ mtime' = [q \in Pkgs |-> 0] /\ api' = [q \in Pkgs |-> API(NoSource)]
  BY DEF Link, Exit
<1>2. /\ streak'.top = p /\ streak'.n = streak.n + 1
      /\ \/ streak'.settled = 0
         \/ streak'.settled = streak.settled + 1 /\ Sound(p)
      /\ streak' \in [top : Pkgs \cup {NoPkg}, n : Int, settled : Int]
  BY DEF Link, Streak, Sound, IInv, TypeOK
<1>3. /\ p # NoPkg /\ phase[p] = "link" /\ ImportsLoaded(p)
  BY LinkEffect
<1>4. TypeOK'
  <2>1. clock' \in Nat /\ raced' \subseteq Pkgs /\ torn' \subseteq Pkgs /\ edits' = edits /\ meta' = meta
        /\ lib' \in [Pkgs -> [mtime : Nat, made : Sources, deps : DepAPIs]] /\ src' = src
    BY LinkEffect DEF IInv, TypeOK
  <2>2. NoSource \in Sources /\ API(NoSource) \in APIs
    BY DEF NoSource, Sources, SourceFiles, Absent, API, APIs
  <2> QED BY <1>1, <1>2, <2>1, <2>2 DEF IInv, TypeOK
<1>5. MemoryOK' /\ ParsedOlder' /\ Linking' /\ Undisturbed' /\ Settling'
  BY <1>1 DEF MemoryOK, ParsedOlder, Linking, Undisturbed, Settling
<1>6. RunOrder'
  <2>1. streak'.settled <= streak'.n /\ streak'.n >= -1
    BY <1>2 DEF IInv, RunOrder, TypeOK
  <2> QED BY <1>1, <1>2, <2>1 DEF RunOrder
<1>7. Products' /\ DepsNoticed'
  <2>1. \A q \in Pkgs : q # p /\ phase[q] = "link" => phase'[q] = "link"
    BY <1>3, AllLoaded
  <2> QED BY <2>1, LinkDisk
<1>8. /\ p \in NeededBy[p] /\ NeededBy[p] \subseteq Pkgs
      /\ \A q \in NeededBy[p] \ {p} : phase[q] = "loaded"
      /\ \A q \in NeededBy[p] : ImportsLoaded(q) /\ p \notin Imports[q]
  BY <1>3, AllLoaded
<1>9. ASSUME streak.n >= 0
      PROVE  /\ parsed[p] = src[p] /\ UpToDate(p)'
             /\ \A q \in Pkgs : phase[q] = "loaded" => UpToDate(q) /\ UpToDate(q)'
  <2>1. parsed[p] = src[p] /\ \A q \in Pkgs : phase[q] = "loaded" => UpToDate(q)
    BY <1>3, <1>9 DEF IInv, Undisturbed
  <2>2. \A q \in Pkgs : q # p /\ phase[q] = "link" => phase'[q] = "link"
    BY <1>3, AllLoaded
  <2>3. UpToDate(p)'
    BY <2>1, <2>2, LinkDisk
  <2> QED BY <1>3, <2>1, <2>3, LinkEffect
<1>10. streak'.n >= 1 => streak.n >= 0
  BY <1>2 DEF IInv, TypeOK
<1>11. AllUpToDate'
  <2> SUFFICES ASSUME streak.n >= 0, NEW q \in NeededBy[p]
               PROVE  UpToDate(q)'
    BY <1>2, <1>10 DEF AllUpToDate
  <2> QED BY <1>8, <1>9
<1>12. SourcesCurrent'
  <2> SUFFICES ASSUME streak.n >= 0, NEW q \in NeededBy[p], Sound(q)'
               PROVE  lib'[q].made = src'[q]
    BY <1>2, <1>10 DEF SourcesCurrent
  <2>1. CASE q = p
    BY <1>9, <2>1, LinkEffect
  <2>2. CASE q # p
    <3>1. q \in Pkgs /\ phase[q] = "loaded" /\ UpToDate(q)
      BY <1>8, <1>9, <2>2
    <3>2. Sound(q) /\ lib'[q] = lib[q] /\ src' = src
      BY <2>2, <3>1, LinkEffect
    <3> QED BY <3>1, <3>2, CurrentProducts
  <2> QED BY <2>1, <2>2
<1>13. streak'.settled >= 2 => streak.settled >= 1 /\ streak.n >= 0
  BY <1>2 DEF IInv, TypeOK, RunOrder
<1>14. ASSUME streak.settled >= 1, streak.n >= 0, NEW q \in NeededBy[p], q # p, NEW d \in Imports[q]
       PROVE  /\ q \in Pkgs /\ d \in Pkgs /\ d # p
              /\ UpToDate(q) /\ phase[q] = "loaded" /\ UpToDate(d) /\ phase[d] = "loaded"
              /\ Agree(q, d) \/ Age(d) <= Age(q)
  <2>1. /\ q \in Pkgs /\ d \in Pkgs /\ d # p /\ phase[q] = "loaded" /\ phase[d] = "loaded"
    BY <1>0, <1>8, <1>14 DEF ImportsLoaded
  <2>2. UpToDate(q) /\ UpToDate(d)
    BY <1>9, <1>14, <2>1
  <2>3. meta[q].ok
    BY <2>2 DEF UpToDate
  <2> QED BY <1>3, <1>14, <2>1, <2>2, <2>3 DEF IInv, Settling
<1>15. ApisCurrentAfterTwo'
  <2> SUFFICES ASSUME streak.settled >= 1, streak.n >= 0,
                      NEW q \in NeededBy[p], NEW d \in Imports[q], Sound(q)', Sound(d)'
               PROVE  lib'[q].deps[d] = API(src'[d])
    BY <1>2, <1>13 DEF ApisCurrentAfterTwo, CompiledAgainst
  <2>1. q \in Pkgs /\ d \in Pkgs /\ d # p /\ phase[d] = "loaded" /\ UpToDate(d) /\ Sound(d)
    BY <1>0, <1>8, <1>9, LinkEffect DEF ImportsLoaded
  <2>2. meta[d].api = API(src[d]) /\ meta[d].ok /\ ~Old(d) /\ d \notin torn
    BY <2>1, CurrentProducts DEF Sound
  <2>3. CASE q = p
    <3>1. lib'[p].deps = meta[p].deps /\ Agree(p, d) /\ src' = src
      BY <2>3, LinkEffect
    <3> QED BY <2>2, <2>3, <3>1 DEF Agree
  <2>4. CASE q # p
    <3>1. UpToDate(q) /\ phase[q] = "loaded" /\ (Agree(q, d) \/ Age(d) <= Age(q))
      BY <1>14, <2>4
    <3>2. Sound(q) /\ lib'[q] = lib[q] /\ src' = src
      BY <2>1, <2>4, LinkEffect
    <3>3. meta[q].deps = lib[q].deps /\ meta[q].ok
      BY <2>1, <3>1, <3>2, CurrentProducts
    <3>4. Agree(q, d) \/ Age(d) > Age(q)
      BY <2>1, <2>2, <3>3 DEF IInv, DepsNoticed
    <3>5. Age(d) \in Nat /\ Age(q) \in Nat
      BY <2>1, AgeFacts DEF IInv
    <3>6. Agree(q, d)
      BY <3>1, <3>4, <3>5
    <3> QED BY <2>2, <3>2, <3>3, <3>6 DEF Agree
  <2> QED BY <2>3, <2>4
<1>16. Settled'
  <2> SUFFICES ASSUME streak.settled >= 1, streak.n >= 0,
                      NEW q \in NeededBy[p], NEW d \in Imports[q]
               PROVE  Agree(q, d)' \/ Age(d)' <= Age(q)'
    BY <1>1, <1>2, <1>13 DEF Settled
  <2>1. CASE q = p
    BY <2>1, LinkEffect
  <2>2. CASE q # p
    BY <1>14, <2>2, LinkEffect
  <2> QED BY <2>1, <2>2
<1> QED
  BY <1>4, <1>5, <1>6, <1>7, <1>11, <1>12, <1>15, <1>16, LinkEffect DEF IInv

-----------------------------------------------------------------------------
\* Every step preserves the invariant.
LEMMA NextIInv == IInv /\ [Next]_vars => IInv'
<1> SUFFICES ASSUME IInv, [Next]_vars PROVE IInv'
  OBVIOUS
<1>1. ASSUME NEW p \in Pkgs, Begin(p) \/ CheckDeps(p) \/ Parse(p) \/ Meta(p)
      PROVE  IInv'
  BY <1>1, BeginStep, CheckDepsStep, ParseStep, MetaStep
<1>2. ASSUME NEW p \in Pkgs, Link(p) PROVE IInv'
  BY <1>2, LinkImportStep, LinkTopStep
<1>3. ASSUME NEW p \in Edited, Edit(p) PROVE IInv'
  BY <1>3, EditStep, IncrementalAssumptions
<1>4. ASSUME NEW t \in Tops, Start(t) PROVE IInv'
  BY <1>4, StartStep
<1>5. CASE Crash
  BY <1>5, CrashStep
<1>6. CASE UNCHANGED vars
  BY <1>6, Stutter
<1> QED BY <1>1, <1>2, <1>3, <1>4, <1>5, <1>6 DEF Next

\* The strengthened invariant holds in every reachable state.
THEOREM IncrementalInvariance == Spec => []IInv
BY InitIInv, NextIInv, PTL DEF Spec

\* The files on disk and what the run knows of them are well typed.
THEOREM IncrementalTypes == Spec => []TypeOK
BY IncrementalInvariance, PTL DEF IInv

\* load_dependency0: after a build that succeeded, the library of every package
\* it needs was made from the sources on disk, whatever was edited, built or
\* killed before.
THEOREM LibrariesCurrent == Spec => []SourcesCurrent
BY IncrementalInvariance, PTL DEF IInv

\* load_dependency1: after a second build every library is compiled against the
\* present APIs of what it imports.
THEOREM ApisCurrent == Spec => []ApisCurrentAfterTwo
BY IncrementalInvariance, PTL DEF IInv

\* After two builds only the library of the top-level package is written.
LEMMA OnlyTopWritten ==
  ASSUME IInv, [Next]_vars, streak.settled >= 2, streak'.settled >= 2
  PROVE  \A p \in Pkgs \ {top} : lib[p]' = lib[p]
<1>1. CASE lib' = lib
  BY <1>1
<1>2. ASSUME NEW q \in Pkgs, Link(q)
      PROVE  \A p \in Pkgs \ {top} : lib[p]' = lib[p]
  <2>1. phase[q] = "link" /\ top # NoPkg
    BY <1>2 DEF Link
  <2>2. q = top
    BY <2>1 DEF IInv, Settled
  <2> QED BY <1>2, <2>2, LinkEffect
<1> QED
  BY <1>1, <1>2 DEF Next, Begin, CheckDeps, Parse, Meta, Edit, Start, Crash, disk, vars

\* check_pkg_src_uptodate, load_dependency1: nothing is built for nothing.
THEOREM NothingBuiltForNothing == Spec => NothingRebuilt
<1>1. IInv /\ [Next]_vars =>
        [streak.settled >= 2 /\ streak'.settled >= 2 => \A p \in Pkgs \ {top} : lib[p]' = lib[p]]_vars
  BY OnlyTopWritten
<1> QED BY <1>1, IncrementalInvariance, PTL DEF Spec, NothingRebuilt
=============================================================================
