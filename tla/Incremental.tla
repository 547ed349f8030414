----------------------------- MODULE Incremental ----------------------------
(***************************************************************************)
(* Which packages a build compiles again (src/src/pkgbuild.c): the sources,*)
(* metafiles and library files that successive runs of compis leave on     *)
(* disk, with crashes of a run and edits before, during and after it.      *)
(*                                                                         *)
(* A package's steps are taken in the order that PkgLoad establishes; runs *)
(* of the program do not overlap.  The clock ticks at every write, as      *)
(* unixtime_t counts microseconds.  A source file is known by its mtime    *)
(* and by the number of the edit that last changed its public declarations *)
(* (0: it has none); an API hash is a function of those.                   *)
(***************************************************************************)
EXTENDS Integers, FiniteSets

CONSTANTS Pkgs, Imports,     \* Imports[p]: the packages that p imports
          Tops,              \* the packages given to build_toplevel_pkg
          Files,             \* names of source files
          Edited,            \* the packages that the user edits
          NoPkg,
          MaxEdits, MaxBuilds, MaxCrashes

ASSUME IncrementalAssumptions ==
  /\ Imports \in [Pkgs -> SUBSET Pkgs] /\ Tops \subseteq Pkgs /\ Edited \subseteq Pkgs /\ NoPkg \notin Pkgs
  /\ MaxEdits \in Nat /\ MaxBuilds \in Nat /\ MaxCrashes \in Nat

VARIABLES clock,
          src,       \* src[p]: the source files
          meta,      \* meta[p]: the metafile
          lib,       \* lib[p]: the library file, and what it was made of
          top,       \* the package that the running compis builds, or NoPkg
          phase,     \* phase[p]: how far the run has come with p
          parsed,    \* parsed[p]: the src[p] that was parsed
          mtime,     \* mtime[p]: pkg->mtime
          api,       \* api[p]: pkg->api_sha256
          edits, builds, crashes,
          streak,    \* whole builds of one top-level package, as Streak says
          raced,     \* packages edited after they were parsed and before the metafile
          torn       \* packages with a new metafile and, for no newer source, an old lib

disk == <<src, meta, lib>>
run == <<top, phase, parsed, mtime, api>>
history == <<edits, builds, crashes, streak, raced, torn>>
vars == <<clock, disk, run, history>>

Tick == clock' = clock + 1

Absent == [mtime |-> 0, decl |-> 0]
NoSource == [f \in Files |-> Absent]
Names(s) == {f \in Files : s[f].mtime > 0}
API(s) == [f \in Files |-> s[f].decl]

NoMeta(p) == [mtime |-> 0, ok |-> FALSE, api |-> API(NoSource), files |-> {},
              deps |-> [d \in Imports[p] |-> API(NoSource)]]
NoLib(p) == [mtime |-> 0, made |-> NoSource, deps |-> [d \in Imports[p] |-> API(NoSource)]]

\* n: whole builds of top since the last edit or crash, -1 in a run that saw
\* an edit.  settled: those since a package in raced or torn was last built.
Streak(t, n, settled) == [top |-> t, n |-> n, settled |-> settled]
NoStreak == Streak(NoPkg, 0, 0)
Interrupted == IF top = NoPkg THEN NoStreak ELSE Streak(NoPkg, -1, -1)

Init ==
  /\ clock = 1
  /\ src = [p \in Pkgs |-> [f \in Files |-> [mtime |-> 1, decl |-> 0]]]
  /\ meta = [p \in Pkgs |-> NoMeta(p)]
  /\ lib = [p \in Pkgs |-> NoLib(p)]
  /\ top = NoPkg
  /\ phase = [p \in Pkgs |-> "idle"]
  /\ parsed = [p \in Pkgs |-> NoSource]
  /\ mtime = [p \in Pkgs |-> 0]
  /\ api = [p \in Pkgs |-> API(NoSource)]
  /\ edits = 0 /\ builds = 0 /\ crashes = 0
  /\ streak = NoStreak /\ raced = {} /\ torn = {}

-----------------------------------------------------------------------------
\* The user's edits: a file is written, with other public declarations or the
\* same, or removed.
Edit(p) ==
  /\ edits < MaxEdits /\ Tick
  /\ edits' = edits + 1
  /\ \E f \in Files :
       \/ \E a \in {src[p][f].decl, edits'} :
            src' = [src EXCEPT ![p][f] = [mtime |-> clock', decl |-> a]]
       \/ /\ f \in Names(src[p]) /\ Names(src[p]) # {f}
          /\ src' = [src EXCEPT ![p][f] = Absent]
  /\ streak' = Interrupted
  /\ UNCHANGED <<meta, lib, run, builds, crashes, raced, torn>>

\* The process, and what it knew, is gone.
Exit ==
  /\ top' = NoPkg
  /\ phase' = [p \in Pkgs |-> "idle"]
  /\ parsed' = [p \in Pkgs |-> NoSource]
  /\ mtime' = [p \in Pkgs |-> 0]
  /\ api' = [p \in Pkgs |-> API(NoSource)]

\* compis is started to build t; the top-level package is always built.
Start(t) ==
  /\ top = NoPkg /\ builds < MaxBuilds
  /\ top' = t
  /\ builds' = builds + 1
  /\ phase' = [phase EXCEPT ![t] = "parse"]
  /\ streak' = IF streak.top = t THEN streak ELSE NoStreak
  /\ UNCHANGED <<clock, disk, parsed, mtime, api, edits, crashes, raced, torn>>

-----------------------------------------------------------------------------
\* Bugs: the product's age is that of the metafile; the API hashes are not
\* compared; files without public declarations are not in the metafile.
ProductTimeOfMeta(l, m) == m
ApiChangedNever(p, d) == FALSE
RegisteredPublic(s) == {f \in Files : s[f].decl > 0}

ProductTime(l, m) == IF l <= m THEN l ELSE m
ApiChanged(p, d) == meta[p].deps[d] # api[d]
Registered(s) == Names(s)

Age(p) == ProductTime(lib[p].mtime, meta[p].mtime)

\* check_pkg_src_uptodate.
SrcUpToDate(p, productTime) ==
  Names(src[p]) = meta[p].files /\ \A f \in Files : src[p][f].mtime <= productTime

\* There is a library and a metafile that can be decoded, and no source is newer.
UpToDate(p) ==
  /\ lib[p].mtime > 0 /\ meta[p].mtime > 0 /\ meta[p].ok
  /\ SrcUpToDate(p, Age(p))

Wanted(p) == \E q \in Pkgs : phase[q] \in {"deps", "import"} /\ p \in Imports[q]
ImportsLoaded(p) == \A d \in Imports[p] : phase[d] = "loaded"

\* load_dependency0, and load_dependency1 up to the imports: build what is not
\* up to date.
Begin(p) ==
  /\ top # NoPkg /\ phase[p] = "idle" /\ Wanted(p)
  /\ \/ /\ UpToDate(p)
        /\ phase' = [phase EXCEPT ![p] = "deps"]
        /\ mtime' = [mtime EXCEPT ![p] = Age(p)]
        /\ api' = [api EXCEPT ![p] = meta[p].api]
     \/ /\ ~UpToDate(p)
        /\ phase' = [phase EXCEPT ![p] = "parse"]
        /\ UNCHANGED <<mtime, api>>
  /\ UNCHANGED <<clock, disk, top, parsed, history>>

\* load_dependency1 after its imports are loaded: an import newer than the
\* package makes it stale if its API is another one.
Stale(p) == \E d \in Imports[p] : mtime[d] > mtime[p] /\ ApiChanged(p, d)

CheckDeps(p) ==
  /\ top # NoPkg /\ phase[p] = "deps" /\ ImportsLoaded(p)
  /\ phase' = [phase EXCEPT ![p] = IF Stale(p) THEN "parse" ELSE "loaded"]
  /\ UNCHANGED <<clock, disk, top, parsed, mtime, api, history>>

\* pkgbuild_locate_sources and pkgbuild_parse.
Parse(p) ==
  /\ top # NoPkg /\ phase[p] = "parse"
  /\ parsed' = [parsed EXCEPT ![p] = src[p]]
  /\ phase' = [phase EXCEPT ![p] = "import"]
  /\ UNCHANGED <<clock, disk, top, mtime, api, history>>

Metafile(p, ok) ==
  [mtime |-> clock', ok |-> ok, api |-> API(parsed[p]), files |-> Registered(parsed[p]),
   deps |-> [d \in Imports[p] |-> api[d]]]

\* From the end of pkgbuild_import to pkgbuild_metagen.
Meta(p) ==
  /\ top # NoPkg /\ phase[p] = "import" /\ ImportsLoaded(p) /\ Tick
  /\ api' = [api EXCEPT ![p] = API(parsed[p])]
  /\ meta' = [meta EXCEPT ![p] = Metafile(p, TRUE)]
  /\ phase' = [phase EXCEPT ![p] = "link"]
  /\ raced' = IF parsed[p] = src[p] THEN raced ELSE raced \cup {p}
  /\ UNCHANGED <<src, lib, top, parsed, mtime, edits, builds, crashes, streak, torn>>

\* pkgbuild_link.  load_dependency0 then reads the new metafile, but has the
\* mtime of the library from before the build.
Link(p) ==
  /\ top # NoPkg /\ phase[p] = "link" /\ Tick
  /\ lib' = [lib EXCEPT ![p] = [mtime |-> clock', made |-> parsed[p], deps |-> meta[p].deps]]
  /\ torn' = torn \ {p}
  /\ raced' = IF parsed[p] = src[p] THEN raced \ {p} ELSE raced
  /\ LET settled == IF p \in raced \cup torn THEN -1 ELSE streak.settled IN
     \/ /\ p # top
        /\ mtime' = [mtime EXCEPT ![p] = Age(p)]
        /\ phase' = [phase EXCEPT ![p] = "loaded"]
        /\ streak' = Streak(streak.top, streak.n, settled)
        /\ UNCHANGED <<top, parsed, api>>
     \/ /\ p = top
        /\ streak' = Streak(p, streak.n + 1, settled + 1)
        /\ Exit
  /\ UNCHANGED <<src, meta, edits, builds, crashes>>

-----------------------------------------------------------------------------
\* The run dies: it is killed, or a C compiler or the linker fails.  A
\* metafile that was being written may be cut off.
Crash ==
  /\ top # NoPkg /\ crashes < MaxCrashes /\ Tick
  /\ crashes' = crashes + 1
  /\ Exit
  /\ \/ UNCHANGED meta
     \/ \E p \in Pkgs : /\ phase[p] = "import" /\ ImportsLoaded(p)
                        /\ meta' = [meta EXCEPT ![p] = Metafile(p, FALSE)]
  /\ torn' = torn \cup {p \in Pkgs : /\ phase[p] = "link"
                                     /\ \A f \in Files : parsed[p][f].mtime <= lib[p].mtime}
  /\ streak' = NoStreak
  /\ UNCHANGED <<src, lib, edits, builds, raced>>

Next ==
  \/ \E p \in Pkgs : Begin(p) \/ CheckDeps(p) \/ Parse(p) \/ Meta(p) \/ Link(p)
  \/ \E p \in Edited : Edit(p)
  \/ \E t \in Tops : Start(t)
  \/ Crash

Spec == Init /\ [][Next]_vars

-----------------------------------------------------------------------------
SourceFiles == {Absent} \cup [mtime : Nat \ {0}, decl : Nat]
Sources == [Files -> SourceFiles]
APIs == [Files -> Nat]
DepAPIs == UNION {[Imports[p] -> APIs] : p \in Pkgs}

TypeOK ==
  /\ clock \in Nat /\ src \in [Pkgs -> Sources] /\ parsed \in [Pkgs -> Sources]
  /\ meta \in [Pkgs -> [mtime : Nat, ok : BOOLEAN, api : APIs, files : SUBSET Files, deps : DepAPIs]]
  /\ lib \in [Pkgs -> [mtime : Nat, made : Sources, deps : DepAPIs]]
  /\ top \in Tops \cup {NoPkg}
  /\ phase \in [Pkgs -> {"idle", "deps", "parse", "import", "link", "loaded"}]
  /\ mtime \in [Pkgs -> Nat] /\ api \in [Pkgs -> APIs]
  /\ edits \in Nat
  /\ streak \in [top : Pkgs \cup {NoPkg}, n : Int, settled : Int]
  /\ raced \subseteq Pkgs /\ torn \subseteq Pkgs

\* The packages that p is built from: the least set with p that is closed
\* under imports.
Closed(S) == \A q \in S : Imports[q] \subseteq S
NeededBy == [p \in Pkgs |-> {q \in Pkgs : \A S \in SUBSET Pkgs : p \in S /\ Closed(S) => q \in S}]

\* The packages of which the products on disk can be relied upon.
Sound(p) == p \notin raced \cup torn

\* load_dependency0, check_pkg_src_uptodate: after a build that succeeded, the
\* library of every package it needs was made from the sources on disk, also
\* when earlier runs died.
SourcesCurrent ==
  streak.n >= 1 => \A p \in NeededBy[streak.top] : Sound(p) => lib[p].made = src[p]

CompiledAgainst(n) ==
  streak.settled >= n =>
    \A p \in NeededBy[streak.top] : \A d \in Imports[p] :
      Sound(p) /\ Sound(d) => lib[p].deps[d] = API(src[d])

\* load_dependency1 (API hashes in metafiles): the second build after an edit
\* leaves every library compiled against the present API of what it imports.
ApisCurrentAfterTwo == CompiledAgainst(2)

\* "The dependency has recently been modified (maybe we just built it.) Check
\* if its API changed": one build is enough.
ApisCurrentAfterOne == CompiledAgainst(1)

\* After two builds there is nothing to do: only the top-level package is
\* compiled again.
NothingRebuilt ==
  [][streak.settled >= 2 /\ streak'.settled >= 2 => \A p \in Pkgs \ {top} : lib[p]' = lib[p]]_vars
=============================================================================
