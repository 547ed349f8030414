CONSTANTS
  p1 = p1  p2 = p2  p3 = p3
  Procs <- MCProcs
  Parts <- MCParts
  Dummies <- MCDummies
  Forced <- MCNone
  MaxStarts = 1
  pkgr = pkgr  pkga = pkga  pkgb = pkgb  pkgc = pkgc  main = main  w1 = w1  w2 = w2
  Pkgs <- MCPkgs
  Root = pkgr
  Main = main
  Workers <- MCWorkers
  Projects <- MCProjects
  MayFail = TRUE
  b1 = b1  b2 = b2
  Builders <- MCBuilders
  Maxprocs = {1, 2}
  Libraries <- MCLibraries
  Packages <- MCPackages
SPECIFICATION MCSpec
INVARIANTS OneBuilder MarkedMeansBuilt PassedMeansBuiltIfNotMisled
           ImportsReady LoadedOnce SuccessMeansLoaded
           ResultExact OutputGood LeftAreInterrupted
PROPERTIES MarkedIsFinal EveryBuildEnds
CHECK_DEADLOCK FALSE
