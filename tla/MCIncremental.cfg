CONSTANTS
  r = r  a = a  b = b  f1 = f1  f2 = f2
  Pkgs <- MCPkgs
  Imports <- MCImports
  Tops = {r}
  Files = {f1, f2}
  Edited = {a, b}
  NoPkg = NoPkg
  MaxEdits = 2
  MaxBuilds = 4
  MaxCrashes = 1
SYMMETRY FileSymmetry
SPECIFICATION Spec
INVARIANTS SourcesCurrent ApisCurrentAfterTwo
PROPERTIES NothingRebuilt
CHECK_DEADLOCK FALSE
