CONSTANTS
  r = r  a = a  b = b  f1 = f1  f2 = f2
  Pkgs <- MCPkgs
  Imports <- MCImports
  Tops = {r, b}
  Files = {f1, f2}
  Edited = {a, b}
  NoPkg = NoPkg
  MaxEdits = 1
  MaxBuilds = 4
  MaxCrashes = 0
SYMMETRY FileSymmetry
SPECIFICATION Spec
INVARIANTS ApisCurrentAfterOne
CHECK_DEADLOCK FALSE
