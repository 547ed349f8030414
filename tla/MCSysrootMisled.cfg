CONSTANTS
  p1 = p1  p2 = p2  p3 = p3
  Procs <- MCProcs
  Parts <- MCParts
  Dummies <- MCDummies
  Forced <- MCNone
  MaxStarts = 1
SPECIFICATION Spec
INVARIANTS PassedMeansBuilt
CHECK_DEADLOCK FALSE
