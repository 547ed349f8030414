CONSTANTS
  j1 = j1  j2 = j2
  BumpThreads <- MCThreads  Bases <- MCBases
  Sizes = {1, 2}  SlabSize = 5  Header = 1  BumpMaxOps = 3
SPECIFICATION BumpSpec
INVARIANTS NoOverlap
CHECK_DEADLOCK FALSE
