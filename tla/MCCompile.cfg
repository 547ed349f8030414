CONSTANTS
  CompileUses = {"ownership", "strings", "interning", "map", "scope", "narrowing", "deps"}
  Params = 2  MaxValues = 3  MaxStmts = 6  MaxNest = 3  Results = {"void", "value", "owner"}
  k1 = k1  k2 = k2  k3 = k3  k4 = k4
  StrKeys <- ThreeKeys  StrHashes <- MCStrHashes  StrMaxLen = 4  StrLenHint = 1
  IThreads = {i1, i2, i3}  IKeys <- ThreeKeys  IHashes <- MCIHashes  ILenHint = 1
  IPredefined <- MCPredefined  IMaxCalls = 3
  MKeys <- FourKeys  MBytes <- MCBytes  MHashes <- MCHashes  MLenHint = 1
  MValues = {1, 2}  MBuiltins <- MCBuiltins  MNodes <- MCNodes  MMaxCap = 8
  SNames = {m, n}  SValues = {val1, val2}  SMaxLen = 10
  x = x  y = y
  NConds <- MCConds
  NMaxStmts = 3  NMaxNest = 2
  TPrograms <- MCPrograms
SPECIFICATION MCSpec
INVARIANTS OwnersExact DropsOnce LivenessDefinite TableIsSet OneValuePerKey MapIsFunction
           LookupFindsInnermost NoEmptyDeref CyclesFound DefsExact
CHECK_DEADLOCK FALSE
