CONSTANTS
  t1 = t1  t2 = t2  t3 = t3  t4 = t4  s1 = s1  s2 = s2  j1 = j1  j2 = j2
  Threads <- MCThreads
  Errs <- MCErrs
  Submitters <- MCSubmitters
  PoolCap = 3  InitialLen = 1  Threshold = 2  Word = 8  MaxJobs = 2
  BumpThreads <- MCBumpThreads  Bases <- MCBases
  Sizes = {1, 2}  SlabSize = 4  Header = 1  BumpMaxOps = 2
  RWThreads <- MCRWThreads
  Watermark = 4
  MaxOps = 2
  SpinThreads <- MCRWThreads  SpinMaxOps = 2
SPECIFICATION MCSpec
INVARIANTS WaitersGetResult SlotsMatchThreads InflightExact BlocksSound RWSound SpinSound
PROPERTIES ImplementsContract ResultIsFinal EverythingEnds
CHECK_DEADLOCK FALSE
