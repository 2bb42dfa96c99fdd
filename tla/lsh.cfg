SPECIFICATION FairSpec
CONSTANTS
  SkipBase = 2
  PointLimit = 16
  N = 2
  C = 3
  L = 2
  Procs = {a1, a2}
  Points <- P5
  Drawn <- TwoFuns
  MaxJobs = 3
  Chunk = 6
  Batches <- Overlapping
INVARIANTS AckedFindable LoadableWhenFree ArraysFaithful QueryExactBehindSingles DiskAndCoreAgree
PROPERTIES FunctionsFixed SerializeEnds
CHECK_DEADLOCK FALSE
