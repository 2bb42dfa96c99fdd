SPECIFICATION Spec
CONSTANTS
  SkipBase = 2
  PointLimit = 16
  N = 2
  C = 3
  L = 1
  Procs = {a1}
  Points <- P5
  Drawn <- TwoFuns
  MaxJobs = 2
  Chunk = 6
  Batches <- Overlapping
INVARIANT QueryExact
CHECK_DEADLOCK FALSE
