SPECIFICATION Spec
CONSTANTS
  h1 = h1  h2 = h2  h3 = h3  h4 = h4  p1 = p1  p2 = p2  p3 = p3  k1 = k1  k2 = k2
  Handles = {h1, h2}
  Procs = {p1, p2}
  ProcOf <- OneEach
  Keys = {k1, k2}
  Datums <- Mixed
  MaxTracks = 2
  DataSpace = 5
  Faults = {"write", "crash"}
  NoKey = NoKey
  Blank = Blank
INVARIANTS TypeOK AckedDurable WriterExclusion RetrievalIntact CacheCoherent NormsCurrent
PROPERTY ImplementsCatalogue
