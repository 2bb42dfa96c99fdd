SPECIFICATION Spec
CONSTANTS
  h1 = h1  h2 = h2  h3 = h3  h4 = h4  p1 = p1  p2 = p2  p3 = p3  k1 = k1  k2 = k2
  Handles = {h1, h2, h3, h4}
  Procs = {p1, p2}
  ProcOf <- TwoEach
  Keys = {k1, k2}
  Datums = {}
  MaxTracks = 1
  DataSpace = 2
  Faults = {}
  NoKey = NoKey
  Blank = Blank
SYMMETRY TwoEachSymmetry
INVARIANT LocksOwned
