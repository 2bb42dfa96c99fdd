SPECIFICATION FairSpec
CONSTANTS
  h1 = h1  h2 = h2  h3 = h3  h4 = h4  p1 = p1  p2 = p2  p3 = p3  k1 = k1  k2 = k2
  Handles = {h1, h2, h3}
  Procs = {p1, p2, p3}
  ProcOf <- OneEach3
  Keys = {k1, k2}
  Datums <- Pair
  MaxTracks = 2
  DataSpace = 4
  Faults = {"sync", "crash"}
  NoKey = NoKey
  Blank = Blank
PROPERTY ReadersServed
