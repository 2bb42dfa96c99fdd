SPECIFICATION Spec
CONSTANTS
  PageSize = 16
  DataUnit = 32
  Double = 2
  KeyEntry = 8
  TrackEntry = 4
  Word = 64
  LargeTracks = 7
  LargeSize = 4
  DefaultSize = 3
  DefaultTracks = 2
  DefaultDim = 2
  DataSizes = {0, 1, 2, 4}
  TrackCounts = {0, 1, 3, 6, 7, 9}
  DataDims = {0, 1, 2}
  Dims = {2, 3}
  VectorCounts = {0, 1, 3, 4, 7, 8}
  KeyLengths = {2, 8}
  PathLengths = {3, 8}
INVARIANTS WritesInsideTables RestoredHasRoom
CHECK_DEADLOCK FALSE
