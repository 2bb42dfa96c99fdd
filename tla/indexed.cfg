SPECIFICATION IndexedSpec
CONSTANTS
  NaN = NaN
  NegInf = NegInf
  Infinity = Infinity
  WholeDB = WholeDB
  NoIndex = NoIndex
  Scale = 100
  Databases <- TwoDatabases
  Queries <- SmallQueries
  Params <- SmallParams
  Coverages <- ThreeCoverages
  MaxReports = 2
  MaxCalls = 2
  MaxBuilds = 2
INVARIANTS AddedOnce ExhaustiveOnFound SoundUnlessNewer
CHECK_DEADLOCK FALSE
