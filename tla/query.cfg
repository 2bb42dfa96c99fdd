SPECIFICATION Spec
CONSTANTS
  NaN = NaN
  NegInf = NegInf
  Infinity = Infinity
  WholeDB = WholeDB
  Scale = 100
  Databases <- SmallDatabases
  Queries <- SmallQueries
  Params <- SmallParams
INVARIANTS WindowsSummed WindowsInTrack AnswerIsBest
INVARIANTS KeepsBest ThresholdIsWorstKept BestTracks ArrayFilled
PROPERTIES GoesOn ThresholdTightens
CHECK_DEADLOCK FALSE
