SPECIFICATION FairSampleSpec
CONSTANTS
  NaN = NaN
  NegInf = NegInf
  Infinity = Infinity
  WholeDB = WholeDB
  Scale = 100
  Databases <- SampledDatabases
  Queries <- SampledQueries
  Params <- SampledParams
INVARIANTS SampledInside SampledInFull
PROPERTY SampleEnds
CHECK_DEADLOCK FALSE
