SPECIFICATION FairSpec
CONSTANTS
  Queries <- SmallQueries
  Garbage = {0, 1000}
  Word = 16
INVARIANTS EachSetOnce BestFirst DefaultBelow
PROPERTY SearchEnds
