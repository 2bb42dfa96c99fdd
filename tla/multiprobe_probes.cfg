SPECIFICATION Spec
CONSTANTS
  Queries <- SmallQueries
  Garbage = {0, 1000}
  Word = 16
INVARIANT ProbesAsMany
