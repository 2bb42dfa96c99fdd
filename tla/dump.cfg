SPECIFICATION Spec
CONSTANTS
  Threads <- MCThreads
  Databases <- MCDatabases
  Output <- MCOutput
  NullKey = "(null)"
INVARIANTS
  RoundTrip
  
  LeaksLittle
CHECK_DEADLOCK FALSE
