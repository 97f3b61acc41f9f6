SPECIFICATION QuerySpec
CONSTANTS
  MaxLog = 3
  MaxFailures = 1
  MaxCrashes = 1
  Compaction = TRUE
  Queries = {q1}
  Narrow = 8
  Wide = 32
  Second = 3
  MaxContent = 25
  Null = Null
CONSTANT Columns <- AskedColumns
INVARIANT NoneMissing
INVARIANT AtMostLastRepeated
INVARIANT RowsKept
INVARIANT StreamComplete
INVARIANT ReadYourWrites
PROPERTY ImplementsReplicatedDB
PROPERTY CatchesUp
CHECK_DEADLOCK FALSE
