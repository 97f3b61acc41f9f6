SPECIFICATION Spec
CONSTANTS
  MaxIndex = 4
  MaxTerm = 2
  Retain = 3
  MaxSize = 2
  MaxUnapplied = 2
  MaxFaults = 1
INVARIANT TypeOK
INVARIANT NoGaps
INVARIANT AckedSurvive
INVARIANT RestartLoads
INVARIANT SavedIsReadyLog
INVARIANT EntriesReturnsRange
PROPERTY ReadsServed
PROPERTY NoneSkipped
PROPERTY CommitMonotone
CHECK_DEADLOCK FALSE
