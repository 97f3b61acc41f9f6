SPECIFICATION Spec
CONSTANTS
  N = 3
  MaxID = 3
  MaxFaults = 2
INVARIANT UniqueIDs
INVARIANT RunsAsMember
CHECK_DEADLOCK FALSE
