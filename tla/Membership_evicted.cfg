SPECIFICATION Spec
CONSTANTS
  Nodes = {1, 2}
  MaxID = 4
  Address = {2, 3}
  MaxConf = 5
  Restarting = {1}
  MaxRestarts = 1
  Compaction = FALSE
  MaxFailures = 0
INVARIANT OnlyReplacedRemoved
CHECK_DEADLOCK FALSE
