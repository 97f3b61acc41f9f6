SPECIFICATION Spec
CONSTANTS
  Nodes = {1, 2}
  MaxID = 4
  Address = {2, 3}
  MaxConf = 4
  Restarting = {1, 2}
  MaxRestarts = 1
  Compaction = TRUE
  MaxFailures = 1
INVARIANT ConfFollowsLog
INVARIANT OneLifeRemovesReplaced
CHECK_DEADLOCK FALSE
