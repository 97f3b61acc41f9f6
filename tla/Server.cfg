SPECIFICATION ServerSpec
CONSTANTS
  Calls = {c1, c2}
  NoCall = NoCall
  MaxForeign = 1
  CanGiveUp = TRUE
  CanLose = TRUE
  MaxExecErrors = 1
  MaxCrashes = 1
  Reads = {}
  Gateway = {c1}
  MaxRetries = 2
  MaxSignals = 1
  MaxHangs = 0
INVARIANT AckOwnWrite
INVARIANT NoChannelLeak
INVARIANT CallerFindable
CHECK_DEADLOCK FALSE
