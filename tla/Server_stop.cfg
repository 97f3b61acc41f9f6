SPECIFICATION ServerSpec
CONSTANTS
  Calls = {c1, c2}
  NoCall = NoCall
  MaxForeign = 0
  CanGiveUp = TRUE
  CanLose = TRUE
  MaxExecErrors = 1
  MaxCrashes = 0
  Reads = {r1, r2}
  Gateway = {c1, r1}
  MaxRetries = 2
  MaxSignals = 1
  MaxHangs = 1
INVARIANT CleanExit
PROPERTY Answered
PROPERTY ExitsOnSignal
CHECK_DEADLOCK FALSE
