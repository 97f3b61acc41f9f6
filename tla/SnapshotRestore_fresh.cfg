SPECIFICATION Spec
CONSTANTS
  MaxEntries = 4
  MaxFailures = 0
  MaxCrashes = 0
  AddrIsLocal = {TRUE}
INVARIANT NoFreshStart
CHECK_DEADLOCK FALSE
