SPECIFICATION Spec
CONSTANTS
  MaxEntries = 4
  MaxFailures = 2
  MaxCrashes = 2
  AddrIsLocal = {TRUE, FALSE}
INVARIANT FreshOnlyAfterCleanUp
INVARIANT NothingLost
INVARIANT RepeatsOnlyCut
CHECK_DEADLOCK FALSE
