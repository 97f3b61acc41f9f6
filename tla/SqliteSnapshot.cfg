SPECIFICATION Spec
CONSTANTS
  Behind = 1
  MaxLog = 4
  MaxDeaths = 2
INVARIANT NothingLost
 
INVARIANT QuietSnapshotExact
CHECK_DEADLOCK FALSE
