SPECIFICATION FairSpec
CONSTANTS
  Peers = {2, 3}
  NoPeer = NoPeer
  Stored = {2}
  Potential = {2}
  MaxClients = 3
  MaxEvents = 2
  Self = 1
  Calls = {h1}
  Thresholds = {0, 3}
  Modulus = 4
  MaxApplied = 1
INVARIANT ConnectionsMatchMap
INVARIANT HealthyMeansCaughtUp
INVARIANT LeftOnlyByLeaderAnswer
PROPERTY SnapshotReported
 
CHECK_DEADLOCK FALSE
