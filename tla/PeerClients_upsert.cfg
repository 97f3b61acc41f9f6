SPECIFICATION PeerSpec
CONSTANTS
  Peers = {2, 3}
  NoPeer = NoPeer
  Stored = {2}
  Potential = {2, 3}
  MaxClients = 4
  MaxEvents = 2
INVARIANT KeptClientOpen
CHECK_DEADLOCK FALSE
