SPECIFICATION LinksFairSpec
CONSTANTS
  SlotRetries = 1
  MaxPeers = 2
  Deadman = 1
INVARIANTS
  ConnectionIsTrue
  NoPeerLeaks
PROPERTIES
  ConnectEnds
  PeersAreReaped
CHECK_DEADLOCK FALSE
