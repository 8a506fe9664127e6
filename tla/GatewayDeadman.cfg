SPECIFICATION GatewaySpec
CONSTANTS
  MaxPeers = 2
  Deadman = 1
INVARIANT
  DeadmanHolds
CHECK_DEADLOCK FALSE
