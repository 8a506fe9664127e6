SPECIFICATION DrivingSpec
CONSTANTS
  dash1 = dash1
  dash2 = dash2
  remote = remote
  keyboard = keyboard
  joystick = joystick
  Dashboard = keyboard
  NoOne = NoOne
  Callers <- MCClients
  MaxGen = 3
  MaxFrames = 2
  ZeroFrames = 2
  MaxFaults = 1
  MaxAge = 1
  IdleWait = 1
  MaxDrive = 1
  Clients <- MCClients
  OperatorOf <- MCOperatorOf
  Deadman = 1
  Ttl = 3
  Chunk = 2
  MaxLeases = 2
  MaxGoals = 2
CHECK_DEADLOCK FALSE
SYMMETRY Symmetry
INVARIANTS
  StaysStill
  DrivesOnRecentWord
  DrivenByHolder
  OneMover
  LockIsBrief
PROPERTIES
  NoInterleaving
