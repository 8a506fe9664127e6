SPECIFICATION FairSpec
CONSTANTS
  MoveSkills <- MCMoveSkills
  Clients <- MCClients
  Outcomes <- MCOutcomes
  MaxSteps = 3
  TurnSegments = 2
  MoveSegments = 2
  MaxAge = 1
  MaxNoGain = 2
  MaxHolds = 2
  PingPong = 3
  MaxLegs = 2
  MaxLost = 1
  DeskGoals = 1
  Replies <- MCReplies
  Substitute <- MCSubstitute
  Remembered = 4
  Shown = 2
  MaxRetries = 1
  MaxCycles = 2
  Viewers = {v1, v2}
  MaxTracks = 2
  MaxLosses = 1
  MediaModes <- MCMediaModes
  Browsers = {b1}
  QueueLimit = 2
  MaxStarts = 2
  MaxSessions = 2
  MaxChunks = 3
  MaxBreaks = 1
INVARIANTS
  ForwardIsSensed
  AimlessStops
  NoGoalLeftBehind
  PlanIsMarked
  MediaIsCounted
PROPERTIES
  SkillReturns
  MediaFollows
CHECK_DEADLOCK FALSE
