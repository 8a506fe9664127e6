SPECIFICATION NavigationFairSpec
CONSTANTS
  skill = skill
  desk = desk
  Skills <- MCSkills
  Desks <- MCDesks
  Providers <- MCProviders
  MaxGoals = 2
  MaxDuration = 1
  MaxNoPath = 2
  MaxNoProgress = 2
  MaxLosses = 1
  Row = 3
  MaxHits = 2
  CarveMisses = 2
  MaxVoxels = 1
  MaxFrames = 4
  MaxSaves = 1
  Size = 5
  Inflation = 1
  Clearance = 1
  SearchCells = 2
  MinFrontier = 2
  MaxReturns = 2
  MaxUnseen = 1
  Starts <- MCStarts
  Returns <- MCReturns
  FieldLength = 5
  FieldWidth = 3
  Top = 4
  Shapes <- MCShapes
  Headroom = 3
  HoleSpan = 2
  Closing = 3
  Wall = 1
  Buffer = 1
  Toll = 60
  MaxRise = 1
  Tolerance = 1
  BackOff = 20
  Gain = 2
  MaxChanges = 2
  Spots <- MCSpots
  Origins <- MCOrigins
  Destinations <- MCDestinations
INVARIANTS
  StopReaches
  SuccessIsOwn
  MapIsTrue
  PlanIsSound
  PathIsSafe
PROPERTIES
  EveryWaitEnds
  LifecycleSpec
  ObstacleStays
CHECK_DEADLOCK FALSE
