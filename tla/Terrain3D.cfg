SPECIFICATION TerrainSpec
CONSTANTS
  FieldLength = 5
  FieldWidth = 3
  Top = 4
  Shapes <- MCShapes
  Headroom = 3
  HoleSpan = 2
  Closing = 3
  Wall = 1
  Buffer = 1
  Toll = 60
  MaxRise = 1
  Tolerance = 1
  BackOff = 20
  Gain = 2
  MaxChanges = 2
  Spots <- MCSpots
  Origins <- MCOrigins
  Destinations <- MCDestinations
INVARIANT WallsKeepDistance
CHECK_DEADLOCK FALSE
