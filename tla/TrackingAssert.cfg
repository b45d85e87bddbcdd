CONSTANTS
  Xsp <- MCXsp
  Ysp <- MCYsp
  XPlane = 3
  XPlaneP = 4
  YPlane = 5
  YPlaneP = 6
  Setups <- Chambers
  Events <- MCEvents
  NearWires = 2
  MAX_NUMBER_PAIRS = 30
  MAX_SPACE_POINTS = 3
  MaxClones = 20
  MAXTRACKS = 4
  ChamberLimit = 2
  ListLimit = 4
SPECIFICATION MCSpec
INVARIANTS AssertionHolds
CHECK_DEADLOCK FALSE
