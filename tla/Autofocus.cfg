SPECIFICATION FairSpec
CONSTANTS
  Points = {2}
  Patient = TRUE
  MaxMoves = 1
  MaxCurves = 2
  MaxStops = 1
  MaxErrors = 1
  MaxUnplugs = 1
PROPERTIES GuardedMotion PointsTrue MovesEnd PageReleased
CHECK_DEADLOCK FALSE
