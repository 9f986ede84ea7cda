SPECIFICATION FairSpec
CONSTANTS
  MaxRuns = 2
  FilterCode = {3}
  FrameCount = {1}
  FocuserLink = TRUE
  Overlap = FALSE
  SetupLen = 1
  MaxStops = 1
  MaxHangs = 1
  MaxCuts = 1
INVARIANTS OneSequence CompletedSaved ShutterAsReported
PROPERTIES StartWhenIdle SequenceEnds StopReleases
CHECK_DEADLOCK FALSE
