SPECIFICATION FairSpec
CONSTANTS
  Tight = {"img", "copy"}
  Plain = {"raw", "rre", "hextile"}
  Pseudo = {"screens", "resize", "last", "unknown"}
  Mixed = FALSE
  MaxRects = 2
  MaxCuts = 1
  Versions = {0, 1, 33, 37, 38}
  Schemes = {0, 1, 2}
  Patient = TRUE
  MaxSessions = 2
  MaxDisconnects = 1
  MaxCloses = 1
INVARIANTS InStep CanvasAsSent UiTruth
PROPERTIES Shown DisconnectEnds
CHECK_DEADLOCK FALSE
