SPECIFICATION FairSpec
CONSTANTS
  Tab = {t1}
  Gui = "all"
  Prompt = TRUE
  SavedTwo = FALSE
  MaxLoads = 2
  MaxCalibrations = 2
  MaxGuides = 1
  MaxStops = 2
  MaxClicks = 2
INVARIANTS HiddenAtRest
PROPERTIES WebNeverManual PageReleased
CHECK_DEADLOCK FALSE
