SPECIFICATION Spec
CONSTANTS
  Tab = {t1}
  Gui = "all"
  Prompt = TRUE
  SavedTwo = FALSE
  MaxLoads = 1
  MaxCalibrations = 1
  MaxGuides = 0
  MaxStops = 0
  MaxClicks = 4
INVARIANTS OwnPoints
CHECK_DEADLOCK FALSE
