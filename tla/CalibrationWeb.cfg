SPECIFICATION Spec
CONSTANTS
  Tab = {t1, t2}
  Gui = "boxes"
  Prompt = TRUE
  SavedTwo = FALSE
  MaxLoads = 2
  MaxCalibrations = 2
  MaxGuides = 1
  MaxStops = 1
  MaxClicks = 2
SYMMETRY Symmetry
INVARIANTS OwnPoints FlagHonest RaReported DriveExclusive
CHECK_DEADLOCK FALSE
