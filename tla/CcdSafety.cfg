SPECIFICATION Spec
CONSTANTS
  Page = {p1, p2}
  Job = {j1, j2}
  Watcher = {w1}
  Requests <- TwoShapes
  CheckLimit = 3
  Dithering = TRUE
  Prompt = TRUE
  MaxStarts = 2
  MaxStops = 1
  MaxTemps = 1
  MaxHists = 1
  MaxErrors = 1
  MaxHangs = 1
SYMMETRY Symmetry
INVARIANTS OneSequence AllFramesSaved
CHECK_DEADLOCK FALSE
