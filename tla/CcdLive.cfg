SPECIFICATION FairSpec
CONSTANTS
  Page = {p1}
  Job = {j1, j2}
  Watcher = {w1}
  Requests <- TwoShapes
  CheckLimit = 3
  Dithering = FALSE
  Prompt = TRUE
  MaxStarts = 2
  MaxStops = 1
  MaxTemps = 1
  MaxHists = 0
  MaxErrors = 1
  MaxHangs = 1
PROPERTIES SequenceEnds PageReleased StopReleases
CHECK_DEADLOCK FALSE
