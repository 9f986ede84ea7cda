SPECIFICATION FairSpec
CONSTANTS
  Page = {p1}
  Job = {j1, j2}
  Loader = {l1}
  Drivers = {"gphoto", "usb"}
  Frames = {1, 2}
  Mlu = TRUE
  Download = TRUE
  Dithering = TRUE
  Prompt = TRUE
  MaxStarts = 2
  MaxStops = 2
  MaxErrors = 1
  MaxReboots = 1
  MaxToggles = 1
PROPERTIES SequenceEnds RequestRuns StopCloses
CHECK_DEADLOCK FALSE
