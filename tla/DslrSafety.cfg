SPECIFICATION Spec
CONSTANTS
  Page = {p1, p2}
  Job = {j1, j2}
  Loader = {l1}
  Drivers = {"ds", "usb"}
  Frames = {1, 2}
  Mlu = TRUE
  Download = TRUE
  Dithering = TRUE
  Prompt = TRUE
  MaxStarts = 2
  MaxStops = 2
  MaxErrors = 1
  MaxReboots = 1
  MaxToggles = 1
SYMMETRY Symmetry
INVARIANTS OneSequence NoDownloadWhileExposing LastPhotoSought
CHECK_DEADLOCK FALSE
