SPECIFICATION Spec
CONSTANTS
  Instances = {debian, ubuntu}
  Sessions = {s1, j1}
  Jobs = {j1}
  Displays = {1, 2}
  None = None
  Ops = {"tap", "start"}
  Wants = {None}
  Owners = {"user"}
  Baked <- BakedFirst
  Serial = TRUE
  HardStops = FALSE
  Slow = FALSE
  Crashes = FALSE
PROPERTIES
  OthersDesktopKept
SYMMETRY Symmetry
