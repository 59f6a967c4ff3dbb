SPECIFICATION Spec
CONSTANTS
  Instances = {debian}
  Sessions = {s1, s2, j1, j2}
  Jobs = {j1, j2}
  Displays = {1}
  None = None
  Ops = {"tap"}
  Wants = {None}
  Owners = {"user"}
  Baked <- BakedFirst
  Serial = FALSE
  HardStops = FALSE
  Slow = FALSE
  Crashes = FALSE
PROPERTIES
  OwnDesktopKept
SYMMETRY Symmetry
