SPECIFICATION Spec
CONSTANTS
  Instances = {debian}
  Sessions = {s1, j1}
  Jobs = {j1}
  Displays = {1, 2}
  None = None
  Ops = {"start", "restart", "stop", "tap", "boot"}
  Wants = {None}
  Owners = {"root", "user"}
  Baked <- BakedFirst
  Serial = TRUE
  HardStops = TRUE
  Slow = FALSE
  Crashes = FALSE
INVARIANTS
  SocketKept
PROPERTIES
  OwnDesktopKept
SYMMETRY Symmetry
