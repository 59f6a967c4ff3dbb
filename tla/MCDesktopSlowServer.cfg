SPECIFICATION Spec
CONSTANTS
  Instances = {debian}
  Sessions = {s1}
  Jobs = {}
  Displays = {1, 2}
  None = None
  Ops = {"start"}
  Wants = {None}
  Owners = {"user"}
  Baked <- BakedFirst
  Serial = TRUE
  HardStops = FALSE
  Slow = TRUE
  Crashes = FALSE
INVARIANTS
  SocketKept
SYMMETRY Symmetry
