SPECIFICATION Spec
CONSTANTS
  Instances = {debian}
  Sessions = {s1}
  Jobs = {}
  Displays = {1, 2}
  None = None
  Ops = {"start", "stop"}
  Wants = {None}
  Owners = {"root", "user"}
  Baked <- BakedFirst
  Serial = TRUE
  HardStops = FALSE
  Slow = FALSE
  Crashes = FALSE
PROPERTIES
  StopStops
SYMMETRY Symmetry
