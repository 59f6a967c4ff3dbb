SPECIFICATION Spec
CONSTANTS
  Instances = {debian, ubuntu}
  Sessions = {s1}
  Jobs = {}
  Displays = {1, 2}
  None = None
  Ops = {"start", "restart", "stop"}
  Wants = {None, 1}
  Owners = {"root", "user"}
  Baked <- BakedFirst
  Serial = TRUE
  HardStops = FALSE
  Slow = FALSE
  Crashes = FALSE
INVARIANTS
  TypeOK
  NoForeignDisplay
PROPERTIES
  StartServes
SYMMETRY Symmetry
