SPECIFICATION Spec
CONSTANTS
  Instances = {debian, ubuntu}
  Sessions = {s1}
  Jobs = {}
  Displays = {1, 2}
  None = None
  Ops = {"start"}
  Wants = {None}
  Owners = {"root", "user"}
  Baked <- BakedFirst
  Serial = TRUE
  HardStops = TRUE
  Slow = FALSE
  Crashes = FALSE
INVARIANTS
  NoForeignDisplay
SYMMETRY Symmetry
