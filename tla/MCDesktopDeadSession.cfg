SPECIFICATION Spec
CONSTANTS
  Instances = {debian}
  Sessions = {s1, j1}
  Jobs = {j1}
  Displays = {1, 2}
  None = None
  Ops = {"tap"}
  Wants = {None}
  Owners = {"user"}
  Baked <- BakedFirst
  Serial = TRUE
  HardStops = FALSE
  Slow = FALSE
  Crashes = TRUE
PROPERTIES
  UntouchedIsAlive
SYMMETRY Symmetry
