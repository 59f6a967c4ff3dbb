SPECIFICATION FairSpec
CONSTANTS
  Instances = {debian}
  Sessions = {s1, s2}
  Jobs = {}
  Displays = {1}
  None = None
  Ops = {"start", "restart"}
  Wants = {None}
  Owners = {"user"}
  Baked <- BakedFirst
  Serial = FALSE
  HardStops = TRUE
  Slow = TRUE
  Crashes = TRUE
PROPERTIES
  StartsEnd
