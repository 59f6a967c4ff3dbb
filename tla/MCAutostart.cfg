SPECIFICATION FairSpec
CONSTANTS
  Instances = {debian}
  Sessions = {s1}
  Displays = {d1, d2}
  Default = d1
  None = None
  Serial = TRUE
  Faults = {"cut"}
  MaxTries = 1
INVARIANTS
  TypeOK
PROPERTIES
  HookLast
  OkIsTrue
  BootDelivers
  BootEnds
