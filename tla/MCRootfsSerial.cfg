SPECIFICATION Spec
CONSTANTS
  debian = debian
  ubuntu = ubuntu
  ubuntu22 = ubuntu22
  base = base
  Unnamed = base
  Instances = {debian}
  Sessions = {s1}
  Procs = {p1, p2}
  Loops = {l1, l2}
  None = None
  Ops = {"up", "install", "enter", "down", "resize", "remove"}
  DirReach <- OneReach
  MntReach <- OneReach
  Binds = {"hw", "cgroup"}
  Serial = TRUE
  Stragglers = FALSE
  Cuts = TRUE
  Reboots = TRUE
INVARIANTS
  TypeOK
  SerialInv
  NoSecondCopy
  ResizeOffline
PROPERTIES
  RemoveReclaims
  ImageExclusive
SYMMETRY Symmetry
