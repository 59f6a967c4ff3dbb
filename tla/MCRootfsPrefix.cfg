SPECIFICATION Spec
CONSTANTS
  debian = debian
  ubuntu = ubuntu
  ubuntu22 = ubuntu22
  base = base
  Unnamed = base
  Instances = {ubuntu, ubuntu22}
  Sessions = {s1}
  Procs = {p1, p2}
  Loops = {l1, l2}
  None = None
  Ops = {"enter", "remove"}
  DirReach <- PrefixDirReach
  MntReach <- PrefixMntReach
  Binds = {"hw", "cgroup"}
  Serial = TRUE
  Stragglers = FALSE
  Cuts = FALSE
  Reboots = FALSE
PROPERTIES
  OthersProcessesKept
SYMMETRY Symmetry
