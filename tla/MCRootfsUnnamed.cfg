SPECIFICATION Spec
CONSTANTS
  debian = debian
  ubuntu = ubuntu
  ubuntu22 = ubuntu22
  base = base
  Unnamed = base
  Instances = {base, debian}
  Sessions = {s1}
  Procs = {p1}
  Loops = {l1, l2}
  None = None
  Ops = {"up", "remove"}
  DirReach <- BaseDirReach
  MntReach <- BaseMntReach
  Binds = {"hw", "cgroup"}
  Serial = TRUE
  Stragglers = FALSE
  Cuts = FALSE
  Reboots = FALSE
PROPERTIES
  OthersMountsKept
SYMMETRY Symmetry
