SPECIFICATION Spec
CONSTANTS
  debian = debian
  ubuntu = ubuntu
  ubuntu22 = ubuntu22
  base = base
  Unnamed = base
  Instances = {debian, ubuntu}
  Sessions = {s1, s2}
  Procs = {p1}
  Loops = {l1, l2}
  None = None
  Ops = {"up", "down"}
  DirReach <- TwoReach
  MntReach <- TwoReach
  Binds = {"hw", "cgroup"}
  Serial = FALSE
  Stragglers = FALSE
  Cuts = FALSE
  Reboots = FALSE
PROPERTIES
  OthersDevicesKept
  DownReleases
SYMMETRY Symmetry
