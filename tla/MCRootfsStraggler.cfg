SPECIFICATION Spec
CONSTANTS
  debian = debian
  ubuntu = ubuntu
  ubuntu22 = ubuntu22
  base = base
  Unnamed = base
  Instances = {debian}
  Sessions = {s1}
  Procs = {p1, p2}
  Loops = {l1, l2}
  None = None
  Ops = {"up", "enter", "down", "resize"}
  DirReach <- OneReach
  MntReach <- OneReach
  Binds = {"hw", "cgroup"}
  Serial = TRUE
  Stragglers = TRUE
  Cuts = FALSE
  Reboots = FALSE
INVARIANTS
  NoSecondCopy
  ResizeOffline
SYMMETRY Symmetry
