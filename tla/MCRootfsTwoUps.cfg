SPECIFICATION Spec
CONSTANTS
  debian = debian
  ubuntu = ubuntu
  ubuntu22 = ubuntu22
  base = base
  Unnamed = base
  Instances = {debian}
  Sessions = {s1, s2}
  Procs = {p1}
  Loops = {l1, l2}
  None = None
  Ops = {"up"}
  DirReach <- OneReach
  MntReach <- OneReach
  Binds = {"hw", "cgroup"}
  Serial = FALSE
  Stragglers = FALSE
  Cuts = FALSE
  Reboots = FALSE
INVARIANTS
  NoSecondCopy
SYMMETRY Symmetry
