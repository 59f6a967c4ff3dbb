SPECIFICATION Spec
CONSTANTS
  debian = debian
  ubuntu = ubuntu
  ubuntu22 = ubuntu22
  base = base
  Unnamed = base
  Instances = {debian}
  Sessions = {s1}
  Procs = {p1}
  Loops = {l1, l2}
  None = None
  Ops = {"install", "enter"}
  DirReach <- OneReach
  MntReach <- OneReach
  Binds = {"hw", "cgroup"}
  Serial = TRUE
  Stragglers = FALSE
  Cuts = FALSE
  Reboots = FALSE
PROPERTIES
  EnterOpens
SYMMETRY Symmetry
