SPECIFICATION Spec
CONSTANTS
  debian = debian
  ubuntu = ubuntu
  ubuntu22 = ubuntu22
  base = base
  Unnamed = base
  Instances = {debian}
  Sessions = {s1, s2}
  Procs = {p1}
  Loops = {l1, l2}
  None = None
  Ops = {"enter", "down"}
  DirReach <- OneReach
  MntReach <- OneReach
  Binds = {}
  Serial = FALSE
  Stragglers = TRUE
  Cuts = TRUE
  Reboots = FALSE
PROPERTIES
  DownReleases
SYMMETRY Symmetry
