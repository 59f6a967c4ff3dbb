SPECIFICATION Spec
CONSTANTS
  debian = debian
  ubuntu = ubuntu
  ubuntu22 = ubuntu22
  base = base
  Unnamed = base
  Instances = {debian, ubuntu}
  Sessions = {s1}
  Procs = {p1, p2}
  Loops = {l1, l2, l3}
  None = None
  Ops = {"up", "enter", "down", "resize", "remove", "purge"}
  DirReach <- TwoReach
  MntReach <- TwoReach
  Binds = {"hw"}
  Serial = TRUE
  Stragglers = TRUE
  Cuts = FALSE
  Reboots = TRUE
PROPERTIES
  UpComplete
  EnterComplete
SYMMETRY Symmetry
