SPECIFICATION Spec
CONSTANTS
  Instances = {debian, ubuntu}
  Unnamed = debian
  Calls = {c1, c2, c3}
  Viewers = {c1, c2, c3}
  Pids = {p1, p2}
  Ops = {"shot", "viewer", "runin", "start", "stop"}
  Alone = {}
  Method = "su"
  Others = {"android", "guest"}
  Faults = {"stage fails"}
  Cuts = FALSE
  Fixed = Fixed
  None = None
  Broken = Broken
SYMMETRY Symmetry
INVARIANTS
  ShotIsOwn
  InstalledWhole
  RunInOwn
  RunInInside
  OneInit
PROPERTIES
  StartStarts
  StartReports
