SPECIFICATION Spec
CONSTANTS
  Instances = {debian}
  Unnamed = debian
  Calls = {c1, c2, c3}
  Viewers = {c1, c2}
  Pids = {p1, p2}
  Ops = {"run", "shot", "viewer", "runin", "start", "stop", "down"}
  Alone = {"shot", "runin", "start", "stop", "down"}
  Method = "su"
  Others = {"android"}
  Faults = {"stage fails", "stage late", "copy fails"}
  Cuts = TRUE
  Fixed = Fixed
  None = None
  Broken = Broken
SYMMETRY Symmetry
INVARIANTS
  TypeOK
  RunsOwn
  ShotIsOwn
  InstalledWhole
