SPECIFICATION Spec
CONSTANTS
  Instances = {debian}
  Unnamed = debian
  Calls = {c1, c2}
  Viewers = {}
  Pids = {p1, p2}
  Ops = {"runin", "start", "stop", "down"}
  Alone = {"runin", "start", "stop", "down"}
  Method = "su"
  Others = {"guest"}
  Faults = {}
  Cuts = FALSE
  Fixed = Fixed
  None = None
  Broken = Broken
PROPERTIES
  PidIsSystemd
