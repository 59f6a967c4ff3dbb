SPECIFICATION Spec
CONSTANTS
  Sessions = {s1, s2}
  Inodes = {1, 2, 3, 4}
  None = None
  Methods = {"adbd", "su"}
  Redownload = {FALSE, TRUE}
  Serial = TRUE
  Faults = {"net", "short", "quit", "push", "adb", "tar", "reboot"}
  MaxFaults = 3
INVARIANTS
  TypeOK
  GzWhole
  StageWhole
SYMMETRY Symmetry
