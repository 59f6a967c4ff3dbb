SPECIFICATION Spec
CONSTANTS
  Sessions = {s1, s2}
  Inodes = {1, 2, 3, 4}
  None = None
  Methods = {"su"}
  Redownload = {FALSE}
  Serial = FALSE
  Faults = {}
  MaxFaults = 0
INVARIANTS
  GzWhole
SYMMETRY Symmetry
