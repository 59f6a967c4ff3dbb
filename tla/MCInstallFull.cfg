SPECIFICATION Spec
CONSTANTS
  Sessions = {s1}
  Inodes = {1, 2, 3, 4}
  None = None
  Methods = {"adbd", "su"}
  Redownload = {FALSE}
  Serial = TRUE
  Faults = {"tar"}
  MaxFaults = 1
PROPERTIES
  DoneComplete
