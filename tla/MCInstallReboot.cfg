SPECIFICATION FairSpec
CONSTANTS
  Sessions = {s1}
  Inodes = {1, 2, 3, 4}
  None = None
  Methods = {"su"}
  Redownload = {FALSE}
  Serial = TRUE
  Faults = {"reboot"}
  MaxFaults = 1
PROPERTIES
  RetryInstalls
