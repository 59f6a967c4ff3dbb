SPECIFICATION FairSpec
CONSTANTS
  Sessions = {s1}
  Inodes = {1, 2, 3, 4}
  None = None
  Methods = {"su"}
  Redownload = {FALSE, TRUE}
  Serial = TRUE
  Faults = {"net", "quit", "push"}
  MaxFaults = 4
PROPERTIES
  DoneComplete
  RetryInstalls
