SPECIFICATION Spec
CONSTANTS
  Instances = {debian, ubuntu}
  Sessions = {s1}
  Displays = {d1, d2}
  Default = d1
  None = None
  Serial = TRUE
  Faults = {"full"}
  MaxTries = 1
PROPERTIES
  OkIsTrue
  BootsStaged
  OthersBootKept
  BootedIsRecorded
