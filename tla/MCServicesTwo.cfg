SPECIFICATION Spec
CONSTANTS
  Instances = {debian, ubuntu22}
  Sessions = {s1, s2}
  Daemons = {dbus}
  SshPorts = {p8022}
  BadPorts = {}
  StockPort = p22
  WebPorts = {p6080}
  DefaultWeb = p6080
  Displays = {d1}
  Names = {ubuntu, alice}
  Placeholders = {ubuntu}
  Shipped = ubuntu
  None = None
  MaxUid = 1002
  Ops = {"up", "user", "ssh", "web"}
  Adds = {alice}
  Logins = {None}
  Serial = FALSE
  Cuts = FALSE
  Crashes = FALSE
PROPERTIES
  SshReturns
  WebServes
  OthersWebKept
