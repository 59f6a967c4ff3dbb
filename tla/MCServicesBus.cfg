SPECIFICATION Spec
CONSTANTS
  Instances = {debian}
  Sessions = {s1}
  Daemons = {dbus, polkitd}
  SshPorts = {p8022}
  BadPorts = {}
  StockPort = p22
  WebPorts = {p6080}
  DefaultWeb = p6080
  Displays = {d1}
  Names = {ubuntu, alice}
  Placeholders = {ubuntu}
  Shipped = ubuntu
  None = None
  MaxUid = 1002
  Ops = {"up", "down", "gui"}
  Adds = {alice}
  Logins = {None}
  Serial = TRUE
  Cuts = FALSE
  Crashes = FALSE
PROPERTIES
  BusServes
