SPECIFICATION Spec
CONSTANTS
  Instances = {debian}
  Sessions = {s1}
  Daemons = {dbus}
  SshPorts = {p8022, p70000}
  BadPorts = {p70000}
  StockPort = p22
  WebPorts = {p6080}
  DefaultWeb = p6080
  Displays = {d1, d2}
  Names = {ubuntu, alice, bob}
  Placeholders = {ubuntu}
  Shipped = ubuntu
  None = None
  MaxUid = 1003
  Ops = {"up", "down", "gui", "user", "ssh", "web", "stop"}
  Adds = {alice, bob}
  Logins = {None}
  Serial = TRUE
  Cuts = TRUE
  Crashes = TRUE
INVARIANTS
  TypeOK
  DefaultUsable
PROPERTIES
  SshReturns
  WebServes
