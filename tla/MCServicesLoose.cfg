SPECIFICATION Spec
CONSTANTS
  Instances = {debian}
  Sessions = {s1}
  Daemons = {dbus}
  SshPorts = {p8022, p2222, p70000}
  BadPorts = {p70000}
  StockPort = p22
  WebPorts = {p6080, p7000}
  DefaultWeb = p6080
  Displays = {d1, d2}
  Names = {ubuntu, alice, bob}
  Placeholders = {ubuntu}
  Shipped = ubuntu
  None = None
  MaxUid = 1003
  Ops = {"up", "down", "gui", "user", "ssh", "web", "stop"}
  Adds = {ubuntu, bob}
  Logins = {None, alice}
  Serial = TRUE
  Cuts = TRUE
  Crashes = FALSE
INVARIANTS
  DefaultUsable
  NeverRefused
  NeverStock
PROPERTIES
  SshReturns
  SshServes
  StopDrops
