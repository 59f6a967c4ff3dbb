--------------------------- MODULE ServicesProps ---------------------------
(***************************************************************************)
(* What a command that succeeds may promise about daemons, accounts, sshd  *)
(* and the web proxy.                                                      *)
(***************************************************************************)
EXTENDS Services

\* Every process belongs to a mounted rootfs, no port has two owners, and no two
\* accounts of an instance share a uid (user-add.sh:66-84).
TypeOK ==
  /\ up \subseteq Instances
  /\ running \subseteq up \X Daemons
  /\ coming \cup sshd \subseteq Sshd /\ \A p \in coming \cup sshd : p.inst \in up
  /\ \A p, q \in sshd : p.port = q.port => p = q
  /\ proxy \subseteq Proxy /\ \A p \in proxy : p.inst \in up
  /\ \A p, q \in proxy : p.port = q.port => p = q
  /\ conf \in [Instances -> Conf \cup {None}]
  /\ \A i \in marker : conf[i] # None
  /\ forward \subseteq SshPorts \cup WebPorts
  /\ \A i \in Instances : \A m, n \in Names : Exists(i, m) /\ uid[i][m] = uid[i][n] => m = n
  /\ default \in [Instances -> Names \cup {None}]

Succeeds(s) == Active(s) /\ cmd'[s].pc = "ok"

\* The account sessions and logins default to exists and has the groups without
\* which Android gives it no network, however many `user add` were cut or failed
\* half way, and whoever took the placeholder over (users.py:49-57).
DefaultUsable ==
  \A i \in Instances :
    default[i] # None => Exists(i, default[i]) /\ default[i] \in inet[i]

\* An up of an instance on which ssh was ever enabled starts an sshd on the port
\* last configured, and whatever becomes of one that was started, an sshd of its
\* instance listens on its port in the end and lets in an account that exists:
\* cuts and changed ports in earlier runs of `ssh enable`, crashes and reboots are
\* repaired. Not where the configuration was cut short or is refused (up.sh:266-275).
SshReturns ==
  [][/\ \A s \in Sessions :
         LET i == cmd[s].inst IN
         Succeeds(s) /\ cmd[s].op = "up" /\ i \in marker =>
           \E p \in coming' \cup sshd' : p.inst = i /\ p.port = conf[i].port
     /\ \A p \in coming \ coming' :
         p.inst \in up' /\ p.port \notin BadPorts \cup {StockPort} =>
           \E q \in sshd' : q.inst = p.inst /\ q.port = p.port /\ Exists(q.inst, q.allow)]_vars

\* The proxy that answers a web is its own and shows the display asked for: an
\* answer on the port alone does not tell whose it is (gui.py:380-388).
WebServes ==
  [][\A s \in Sessions : cmd[s].pc = "curl" /\ cmd'[s].pc = "forward" =>
       \E p \in proxy' : p.inst = cmd[s].inst /\ p.port = cmd[s].port /\ p.to = cmd[s].disp]_vars

\* An ssh enable that succeeds has its sshd on the port it forwards, for the
\* account it names (sshd.py:56). It need not: any sshd found running is taken for
\* it (ssh-enable.sh:72). Not part of a passing run.
SshServes ==
  [][\A s \in Sessions : Succeeds(s) /\ cmd[s].op = "ssh" =>
       \E p \in coming' \cup sshd' :
         p.inst = cmd[s].inst /\ p.port = cmd[s].port /\ p.allow = cmd[s].name]_vars

\* When an up says that the session's prerequisites are ready they are: every
\* system daemon runs in the rootfs (up.sh:261). It says so whatever became of
\* them (up.sh:242, 251, 254). Not part of a passing run.
BusServes ==
  [][\A s \in Sessions : cmd[s].pc = "prep" /\ cmd'[s].pc = "restart sshd" =>
       \A d \in Daemons : <<cmd[s].inst, d>> \in running']_vars

\* A configuration that sshd refuses fails the `ssh enable` that wrote it, rather
\* than silently (ssh-enable.sh:68): sshd is never started on it. The marker was
\* set before, and the next up starts it (up.sh:267-272). Not part of a passing run.
NeverRefused == \A p \in coming : p.port \notin BadPorts

\* A configuration cut short starts no sshd. The marker of an earlier `ssh enable`
\* is there, and the next up starts one that listens where, and lets in whom,
\* sshd does by itself (ssh-enable.sh:35). Not part of a passing run.
NeverStock == \A p \in coming : p.allow # None

\* Serving or stopping one instance leaves the proxies of the others alone
\* (gui.py:333, 380). It does not. Not part of a passing run.
OthersWebKept ==
  [][\A p \in proxy : p.inst \in up' => p \in proxy' \/ \E s \in Sessions : Active(s) /\ cmd[s].inst = p.inst]_vars

\* gui stop drops the forward of the proxy it ends (gui.py:324). Only that of the
\* default port. Not part of a passing run.
StopDrops ==
  [][\A s \in Sessions : Succeeds(s) /\ cmd[s].op = "stop" =>
       forward' \cap WebPorts = {}]_vars
=============================================================================
