----------------------------- MODULE Services ------------------------------
(***************************************************************************)
(* What runs inside the rootfs besides a desktop: the system daemons that  *)
(* up.sh and gui start bring up, sshd, the web proxy, and the accounts     *)
(* sshd lets in.                                                           *)
(*                                                                         *)
(* Instances have no pid and no network namespace of their own. A daemon   *)
(* is looked for, and killed, by name: pgrep finds that of any instance;   *)
(* and whoever binds a port first has it.                                  *)
(***************************************************************************)
EXTENDS Integers

CONSTANTS
  Instances,
  Sessions,     \* commands being carried out
  Daemons,      \* dbus-daemon --system, accounts-daemon, polkitd
  SshPorts, WebPorts, Displays,
  BadPorts,     \* those sshd refuses, outside 1..65535
  StockPort,    \* where sshd listens when the configuration names no port, 22
  DefaultWeb,   \* gui.DEFAULT_WEB_PORT
  Names,        \* account names
  Placeholders, \* those user-add.sh takes for the image's placeholder
  Shipped,      \* the account an image comes with, on uid 1000
  MaxUid,       \* a bound on uids, high enough for all of Names
  None,
  Ops,          \* what is asked for, a subset of AllOps
  Adds,         \* the names `user add` is given
  Logins,       \* the values of `ssh enable --user`, None when it is not given
  Serial,       \* a command starts only when no other is being carried out
  Cuts,         \* a command may be cut at any step
  Crashes       \* daemons, sshd and web proxies may end by themselves

AllOps == {"up", "down", "gui", "user", "ssh", "web", "stop"}

ASSUME ConstantsAssumption ==
  /\ Ops \subseteq AllOps
  /\ DefaultWeb \in WebPorts
  /\ Shipped \in Placeholders /\ Placeholders \subseteq Names
  /\ Adds \subseteq Names
  /\ MaxUid \in Nat
  /\ BadPorts \subseteq SshPorts /\ StockPort \notin BadPorts
  /\ Logins \subseteq Names \cup {None}
  /\ None \notin Instances \cup Names \cup SshPorts \cup WebPorts \cup Displays
  /\ None \notin [port : SshPorts \cup {StockPort}, allow : Names \cup {None}]
  /\ {Serial, Cuts, Crashes} \subseteq BOOLEAN

VARIABLES
  up,       \* instances whose rootfs is mounted
  running,  \* <<i, d>> : daemon d runs in i
  conf,     \* [i] : 10-androlinux.conf, None before ssh is enabled
  marker,   \* instances with /etc/androlinux-ssh
  coming,   \* the sshd processes that do not listen yet, with what they have read
  sshd,     \* the listening ones
  proxy,    \* the websockify processes
  forward,  \* host ports adb forwards
  uid,      \* [i][n] : the uid of account n, 0 when there is none
  inet,     \* [i] : accounts in Android's network groups
  default,  \* [i] : default-user
  cmd       \* [s] : the command of session s: its next step and its arguments

sshds    == <<coming, sshd>>
procs    == <<up, running, sshds, proxy>>
accounts == <<uid, inet, default>>
vars     == <<procs, conf, marker, forward, accounts, cmd>>

\* An empty configuration leaves sshd its own: the stock port, and everybody.
Stock == [port |-> StockPort, allow |-> None]
Conf  == [port : SshPorts, allow : Names] \cup {Stock}
Sshd  == [inst : Instances, port : SshPorts \cup {StockPort}, allow : Names \cup {None}]
Proxy == [inst : Instances, port : WebPorts, to : Displays]

Exists(i, n) == uid[i][n] # 0

Ended     == {"ok", "failed"}
Active(s) == cmd[s].pc \notin Ended
Nothing(pc) == [pc |-> pc, op |-> None, inst |-> None, port |-> None, name |-> None, disp |-> None]

Init ==
  /\ up = {} /\ running = {} /\ coming = {} /\ sshd = {} /\ proxy = {}
  /\ conf = [i \in Instances |-> None]
  /\ marker = {} /\ forward = {}
  /\ uid = [i \in Instances |-> [n \in Names |-> IF n = Shipped THEN 1000 ELSE 0]]
  /\ inet = [i \in Instances |-> {}]
  /\ default = [i \in Instances |-> None]
  /\ cmd = [s \in Sessions |-> Nothing("ok")]

Goto(s, to) ==
  cmd' = [cmd EXCEPT ![s] = IF to \in Ended THEN Nothing(to) ELSE [@ EXCEPT !.pc = to]]

Step(s, from, to) == cmd[s].pc = from /\ Goto(s, to)

\* The first step of what a command does once the rootfs is up.
Body(o) == CASE o = "up"   -> "ok"
             [] o = "gui"  -> "prepare"
             [] o = "user" -> "account"
             [] o = "ssh"  -> "login"
             [] OTHER      -> "kill proxies"
-----------------------------------------------------------------------------
(***************************************************************************)
(* Commands, up and down                                                   *)
(***************************************************************************)
\* Everything but `up` itself looks whether the rootfs is up (container.is_up).
Begin(s) ==
  /\ ~Active(s)
  /\ Serial => \A t \in Sessions : ~Active(t)
  /\ \E o \in Ops, i \in Instances :
     \E p \in IF o = "ssh" THEN SshPorts ELSE IF o = "web" THEN WebPorts ELSE {None},
        n \in IF o = "ssh" THEN Logins ELSE IF o = "user" THEN Adds ELSE {None},
        d \in IF o = "web" THEN Displays ELSE {None} :
       cmd' = [cmd EXCEPT ![s] =
                 [op |-> o, inst |-> i, port |-> p, name |-> n, disp |-> d,
                  pc |-> IF o = "down" THEN "down"
                         ELSE IF o # "up" /\ i \in up THEN Body(o) ELSE "mount"]]
  /\ UNCHANGED <<procs, conf, marker, forward, accounts>>

Mount(s) ==
  /\ Step(s, "mount", "prep")
  /\ up' = up \cup {cmd[s].inst}
  /\ UNCHANGED <<running, sshds, proxy, conf, marker, forward, accounts>>

\* What pgrep does not find, in any instance, is started. Nobody looks whether it
\* comes up: dbus-daemon does not over the pid file of one that was killed.
StartDaemons(i) ==
  \E started \in SUBSET {d \in Daemons : \A j \in Instances : <<j, d>> \notin running} :
    running' = running \cup ({i} \X started)

\* androlinux-session-prep.
Prep(s) ==
  /\ Step(s, "prep", "restart sshd")
  /\ StartDaemons(cmd[s].inst)
  /\ UNCHANGED <<up, sshds, proxy, conf, marker, forward, accounts>>

\* In the background, with its output thrown away.
Launch(i) ==
  /\ coming' = coming \cup {[inst |-> i, port |-> conf[i].port, allow |-> conf[i].allow]}
  /\ UNCHANGED sshd

\* An sshd listens, or exits: its configuration is refused or its port is taken.
Bind ==
  /\ \E p \in coming :
     /\ coming' = coming \ {p}
     /\ sshd' = IF p.port \in BadPorts \/ \E q \in sshd : q.port = p.port
                THEN sshd ELSE sshd \cup {p}
  /\ UNCHANGED <<up, running, proxy, conf, marker, forward, accounts, cmd>>

\* Mutant: another sshd anywhere will do.
RestartSshdUnlessAny(s) ==
  /\ Step(s, "restart sshd", Body(cmd[s].op))
  /\ IF cmd[s].inst \in marker /\ sshd = {} THEN Launch(cmd[s].inst) ELSE UNCHANGED sshds
  /\ UNCHANGED <<up, running, proxy, conf, marker, forward, accounts>>

RestartSshd(s) ==
  /\ Step(s, "restart sshd", Body(cmd[s].op))
  /\ IF cmd[s].inst \in marker THEN Launch(cmd[s].inst) ELSE UNCHANGED sshds
  /\ UNCHANGED <<up, running, proxy, conf, marker, forward, accounts>>

\* Mutant: only what listens is ended.
DownListening(s) ==
  /\ Step(s, "down", "ok")
  /\ LET i == cmd[s].inst IN
     /\ up' = up \ {i}
     /\ running' = {r \in running : r[1] # i}
     /\ sshd' = {p \in sshd : p.inst # i}
     /\ proxy' = {p \in proxy : p.inst # i}
  /\ UNCHANGED <<coming, conf, marker, forward, accounts>>

\* A teardown ends everything rooted in the rootfs (Rootfs has its steps).
Down(s) ==
  /\ Step(s, "down", "ok")
  /\ LET i == cmd[s].inst IN
     /\ up' = up \ {i}
     /\ running' = {r \in running : r[1] # i}
     /\ coming' = {p \in coming : p.inst # i}
     /\ sshd' = {p \in sshd : p.inst # i}
     /\ proxy' = {p \in proxy : p.inst # i}
  /\ UNCHANGED <<conf, marker, forward, accounts>>

\* gui._prepare_session; the session itself is in Desktop.
Prepare(s) ==
  /\ Step(s, "prepare", "ok")
  /\ StartDaemons(cmd[s].inst)
  /\ UNCHANGED <<up, sshds, proxy, conf, marker, forward, accounts>>
-----------------------------------------------------------------------------
(***************************************************************************)
(* user add                                                                *)
(***************************************************************************)
Occupants(i) == {n \in Names : uid[i][n] = 1000}

\* One more than the highest.
NextUids(i) == {u \in 1001..MaxUid : /\ \A m \in Names : uid[i][m] < u
                                    /\ \E m \in Names : uid[i][m] = u - 1}

\* The account exists, or takes over the placeholder on uid 1000 by renaming it,
\* or gets that uid, or the next one.
Account(s) ==
  /\ Step(s, "account", "groups")
  /\ LET i == cmd[s].inst
         n == cmd[s].name
         taken == Occupants(i) \cap Placeholders IN
     IF Exists(i, n) THEN UNCHANGED <<uid, inet>>
     ELSE IF taken # {}
       THEN /\ uid' = [uid EXCEPT ![i] = [m \in Names |-> IF m \in taken THEN 0
                                            ELSE IF m = n THEN 1000 ELSE @[m]]]
            /\ inet' = [inet EXCEPT ![i] =
                          IF taken \cap @ = {} THEN @ ELSE (@ \ taken) \cup {n}]
       ELSE /\ \E u \in IF Occupants(i) = {} THEN {1000} ELSE NextUids(i) :
                 uid' = [uid EXCEPT ![i][n] = u]
            /\ UNCHANGED inet
  /\ UNCHANGED <<procs, conf, marker, forward, default>>

\* Mutant: the account is recorded as soon as it is there.
GroupsRecorded(s) ==
  /\ Step(s, "groups", "network")
  /\ default' = [default EXCEPT ![cmd[s].inst] = cmd[s].name]
  /\ UNCHANGED <<procs, conf, marker, forward, uid, inet>>

\* usermod -aG with the groups of Android's network and storage ids.
Groups(s) ==
  /\ Step(s, "groups", "network")
  /\ inet' = [inet EXCEPT ![cmd[s].inst] = @ \cup {cmd[s].name}]
  /\ UNCHANGED <<procs, conf, marker, forward, uid, default>>

\* The script ends with a look-up as that user, which may fail at any time; only
\* then does the host record the account.
Network(s) ==
  /\ \E reached \in BOOLEAN : Step(s, "network", IF reached THEN "record" ELSE "failed")
  /\ UNCHANGED <<procs, conf, marker, forward, accounts>>

Record(s) ==
  /\ Step(s, "record", "ok")
  /\ default' = [default EXCEPT ![cmd[s].inst] = cmd[s].name]
  /\ UNCHANGED <<procs, conf, marker, forward, uid, inet>>
-----------------------------------------------------------------------------
(***************************************************************************)
(* ssh enable                                                              *)
(***************************************************************************)
\* user or users.default(adb).
Login(s) ==
  /\ cmd[s].pc = "login"
  /\ LET given == cmd[s].name
         n     == IF given # None THEN given ELSE default[cmd[s].inst] IN
     IF n = None THEN Goto(s, "failed")
     ELSE cmd' = [cmd EXCEPT ![s].pc = "truncate", ![s].name = n]
  /\ UNCHANGED <<procs, conf, marker, forward, accounts>>

\* cat > 10-androlinux.conf empties the file before it writes.
Truncate(s) ==
  /\ Step(s, "truncate", "configure")
  /\ conf' = [conf EXCEPT ![cmd[s].inst] = Stock]
  /\ UNCHANGED <<procs, marker, forward, accounts>>

\* The config is written before the account's home is looked up, which ends the
\* script when there is no such account.
Configure(s) ==
  /\ Step(s, "configure", IF Exists(cmd[s].inst, cmd[s].name) THEN "mark" ELSE "failed")
  /\ conf' = [conf EXCEPT ![cmd[s].inst] = [port |-> cmd[s].port, allow |-> cmd[s].name]]
  /\ UNCHANGED <<procs, marker, forward, accounts>>

Mark(s) ==
  /\ Step(s, "mark", "validate")
  /\ marker' = marker \cup {cmd[s].inst}
  /\ UNCHANGED <<procs, conf, forward, accounts>>

\* sshd -t. The marker stays where it fails.
Validate(s) ==
  /\ Step(s, "validate", IF conf[cmd[s].inst].port \in BadPorts THEN "failed" ELSE "look")
  /\ UNCHANGED <<procs, conf, marker, forward, accounts>>

\* pgrep -x sshd, whosever it is and whatever port it has.
Look(s) ==
  /\ Step(s, "look", IF coming \cup sshd # {} THEN "forward" ELSE "launch")
  /\ UNCHANGED <<procs, conf, marker, forward, accounts>>

LaunchSshd(s) ==
  /\ Step(s, "launch", "confirm")
  /\ Launch(cmd[s].inst)
  /\ UNCHANGED <<up, running, proxy, conf, marker, forward, accounts>>

Confirm(s) ==
  /\ Step(s, "confirm", IF coming \cup sshd # {} THEN "forward" ELSE "failed")
  /\ UNCHANGED <<procs, conf, marker, forward, accounts>>

\* Of ssh enable and of web.
Forward(s) ==
  /\ Step(s, "forward", "ok")
  /\ forward' = forward \cup {cmd[s].port}
  /\ UNCHANGED <<procs, conf, marker, accounts>>
-----------------------------------------------------------------------------
(***************************************************************************)
(* gui web and gui stop                                                    *)
(***************************************************************************)
\* Mutant: a proxy that runs is left to run.
KillProxiesNot(s) ==
  /\ Step(s, "kill proxies", IF cmd[s].op = "web" THEN "serve" ELSE "unforward")
  /\ UNCHANGED <<procs, conf, marker, forward, accounts>>

\* pkill -f 'websockify --web', run as root: the proxies of every instance.
KillProxies(s) ==
  /\ Step(s, "kill proxies", IF cmd[s].op = "web" THEN "serve" ELSE "unforward")
  /\ proxy' = {}
  /\ UNCHANGED <<up, running, sshds, conf, marker, forward, accounts>>

Serve(s) ==
  /\ Step(s, "serve", "curl")
  /\ proxy' = IF \E p \in proxy : p.port = cmd[s].port THEN proxy
              ELSE proxy \cup {[inst |-> cmd[s].inst, port |-> cmd[s].port, to |-> cmd[s].disp]}
  /\ UNCHANGED <<up, running, sshds, conf, marker, forward, accounts>>

\* Any proxy on the port answers with 200.
Curl(s) ==
  /\ Step(s, "curl", IF \E p \in proxy : p.port = cmd[s].port THEN "forward" ELSE "failed")
  /\ UNCHANGED <<procs, conf, marker, forward, accounts>>

\* stop removes the forward of the default port, whatever port web was given. (That
\* of the VNC port, which gui start adds, is left out.)
Unforward(s) ==
  /\ Step(s, "unforward", "ok")
  /\ forward' = forward \ {DefaultWeb}
  /\ UNCHANGED <<procs, conf, marker, accounts>>
-----------------------------------------------------------------------------
Cut(s) ==
  /\ Cuts
  /\ Active(s)
  /\ Goto(s, "failed")
  /\ UNCHANGED <<procs, conf, marker, forward, accounts>>

Crash ==
  /\ Crashes
  /\ \/ \E r \in running : running' = running \ {r} /\ UNCHANGED <<sshd, proxy>>
     \/ \E p \in sshd : sshd' = sshd \ {p} /\ UNCHANGED <<running, proxy>>
     \/ \E p \in proxy : proxy' = proxy \ {p} /\ UNCHANGED <<running, sshd>>
  /\ UNCHANGED <<up, coming, conf, marker, forward, accounts, cmd>>

Reboot ==
  /\ up' = {} /\ running' = {} /\ coming' = {} /\ sshd' = {} /\ proxy' = {} /\ forward' = {}
  /\ cmd' = [s \in Sessions |-> IF Active(s) THEN Nothing("failed") ELSE cmd[s]]
  /\ UNCHANGED <<conf, marker, accounts>>

Command(s) ==
  \/ Mount(s) \/ Prep(s) \/ RestartSshd(s) \/ Down(s) \/ Prepare(s)
  \/ Account(s) \/ Groups(s) \/ Network(s) \/ Record(s)
  \/ Login(s) \/ Truncate(s) \/ Configure(s) \/ Mark(s) \/ Validate(s)
  \/ Look(s) \/ LaunchSshd(s) \/ Confirm(s) \/ Forward(s)
  \/ KillProxies(s) \/ Serve(s) \/ Curl(s) \/ Unforward(s)

Next ==
  \/ \E s \in Sessions : Begin(s) \/ Command(s) \/ Cut(s)
  \/ Bind \/ Crash \/ Reboot

Spec == Init /\ [][Next]_vars
=============================================================================
