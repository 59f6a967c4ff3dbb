------------------------------ MODULE Desktop ------------------------------
(***************************************************************************)
(* The desktop sessions of the instances on one device: which X display an *)
(* instance uses (pick-display.sh), how gui-start.sh starts, replaces or   *)
(* leaves alone the server on it, the on-device start.sh and boot.sh, and  *)
(* gui.stop.                                                               *)
(*                                                                         *)
(* Instances have a /tmp of their own, which outlives `down` and reboots,  *)
(* and share everything else: the RFB ports, the process ids and the uids. *)
(***************************************************************************)
EXTENDS Naturals, FiniteSets

CONSTANTS
  Instances,
  Sessions,    \* commands being carried out, and jobs they leave behind
  Jobs,        \* the sessions among them that only such jobs use
  Displays,    \* display numbers; RFB port 5900+n belongs to display n
  None,
  Ops,         \* what is asked for, a subset of AllOps
  Wants,       \* the values of --display, None when it is not given
  Owners,      \* who a session may be run as, "root" or "user"
  Baked,       \* [i] : the display `autostart enable` wrote into the scripts
  Serial,      \* a command starts only when no other is being carried out
  HardStops,   \* down, with its kill -9, and reboots happen
  Slow,        \* a server may come or go later than gui-start.sh waits for
  Crashes      \* a session may end with its X server left running

AllOps == {"start", "restart", "stop", "tap", "boot"}

Server == [inst : Instances, user : {"root", "user"}, session : {"starting", "up", "gone"}]

ASSUME ConstantsAssumption ==
  /\ Ops \subseteq AllOps
  /\ Jobs \subseteq Sessions
  /\ Displays \subseteq Nat \ {0}
  /\ IsFiniteSet(Displays)
  /\ 1 \in Displays
  /\ None \notin Displays /\ None \notin Instances /\ None \notin AllOps /\ None \notin Server
  /\ Wants \subseteq Displays \cup {None}
  /\ Owners \subseteq {"root", "user"}
  /\ Baked \in [Instances -> Displays]
  /\ {Serial, HardStops, Slow, Crashes} \subseteq BOOLEAN

VARIABLES
  up,        \* instances whose rootfs is mounted
  display,   \* [i] : the display recorded in $ALX_ROOT/display
  socket,    \* <<i, n>> : /tmp/.X11-unix/Xn exists in i's rootfs
  port,      \* [n] : the server listening on display n's port
  bus,       \* <<i, u>> : i has session processes of u (dbus-launch, ...)
  coming,    \* <<i, n, u>> : vncserver has been spawned, its port not yet bound
  op, inst,  \* [s] : the command of session s, and its instance
  user,      \* [s] : who it runs the session as
  want,      \* [s] : its --display
  seen,      \* [s] : the ports it saw busy
  disp,      \* [s] : the display it has settled on
  pc

shared  == <<up, display, socket, port, bus, coming>>
request == <<op, inst, user, want>>
vars    == <<shared, request, seen, disp, pc>>

Ended     == {"idle", "ok", "failed"}
Active(s) == pc[s] \notin Ended

\* The steps of gui-start.sh, carried out by a process of the rootfs.
InRootfs  == {"check", "kill", "signal", "reap", "clean", "leftovers", "launch",
              "wait", "server", "session"}

Open(n)      == port[n] # None
Serves(i, n) == Open(n) /\ port[n].inst = i
Ours(i, n)   == <<i, n>> \in socket

\* What pgrep finds and pkill reaches: /proc is mounted hidepid=2, and uid 1000
\* is the same uid in every instance.
Sees(u, v)   == u = "root" \/ u = v

Goto(s, label) == pc' = [pc EXCEPT ![s] = label]

Init ==
  /\ up      = {}
  /\ display = [i \in Instances |-> None]
  /\ socket  = {}
  /\ port    = [n \in Displays |-> None]
  /\ bus     = {}
  /\ coming  = {}
  /\ op      = [s \in Sessions |-> None]
  /\ inst    = [s \in Sessions |-> None]
  /\ user    = [s \in Sessions |-> None]
  /\ want    = [s \in Sessions |-> None]
  /\ seen    = [s \in Sessions |-> {}]
  /\ disp    = [s \in Sessions |-> None]
  /\ pc      = [s \in Sessions |-> "idle"]

Asked(s, o, i, u, d) ==
  /\ op'   = [op   EXCEPT ![s] = o]
  /\ inst' = [inst EXCEPT ![s] = i]
  /\ user' = [user EXCEPT ![s] = u]
  /\ want' = [want EXCEPT ![s] = d]

FirstStep == [start |-> "listen", restart |-> "listen", stop |-> "stop",
              tap |-> "tap", boot |-> "hook"]

Begin(s, o, i, u, d) ==
  /\ ~Active(s) /\ s \notin Jobs
  /\ Serial => \A t \in Sessions : ~Active(t)
  /\ o \in {"tap", "boot"} => d = None
  /\ Asked(s, o, i, u, d)
  /\ Goto(s, FirstStep[o])
  /\ seen' = [seen EXCEPT ![s] = {}]
  /\ disp' = [disp EXCEPT ![s] = None]
  /\ UNCHANGED shared

-----------------------------------------------------------------------------
(* How servers and sessions end.                                           *)

\* The servers on the displays N exit and take their sockets with them.  What
\* else belonged to their sessions may live on.
ServersExit(N) ==
  LET owners == {<<port[n].inst, port[n].user>> : n \in N}
      others == {<<port[n].inst, port[n].user>> : n \in {m \in Displays \ N : Open(m)}} IN
  /\ port'   = [n \in Displays |-> IF n \in N THEN None ELSE port[n]]
  /\ socket' = socket \ {<<port[n].inst, n>> : n \in N}
  /\ \E ended \in SUBSET (owners \ others) : bus' = bus \ ended

\* The sessions on N lose their processes; "Xvnc tears the session down when
\* its startup process ends", or is left running.
SessionsDie(N) ==
  \E gone \in SUBSET N :
    /\ port'   = [n \in Displays |-> IF n \in gone THEN None
                                     ELSE IF n \in N THEN [port[n] EXCEPT !.session = "gone"]
                                     ELSE port[n]]
    /\ socket' = socket \ {<<port[n].inst, n>> : n \in gone}

\* vncserver -kill, run as u, finds its target through the pidfile in u's home,
\* which goes stale.
VncKill(i, n, u) ==
  \/ Serves(i, n) /\ port[n].user = u /\ ServersExit({n})
  \/ UNCHANGED <<socket, port, bus>>

VisibleServers(u) == {n \in Displays : Open(n) /\ Sees(u, port[n].user)}

\* kill_session_components, run as u.
KillComponents(u) ==
  /\ SessionsDie(VisibleServers(u))
  /\ bus' = {b \in bus : ~Sees(u, b[2])}

-----------------------------------------------------------------------------
(* pick-display.sh.                                                        *)

\* LISTENING is read once ...
Listen(s) ==
  /\ pc[s] = "listen"
  /\ seen' = [seen EXCEPT ![s] = {n \in Displays : Open(n)}]
  /\ Goto(s, "choose")
  /\ UNCHANGED <<shared, request, disp>>

\* ... the socket is looked for behind the mount point, if it is mounted.
Usable(s, n) == n \notin seen[s] \/ (inst[s] \in up /\ Ours(inst[s], n))

\* Mutant: a recorded display is used as it stands.
ChoicesRecorded(s) ==
  LET usable == {n \in Displays : Usable(s, n)}  old == display[inst[s]] IN
  IF want[s] # None   THEN {want[s]}
  ELSE IF old # None  THEN {old}
  ELSE {n \in usable : \A m \in usable : n <= m}

\* Mutant: the loop over the displays ends without a result.
ChoicesOrNone(s) ==
  LET usable == {n \in Displays : Usable(s, n)} IN
  IF want[s] # None   THEN {want[s]}
  ELSE IF usable = {} THEN {None}
  ELSE {n \in usable : \A m \in usable : n <= m}

Choices(s) ==
  LET usable == {n \in Displays : Usable(s, n)}  old == display[inst[s]] IN
  IF want[s] # None      THEN {want[s]}
  ELSE IF old \in usable THEN {old}
  ELSE {n \in usable : \A m \in usable : n <= m}

Choose(s) ==
  /\ pc[s] = "choose"
  /\ \E n \in Choices(s) : /\ disp'    = [disp EXCEPT ![s] = n]
                           /\ display' = [display EXCEPT ![inst[s]] = n]
  /\ Goto(s, "prep")
  /\ UNCHANGED <<up, socket, port, bus, coming, request, seen>>

NoneLeft(s) ==
  /\ pc[s] = "choose"
  /\ Choices(s) = {}
  /\ Goto(s, "failed")
  /\ UNCHANGED <<shared, request, seen, disp>>

\* _prepare_session, through container.run, which brings the rootfs up, or
\* fails to: the display stays recorded.
Prepare(s) ==
  /\ pc[s] = "prep"
  /\ \/ up' = up \cup {inst[s]} /\ Goto(s, "check")
     \/ UNCHANGED up /\ Goto(s, "failed")
  /\ UNCHANGED <<display, socket, port, bus, coming, request, seen, disp>>

-----------------------------------------------------------------------------
(* gui-start.sh, which runs as user[s].                                    *)

\* Mutant: a port that answers is taken for our own server.
CheckPortOnly(s) ==
  /\ pc[s] = "check"
  /\ Goto(s, IF ~Open(disp[s])          THEN "clean"
             ELSE IF op[s] # "restart"  THEN "ok"
             ELSE "kill")
  /\ UNCHANGED <<shared, request, seen, disp>>

\* Mutant: a running desktop is always replaced.
CheckReplaces(s) ==
  LET n == disp[s]  ours == Ours(inst[s], n) IN
  /\ pc[s] = "check"
  /\ Goto(s, IF ~Open(n) THEN "clean" ELSE IF ours THEN "kill" ELSE "failed")
  /\ UNCHANGED <<shared, request, seen, disp>>

Check(s) ==
  LET n == disp[s]  ours == Ours(inst[s], n) IN
  /\ pc[s] = "check"
  /\ Goto(s, IF ~Open(n)                THEN "clean"
             ELSE IF ~ours              THEN "failed"    \* held by something outside
             ELSE IF op[s] # "restart"  THEN "ok"        \* left untouched
             ELSE "kill")
  /\ UNCHANGED <<shared, request, seen, disp>>

KillServer(s) ==
  LET n == disp[s] IN
  /\ pc[s] = "kill"
  /\ VncKill(inst[s], n, user[s])
  /\ Goto(s, IF port'[n] = None THEN "reap" ELSE "signal")
  /\ UNCHANGED <<up, display, coming, request, seen, disp>>

\* Mutant: nobody looks whether the port was released.
SignalOnly(s) ==
  /\ pc[s] = "signal"
  /\ ServersExit(VisibleServers(user[s]))
  /\ Goto(s, "reap")
  /\ UNCHANGED <<up, display, coming, request, seen, disp>>

\* pkill -x Xtigervnc; a server that still holds the port, somebody else's or
\* one that takes longer to go, is left alone.
Signal(s) ==
  /\ pc[s] = "signal"
  /\ \E late \in SUBSET VisibleServers(user[s]) :
       /\ late # {} => Slow
       /\ ServersExit(VisibleServers(user[s]) \ late)
  /\ Goto(s, IF port'[disp[s]] = None THEN "reap" ELSE "failed")
  /\ UNCHANGED <<up, display, coming, request, seen, disp>>

Reap(s) ==
  /\ pc[s] = "reap"
  /\ KillComponents(user[s])
  /\ Goto(s, "clean")
  /\ UNCHANGED <<up, display, coming, request, seen, disp>>

\* "A socket with nothing listening behind it is genuinely stale."
Clean(s) ==
  /\ pc[s] = "clean"
  /\ socket' = socket \ {<<inst[s], disp[s]>>}
  /\ Goto(s, "leftovers")
  /\ UNCHANGED <<up, display, port, bus, coming, request, seen, disp>>

\* pgrep -x dbus-launch: a dbus-launch of any instance is a leftover.
Leftovers(s) ==
  /\ pc[s] = "leftovers"
  /\ IF \E b \in bus : Sees(user[s], b[2])
       THEN KillComponents(user[s])
       ELSE UNCHANGED <<socket, port, bus>>
  /\ Goto(s, "launch")
  /\ UNCHANGED <<up, display, coming, request, seen, disp>>

Launch(s) ==
  /\ pc[s] = "launch"
  /\ coming' = coming \cup {<<inst[s], disp[s], user[s]>>}
  /\ Goto(s, "wait")
  /\ UNCHANGED <<up, display, socket, port, bus, request, seen, disp>>

\* Mutant: the poll for the socket has no end.
WaitForSocket(s) ==
  /\ pc[s] = "wait"
  /\ Ours(inst[s], disp[s])
  /\ Goto(s, "server")
  /\ UNCHANGED <<shared, request, seen, disp>>

\* The poll for the socket: it is there, or 45 seconds have passed.
Wait(s) ==
  LET i == inst[s]  n == disp[s] IN
  /\ pc[s] = "wait"
  /\ Ours(i, n) \/ Slow \/ <<i, n, user[s]>> \notin coming
  /\ Goto(s, IF Ours(i, n) THEN "server" ELSE "failed")
  /\ UNCHANGED <<shared, request, seen, disp>>

\* pgrep -x Xtigervnc.
SeeServer(s) ==
  /\ pc[s] = "server"
  /\ Goto(s, IF VisibleServers(user[s]) # {} THEN "session" ELSE "failed")
  /\ UNCHANGED <<shared, request, seen, disp>>

\* The wait for the compositor ends in a message or in a warning.
SeeSession(s) ==
  /\ pc[s] = "session"
  /\ Goto(s, "ok")
  /\ UNCHANGED <<shared, request, seen, disp>>

-----------------------------------------------------------------------------
(* start.sh and boot.sh, run on the device as root, and gui.stop.          *)

Running == \E n \in Displays : Open(n)

\* start.sh's short cut looks at its own mount and at anybody's processes.
LooksAlive(s) == /\ inst[s] \in up
                 /\ \E n \in Displays : Open(n) /\ port[n].session = "up"

\* "already running -- opening the viewer".
AlreadyRunning(s) ==
  /\ pc[s] = "tap"
  /\ LooksAlive(s)
  /\ Goto(s, "ok")
  /\ UNCHANGED <<shared, request, seen, disp>>

\* boot.sh brings the rootfs up and leaves gui-start.sh running behind it, on
\* the display that was written into it.
RunHook(s, t) ==
  /\ pc[s] = "tap" => ~LooksAlive(s)
  /\ pc[s] \in {"tap", "hook"}
  /\ ~Active(t)
  /\ up'   = up \cup {inst[s]}
  /\ Asked(t, "boot", inst[s], user[s], None)
  /\ disp' = [disp EXCEPT ![t] = Baked[inst[s]]]
  /\ pc'   = [pc EXCEPT ![t] = "check", ![s] = IF pc[s] = "tap" THEN "poll" ELSE "ok"]
  /\ UNCHANGED <<display, socket, port, bus, coming, seen>>

\* up.sh fails, or chroot-exec is missing: boot.sh logs it and exits 0, and
\* start.sh asks only whether the rootfs is mounted.
HookFails(s) ==
  /\ pc[s] = "tap" => ~LooksAlive(s)
  /\ pc[s] \in {"tap", "hook"}
  /\ Goto(s, IF pc[s] = "hook"       THEN "ok"
             ELSE IF inst[s] \in up THEN "poll"
             ELSE "failed")
  /\ UNCHANGED <<shared, request, seen, disp>>

\* start.sh polls for an X server for 30 seconds, which outlasts a start that
\* is under way unless the server is slow.
Poll(s) ==
  /\ pc[s] = "poll"
  /\ Running \/ Slow \/ \A t \in Sessions : pc[t] \notin InRootfs
  /\ Goto(s, IF Running THEN "ok" ELSE "failed")
  /\ UNCHANGED <<shared, request, seen, disp>>

\* gui.stop runs vncserver -kill as root, whoever the session was run as.
Stop(s) ==
  LET i == inst[s]
      n == IF want[s] # None THEN want[s] ELSE IF display[i] # None THEN display[i] ELSE 1 IN
  /\ pc[s] = "stop"
  /\ up' = up \cup {i}
  /\ VncKill(i, n, "root")
  /\ disp' = [disp EXCEPT ![s] = n]
  /\ Goto(s, "ok")
  /\ UNCHANGED <<display, coming, request, seen>>

-----------------------------------------------------------------------------
(* What nobody asks for.                                                   *)

\* A spawned server binds its port, or finds its port or its socket taken.
Bind(i, n, u) ==
  /\ <<i, n, u>> \in coming
  /\ coming' = coming \ {<<i, n, u>>}
  /\ IF Open(n) \/ Ours(i, n)
       THEN UNCHANGED <<socket, port, bus>>
       ELSE /\ port'   = [port EXCEPT ![n] = [inst |-> i, user |-> u, session |-> "starting"]]
            /\ socket' = socket \cup {<<i, n>>}
            /\ bus'    = bus \cup {<<i, u>>}
  /\ UNCHANGED <<up, display, request, seen, disp, pc>>

SessionUp(n) ==
  /\ Open(n)
  /\ port[n].session = "starting"
  /\ port' = [port EXCEPT ![n].session = "up"]
  /\ UNCHANGED <<up, display, socket, bus, coming, request, seen, disp, pc>>

SessionCrash(n) ==
  /\ Crashes
  /\ Open(n)
  /\ port[n].session = "up"
  /\ SessionsDie({n})
  /\ UNCHANGED <<up, display, bus, coming, request, seen, disp, pc>>

\* up, run and enter mount the rootfs.
BringUp(i) ==
  /\ i \notin up
  /\ up' = up \cup {i}
  /\ UNCHANGED <<display, socket, port, bus, coming, request, seen, disp, pc>>

\* down kills everything in the rootfs; the sockets stay in the image.
Down(i) ==
  /\ HardStops
  /\ Serial => \A s \in Sessions : ~Active(s)
  /\ up'     = up \ {i}
  /\ port'   = [n \in Displays |-> IF Serves(i, n) THEN None ELSE port[n]]
  /\ bus'    = {b \in bus : b[1] # i}
  /\ coming' = {c \in coming : c[1] # i}
  /\ pc'     = [s \in Sessions |-> IF inst[s] = i /\ pc[s] \in InRootfs THEN "failed" ELSE pc[s]]
  /\ UNCHANGED <<display, socket, request, seen, disp>>

Reboot ==
  /\ HardStops
  /\ up'     = {}
  /\ port'   = [n \in Displays |-> None]
  /\ bus'    = {}
  /\ coming' = {}
  /\ pc'     = [s \in Sessions |-> IF Active(s) THEN "failed" ELSE pc[s]]
  /\ UNCHANGED <<display, socket, request, seen, disp>>

PickDisplay(s) == Listen(s) \/ Choose(s) \/ NoneLeft(s) \/ Prepare(s)
GuiStart(s) == \/ Check(s) \/ KillServer(s) \/ Signal(s) \/ Reap(s) \/ Clean(s)
               \/ Leftovers(s) \/ Launch(s) \/ Wait(s) \/ SeeServer(s) \/ SeeSession(s)
OnDevice(s) == AlreadyRunning(s) \/ HookFails(s) \/ Poll(s) \/ \E t \in Jobs : RunHook(s, t)
Step(s) == PickDisplay(s) \/ GuiStart(s) \/ OnDevice(s) \/ Stop(s)

Next ==
  \/ \E s \in Sessions :
       \/ \E o \in Ops, i \in Instances, u \in Owners, d \in Wants : Begin(s, o, i, u, d)
       \/ Step(s)
  \/ \E i \in Instances, n \in Displays, u \in Owners : Bind(i, n, u)
  \/ \E n \in Displays : SessionUp(n) \/ SessionCrash(n)
  \/ \E i \in Instances : BringUp(i) \/ Down(i)
  \/ Reboot

Spec     == Init /\ [][Next]_vars
FairSpec == Spec /\ \A s \in Sessions : WF_vars(Step(s))
=============================================================================
