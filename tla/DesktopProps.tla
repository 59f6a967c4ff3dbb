---------------------------- MODULE DesktopProps ----------------------------
(***************************************************************************)
(* What starting, tapping and stopping promise about a desktop, stated     *)
(* over the state of module Desktop.                                       *)
(***************************************************************************)
EXTENDS Desktop

\* The type invariant; a session at work has an instance and an owner, and one
\* that has picked a display has one.
TypeOK ==
  /\ up \in SUBSET Instances
  /\ display \in [Instances -> Displays \cup {None}]
  /\ socket \in SUBSET (Instances \X Displays)
  /\ port \in [Displays -> Server \cup {None}]
  /\ bus \in SUBSET (Instances \X {"root", "user"})
  /\ coming \in SUBSET (Instances \X Displays \X {"root", "user"})
  /\ op \in [Sessions -> AllOps \cup {None}]
  /\ inst \in [Sessions -> Instances \cup {None}]
  /\ user \in [Sessions -> {"root", "user", None}]
  /\ want \in [Sessions -> Displays \cup {None}]
  /\ seen \in [Sessions -> SUBSET Displays]
  /\ disp \in [Sessions -> Displays \cup {None}]
  /\ pc \in [Sessions -> Ended \cup InRootfs \cup
              {"listen", "choose", "prep", "stop", "tap", "hook", "poll"}]
  /\ \A s \in Sessions : Active(s) =>
       /\ op[s] \in AllOps /\ inst[s] \in Instances /\ user[s] \in {"root", "user"}
       /\ pc[s] \in InRootfs \cup {"prep"} => disp[s] \in Displays

-----------------------------------------------------------------------------
(* Displays.                                                               *)

\* A display picked without --display is free or held by the instance's own
\* server: "a stored value is only good if the port is free, or busy because
\* of our own server" (pick-display.sh:13).
NoForeignDisplay ==
  \A s \in Sessions : pc[s] \in {"prep", "check"} /\ want[s] = None /\ op[s] # "boot" =>
    ~Open(disp[s]) \/ Serves(inst[s], disp[s])

\* A start that reports success has this instance's server, and no other's,
\* behind the port it goes on to forward.
StartServes ==
  [][\A s \in Sessions :
       pc[s] \in {"check", "session"} /\ pc'[s] = "ok" => Serves(inst[s], disp[s])]_vars

\* A live server keeps its socket: without it the session can be neither
\* reached nor recognised ("the socket must not be removed until the old
\* server is confirmed gone").
SocketKept == \A n \in Displays : Open(n) => Ours(port[n].inst, n)

-----------------------------------------------------------------------------
(* Sessions.                                                               *)

\* The desktop on display n, which was up, ends in this step.
Ends(n) == /\ Open(n) /\ port[n].session = "up"
           /\ port'[n] = None \/ port'[n].session = "gone"

\* Session s takes a step that signals processes.
Signals(s) == /\ pc[s] \in {"kill", "signal", "reap", "leftovers"}
              /\ pc'[s] \notin {pc[s], "failed"}

\* Only an explicit restart ends the instance's own desktop: a tap on the
\* widget "while the desktop is up does not disturb it".
OwnDesktopKept ==
  [][\A s \in Sessions, n \in Displays :
       Signals(s) /\ Serves(inst[s], n) /\ Ends(n) => op[s] = "restart"]_vars

\* No start, restart included, ends the desktop of another instance: the
\* leftovers it clears are "from a previous run" of its own.  Not part of a
\* passing run.
OthersDesktopKept ==
  [][\A s \in Sessions, n \in Displays : Signals(s) /\ Ends(n) => Serves(inst[s], n)]_vars

\* A session is left untouched only if it is alive: on the device a dead one
\* makes start.sh "fall through and rebuild".  Not part of a passing run.
UntouchedIsAlive ==
  [][\A s \in Sessions : pc[s] = "check" /\ pc'[s] = "ok" =>
       port[disp[s]].session # "gone"]_vars

\* When start.sh says the desktop is running, the instance it was asked for has
\* a server: it is to "report what actually came up rather than assuming it
\* did" (start.sh:48).  It looks for any Xtigervnc on the device (start.sh:36, 57,
\* 63).  Not part of a passing run.
TapReady ==
  [][\A s \in Sessions : pc[s] \in {"tap", "poll"} /\ pc'[s] = "ok" =>
       \E n \in Displays : Serves(inst[s], n)]_vars

\* gui stop ends the desktop on the display it names: "kill the desktop
\* session".  Not part of a passing run.
StopStops ==
  [][\A s \in Sessions : pc[s] = "stop" /\ pc'[s] = "ok" =>
       port'[disp'[s]] = None \/ port'[disp'[s]].inst # inst[s]]_vars

\* Every start ends, whatever becomes of its server and whoever starts another
\* one meanwhile: none of its waits is without a bound.
StartsEnd == \A s \in Sessions : Active(s) ~> ~Active(s)
=============================================================================
