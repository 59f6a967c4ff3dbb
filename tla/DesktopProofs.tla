--------------------------- MODULE DesktopProofs ---------------------------
(***************************************************************************)
(* Displays, servers and their sockets, for every set of instances,        *)
(* sessions and displays.                                                  *)
(***************************************************************************)
EXTENDS DesktopProps, TLAPS

Labels == Ended \cup InRootfs \cup
            {"listen", "choose", "prep", "stop", "tap", "hook", "poll"}

\* The parts of TypeOK: what the instances share, and what a session has settled.
SharedOK ==
  /\ up \in SUBSET Instances
  /\ display \in [Instances -> Displays \cup {None}]
  /\ socket \in SUBSET (Instances \X Displays)
  /\ port \in [Displays -> Server \cup {None}]
  /\ bus \in SUBSET (Instances \X {"root", "user"})
  /\ coming \in SUBSET (Instances \X Displays \X {"root", "user"})

SessionsOK ==
  /\ op \in [Sessions -> AllOps \cup {None}]
  /\ inst \in [Sessions -> Instances \cup {None}]
  /\ user \in [Sessions -> {"root", "user", None}]
  /\ want \in [Sessions -> Displays \cup {None}]
  /\ seen \in [Sessions -> SUBSET Displays]
  /\ disp \in [Sessions -> Displays \cup {None}]
  /\ pc \in [Sessions -> Labels]

Settled(s) ==
  Active(s) => /\ op[s] \in AllOps /\ inst[s] \in Instances /\ user[s] \in {"root", "user"}
               /\ pc[s] \in InRootfs \cup {"prep"} => disp[s] \in Displays

-----------------------------------------------------------------------------
\* Two commands are at work only while start.sh polls for what boot.sh started.
OneWorks ==
  \A s, t \in Sessions : s # t /\ Active(s) /\ Active(t) =>
    \/ pc[s] = "poll" /\ pc[t] \in InRootfs
    \/ pc[t] = "poll" /\ pc[s] \in InRootfs

\* A server that is spawned is waited for, and its socket is not there yet.
Spawned ==
  \A c \in coming : \E s \in Sessions :
    /\ pc[s] = "wait" /\ c = <<inst[s], disp[s], user[s]>>
    /\ ~Ours(inst[s], disp[s])

\* What gui-start.sh has made sure of on its way to the launch.
Freed(s) ==
  /\ pc[s] \in {"reap", "clean", "leftovers", "launch"} => ~Open(disp[s])
  /\ pc[s] \in {"leftovers", "launch"} => ~Ours(inst[s], disp[s])

SocketInv == /\ TypeOK /\ OneWorks /\ Spawned
             /\ \A s \in Sessions : Freed(s)
             /\ SocketKept

-----------------------------------------------------------------------------
\* As long as nothing but a server's exit ends it, each socket has its server.
Backed == \A i \in Instances, n \in Displays : Ours(i, n) => Serves(i, n)

\* Nobody has bound a port since it was looked at.
SeenStill(s) == pc[s] = "choose" => \A n \in Displays \ seen[s] : ~Open(n)

\* NoForeignDisplay, of one session.
Held(s) == pc[s] \in {"prep", "check"} /\ want[s] = None /\ op[s] # "boot" =>
             ~Open(disp[s]) \/ Serves(inst[s], disp[s])

DisplayInv == /\ SocketInv /\ Backed
              /\ \A s \in Sessions : SeenStill(s) /\ Held(s)

\* The server that was waited for is there.
Reached(s) == pc[s] \in {"server", "session"} => Serves(inst[s], disp[s])

ReachInv == DisplayInv /\ \A s \in Sessions : Reached(s)
-----------------------------------------------------------------------------
Boots  == "tap" \in Ops \/ "boot" \in Ops
Single == \A i, j \in Instances : i = j

\* Where an instance has its server: on the display that was recorded last or, where
\* the boot scripts, which do not look there, are used, on the first.
Place(i) == IF Boots THEN 1 ELSE display[i]

\* Nobody asks for another display; the boot scripts are written for the first, and
\* nothing can be in the way there.
Home == IF Boots THEN /\ Single /\ ~Crashes
                      /\ \A i \in Instances : Baked[i] = 1
                      /\ Wants \subseteq {None, 1}
                 ELSE Wants \subseteq {None}

\* A server is its instance's only one, and its rootfs is mounted.
Sited == \A n \in Displays : Open(n) => port[n].inst \in up /\ n = Place(port[n].inst)

\* What a session has seen to: its display is its instance's place, its rootfs is up
\* while it works there, and only a restart gets to kill.
AtHome(s) ==
  /\ pc[s] \in InRootfs \cup {"prep"} => disp[s] = Place(inst[s])
  /\ pc[s] \in InRootfs => inst[s] \in up
  /\ Active(s) => want[s] \in Wants \cup {None}
  /\ pc[s] \in {"kill", "signal", "reap"} => op[s] = "restart"
  /\ pc[s] \in {"tap", "hook", "poll"} => Boots
  /\ pc[s] = "choose" /\ Boots /\ 1 \in seen[s] => inst[s] \in up /\ Ours(inst[s], 1)

HomeInv ==
  /\ SocketInv /\ Sited
  /\ Boots => \A i \in Instances : display[i] \in {None, 1}
  /\ \A s \in Sessions : AtHome(s)
-----------------------------------------------------------------------------
(* Types.                                                                  *)

LEMMA TypeParts == TypeOK <=> SharedOK /\ SessionsOK /\ \A s \in Sessions : Settled(s)
  BY DEF TypeOK, SharedOK, SessionsOK, Settled, Labels

LEMMA NextParts ==
  ASSUME SharedOK', SessionsOK', \A s \in Sessions : Settled(s)'
  PROVE  TypeOK'
  BY DEF TypeOK, SharedOK, SessionsOK, Settled, Labels, Active

\* A step of one session that keeps what it was asked for.
LEMMA MovesTyped ==
  ASSUME TypeOK, NEW s \in Sessions, NEW to \in Labels, Goto(s, to), Active(s), SharedOK',
         UNCHANGED <<request, seen>>,
         disp' \in [Sessions -> Displays \cup {None}],
         \A t \in Sessions : t # s => disp'[t] = disp[t],
         to \in InRootfs \cup {"prep"} => disp'[s] \in Displays
  PROVE  TypeOK'
  <1>1. SessionsOK'
    BY TypeParts DEF SessionsOK, Goto, request
  <1>2. ASSUME NEW t \in Sessions PROVE Settled(t)'
    BY <1>1, TypeParts DEF SessionsOK, Settled, Goto, request, Active
  <1>3. QED
    BY <1>1, <1>2, NextParts

\* One that keeps what it has settled, too.
LEMMA StepsTyped ==
  ASSUME TypeOK, NEW s \in Sessions, NEW to \in Labels, Goto(s, to), Active(s), SharedOK',
         UNCHANGED <<request, seen, disp>>,
         to \in InRootfs \cup {"prep"} => pc[s] \in InRootfs \cup {"prep"}
  PROVE  TypeOK'
  <1>1. /\ disp' \in [Sessions -> Displays \cup {None}]
        /\ \A t \in Sessions : t # s => disp'[t] = disp[t]
    BY TypeParts DEF SessionsOK
  <1>2. to \in InRootfs \cup {"prep"} => disp'[s] \in Displays
    BY TypeParts DEF Settled
  <1>3. QED
    BY <1>1, <1>2, MovesTyped

\* Servers that end: the ports in `gone` are free, and their sockets with them; any
\* other server stays its instance's, and no process is added.
Shrinks(gone) ==
  /\ gone \in SUBSET {n \in Displays : Open(n)}
  /\ port' \in [Displays -> Server \cup {None}]
  /\ \A n \in Displays :
       IF n \in gone THEN port'[n] = None
       ELSE (port'[n] # None <=> Open(n)) /\ (Open(n) => port'[n].inst = port[n].inst)
  /\ socket' = socket \ {<<port[n].inst, n>> : n \in gone}
  /\ bus' \subseteq bus

LEMMA ServersShrink ==
  ASSUME SharedOK, NEW N \in SUBSET {n \in Displays : Open(n)}, ServersExit(N)
  PROVE  Shrinks(N)
  BY DEF SharedOK, ServersExit, Shrinks, Open

LEMMA SessionsShrink ==
  ASSUME SharedOK, NEW N \in SUBSET {n \in Displays : Open(n)}, SessionsDie(N), bus' \subseteq bus
  PROVE  \E gone \in SUBSET Displays : Shrinks(gone)
  <1>1. PICK gone \in SUBSET N :
          /\ port' = [n \in Displays |-> IF n \in gone THEN None
                                         ELSE IF n \in N THEN [port[n] EXCEPT !.session = "gone"]
                                         ELSE port[n]]
          /\ socket' = socket \ {<<port[n].inst, n>> : n \in gone}
    BY DEF SessionsDie
  <1>2. \A n \in N : /\ [port[n] EXCEPT !.session = "gone"] \in Server
                     /\ [port[n] EXCEPT !.session = "gone"].inst = port[n].inst
    BY DEF SharedOK, Open, Server
  <1>3. Shrinks(gone)
    BY <1>1, <1>2, ConstantsAssumption DEF SharedOK, Shrinks, Open
  <1>4. QED
    BY <1>3

LEMMA ComponentsShrink ==
  ASSUME SharedOK, NEW u, KillComponents(u)
  PROVE  \E gone \in SUBSET Displays : Shrinks(gone)
  BY SessionsShrink DEF KillComponents, VisibleServers

LEMMA NothingShrinks ==
  ASSUME SharedOK, UNCHANGED <<socket, port, bus>>
  PROVE  Shrinks({})
  BY DEF SharedOK, Shrinks, Open

\* What a session at work has settled.
LEMMA AtWork ==
  ASSUME TypeOK, NEW s \in Sessions, Active(s)
  PROVE  /\ inst[s] \in Instances /\ user[s] \in {"root", "user"} /\ op[s] \in AllOps
         /\ pc[s] \in InRootfs \cup {"prep"} => disp[s] \in Displays
  BY TypeParts DEF Settled

\* The display gui.stop settles on.
StopAt(s) == IF want[s] # None THEN want[s]
             ELSE IF display[inst[s]] # None THEN display[inst[s]] ELSE 1

LEMMA StopHasDisplay ==
  ASSUME TypeOK, NEW s \in Sessions, Active(s)
  PROVE  StopAt(s) \in Displays
  BY TypeParts, AtWork, ConstantsAssumption DEF StopAt, SharedOK, SessionsOK

\* The steps that end servers do nothing else to what is shared.
LEMMA EndingSteps ==
  ASSUME TypeOK, NEW s \in Sessions,
         KillServer(s) \/ Signal(s) \/ Reap(s) \/ Leftovers(s) \/ Stop(s)
  PROVE  Active(s) /\ \E gone \in SUBSET Displays : Shrinks(gone)
  <1>1. SharedOK /\ Active(s)
    BY TypeParts DEF KillServer, Signal, Reap, Leftovers, Stop, Active, Ended
  <1>2. CASE KillServer(s)
    <2>1. disp[s] \in Displays
      BY <1>1, <1>2, AtWork DEF KillServer, InRootfs
    <2>2. QED
      BY <1>1, <1>2, <2>1, ServersShrink, NothingShrinks DEF KillServer, VncKill, Serves
  <1>3. CASE Signal(s)
    BY <1>1, <1>3, ServersShrink DEF Signal, VisibleServers
  <1>4. CASE Reap(s)
    BY <1>1, <1>4, ComponentsShrink DEF Reap
  <1>5. CASE Leftovers(s)
    BY <1>1, <1>5, ComponentsShrink, NothingShrinks DEF Leftovers
  <1>6. CASE Stop(s)
    <2>1. VncKill(inst[s], StopAt(s), "root")
      BY <1>6 DEF Stop, StopAt
    <2>2. QED
      BY <1>1, <2>1, StopHasDisplay, ServersShrink, NothingShrinks DEF VncKill, Serves
  <1>7. QED
    BY <1>1, <1>2, <1>3, <1>4, <1>5, <1>6

LEMMA ShrinksTyped ==
  ASSUME SharedOK, NEW gone, Shrinks(gone), up' \in SUBSET Instances, UNCHANGED <<display, coming>>
  PROVE  SharedOK'
  BY DEF SharedOK, Shrinks

LEMMA PickTyped ==
  ASSUME TypeOK, NEW s \in Sessions, PickDisplay(s)
  PROVE  TypeOK'
  <1>1. Active(s) /\ SharedOK /\ SessionsOK /\ inst[s] \in Instances
    BY TypeParts, AtWork DEF PickDisplay, Listen, Choose, NoneLeft, Prepare, Active, Ended
  <1>2. CASE Listen(s)
    <2>1. SharedOK' /\ SessionsOK'
      BY <1>1, <1>2 DEF Listen, SharedOK, SessionsOK, shared, request, Goto, Labels
    <2>2. \A t \in Sessions : Settled(t)'
      BY <1>1, <1>2, TypeParts DEF Listen, SessionsOK, Settled, Active, Goto, request, InRootfs
    <2>3. QED
      BY <2>1, <2>2, NextParts
  <1>3. CASE Choose(s)
    <2>1. PICK n \in Choices(s) : /\ disp'    = [disp EXCEPT ![s] = n]
                                  /\ display' = [display EXCEPT ![inst[s]] = n]
      BY <1>3 DEF Choose
    <2>2. n \in Displays
      BY <1>1 DEF Choices, SessionsOK
    <2>3. SharedOK'
      BY <1>1, <1>3, <2>1, <2>2 DEF Choose, SharedOK
    <2>4. disp' \in [Sessions -> Displays \cup {None}] /\ disp'[s] = n
      BY <1>1, <2>1, <2>2 DEF SessionsOK
    <2>5. QED
      BY <1>1, <1>3, <2>1, <2>2, <2>3, <2>4, MovesTyped DEF Choose, SessionsOK, Labels
  <1>4. CASE NoneLeft(s)
    <2>1. SharedOK'
      BY <1>1, <1>4 DEF NoneLeft, SharedOK, shared
    <2>2. QED
      BY <1>1, <1>4, <2>1, StepsTyped DEF NoneLeft, Labels, Ended, InRootfs
  <1>5. CASE Prepare(s)
    <2>1. SharedOK'
      BY <1>1, <1>5 DEF Prepare, SharedOK
    <2>2. PICK to \in {"check", "failed"} : Goto(s, to)
      BY <1>5 DEF Prepare
    <2>3. QED
      BY <1>1, <1>5, <2>1, <2>2, StepsTyped DEF Prepare, Labels, Ended, InRootfs
  <1>6. QED
    BY <1>2, <1>3, <1>4, <1>5 DEF PickDisplay

LEMMA StartTyped ==
  ASSUME TypeOK, NEW s \in Sessions, GuiStart(s)
  PROVE  TypeOK'
  <1>1. Active(s) /\ SharedOK /\ pc[s] \in InRootfs
    BY TypeParts DEF GuiStart, Check, KillServer, Signal, Reap, Clean, Leftovers, Launch, Wait,
       SeeServer, SeeSession, Active, Ended, InRootfs
  <1>2. inst[s] \in Instances /\ disp[s] \in Displays /\ user[s] \in {"root", "user"}
    BY <1>1, AtWork
  <1>3. \E to \in InRootfs \cup Ended : Goto(s, to)
    BY DEF GuiStart, Check, KillServer, Signal, Reap, Clean, Leftovers, Launch, Wait,
       SeeServer, SeeSession, Ended, InRootfs
  <1>4. UNCHANGED <<request, seen, disp>>
    BY DEF GuiStart, Check, KillServer, Signal, Reap, Clean, Leftovers, Launch, Wait,
       SeeServer, SeeSession
  <1>5. SharedOK'
    <2>1. CASE KillServer(s) \/ Signal(s) \/ Reap(s) \/ Leftovers(s)
      <3>1. UNCHANGED <<up, display, coming>>
        BY <2>1 DEF KillServer, Signal, Reap, Leftovers
      <3>2. QED
        BY <1>1, <2>1, <3>1, EndingSteps, ShrinksTyped DEF SharedOK
    <2>2. CASE Clean(s) \/ Launch(s)
      BY <1>1, <1>2, <2>2 DEF Clean, Launch, SharedOK
    <2>3. CASE Check(s) \/ Wait(s) \/ SeeServer(s) \/ SeeSession(s)
      BY <1>1, <2>3 DEF Check, Wait, SeeServer, SeeSession, SharedOK, shared
    <2>4. QED
      BY <2>1, <2>2, <2>3 DEF GuiStart
  <1>6. QED
    BY <1>1, <1>3, <1>4, <1>5, StepsTyped DEF Labels

\* Running the hook settles what its job is to do.
LEMMA HookTyped ==
  ASSUME TypeOK, NEW s \in Sessions, NEW t \in Sessions, RunHook(s, t)
  PROVE  TypeOK'
  <1>1. Active(s) /\ SharedOK /\ SessionsOK /\ s # t
    BY TypeParts DEF RunHook, Active, Ended
  <1>2. inst[s] \in Instances /\ user[s] \in {"root", "user"} /\ Baked[inst[s]] \in Displays
    BY <1>1, AtWork, ConstantsAssumption
  <1>3. SharedOK'
    BY <1>1, <1>2 DEF RunHook, SharedOK
  <1>4. "boot" \in AllOps /\ {"check", "poll", "ok"} \subseteq Labels
    BY DEF AllOps, Labels, Ended, InRootfs
  <1>5. /\ op' = [op EXCEPT ![t] = "boot"] /\ inst' = [inst EXCEPT ![t] = inst[s]]
        /\ user' = [user EXCEPT ![t] = user[s]] /\ want' = [want EXCEPT ![t] = None]
        /\ disp' = [disp EXCEPT ![t] = Baked[inst[s]]] /\ seen' = seen
        /\ pc' = [pc EXCEPT ![t] = "check", ![s] = IF pc[s] = "tap" THEN "poll" ELSE "ok"]
    BY DEF RunHook, Asked
  <1>6. SessionsOK'
    BY <1>1, <1>2, <1>4, <1>5 DEF SessionsOK
  <1>7. ASSUME NEW r \in Sessions PROVE Settled(r)'
    <2>1. CASE r = t
      BY <1>1, <1>2, <1>4, <1>5, <2>1 DEF SessionsOK, Settled
    <2>2. CASE r = s
      <3>1. pc'[r] \in {"poll", "ok"}
        BY <1>1, <1>5, <2>2 DEF SessionsOK
      <3>2. QED
        BY <1>1, <1>2, <1>5, <2>2, <3>1, TypeParts DEF SessionsOK, Settled, InRootfs
    <2>3. CASE r # s /\ r # t
      BY <1>1, <1>5, <2>3, TypeParts DEF SessionsOK, Settled, Active
    <2>4. QED
      BY <2>1, <2>2, <2>3
  <1>8. QED
    BY <1>3, <1>6, <1>7, NextParts

LEMMA DeviceTyped ==
  ASSUME TypeOK, NEW s \in Sessions, OnDevice(s) \/ Stop(s)
  PROVE  TypeOK'
  <1>1. CASE AlreadyRunning(s) \/ HookFails(s) \/ Poll(s)
    <2>1. Active(s) /\ SharedOK'
      BY <1>1, TypeParts DEF AlreadyRunning, HookFails, Poll, Active, Ended, SharedOK, shared
    <2>2. PICK to \in Ended \cup {"poll"} : Goto(s, to)
      BY <1>1 DEF AlreadyRunning, HookFails, Poll, Ended
    <2>3. UNCHANGED <<request, seen, disp>>
      BY <1>1 DEF AlreadyRunning, HookFails, Poll
    <2>4. QED
      BY <2>1, <2>2, <2>3, StepsTyped DEF Labels, Ended, InRootfs
  <1>2. CASE \E t \in Jobs : RunHook(s, t)
    BY <1>2, HookTyped, ConstantsAssumption
  <1>3. CASE Stop(s)
    <2>1. SharedOK /\ SessionsOK /\ Active(s) /\ inst[s] \in Instances
      BY <1>3, EndingSteps, TypeParts, AtWork
    <2>2. StopAt(s) \in Displays /\ up' = up \cup {inst[s]} /\ disp' = [disp EXCEPT ![s] = StopAt(s)]
      BY <1>3, <2>1, StopHasDisplay DEF Stop, StopAt
    <2>3. SharedOK'
      BY <1>3, <2>1, <2>2, EndingSteps, ShrinksTyped DEF Stop, SharedOK
    <2>4. QED
      BY <1>3, <2>1, <2>2, <2>3, MovesTyped DEF Stop, Labels, Ended, InRootfs, SessionsOK
  <1>4. QED
    BY <1>1, <1>2, <1>3 DEF OnDevice

LEMMA BeginTyped ==
  ASSUME TypeOK, NEW s \in Sessions, NEW o \in Ops, NEW i \in Instances, NEW u \in Owners,
         NEW d \in Wants, Begin(s, o, i, u, d)
  PROVE  TypeOK'
  <1>1. SharedOK /\ SessionsOK
    BY TypeParts
  <1>2. SharedOK'
    BY <1>1 DEF Begin, SharedOK, shared
  <1>3. o \in AllOps /\ u \in {"root", "user"} /\ d \in Displays \cup {None}
    BY ConstantsAssumption
  <1>4. FirstStep[o] \in {"listen", "stop", "tap", "hook"}
    BY <1>3 DEF FirstStep, AllOps
  <1>5. SessionsOK'
    BY <1>1, <1>3, <1>4 DEF Begin, Asked, Goto, SessionsOK, Labels
  <1>6. ASSUME NEW t \in Sessions PROVE Settled(t)'
    BY <1>1, <1>3, <1>4, TypeParts DEF Begin, Asked, Goto, SessionsOK, Settled, Active, InRootfs
  <1>7. QED
    BY <1>2, <1>5, <1>6, NextParts

\* Servers, operators and reboots leave the sessions as they are, or end them.
LEMMA OthersTyped ==
  ASSUME TypeOK, SharedOK', UNCHANGED <<request, seen, disp>>,
         pc' \in [Sessions -> Labels], \A s \in Sessions : pc'[s] \in {pc[s], "failed"}
  PROVE  TypeOK'
  <1>1. SessionsOK'
    BY TypeParts DEF SessionsOK, request
  <1>2. ASSUME NEW s \in Sessions PROVE Settled(s)'
    BY TypeParts DEF Settled, request, Active, Ended
  <1>3. QED
    BY <1>1, <1>2, NextParts

LEMMA BindShares ==
  ASSUME SharedOK, NEW i \in Instances, NEW n \in Displays, NEW u \in Owners, Bind(i, n, u)
  PROVE  SharedOK'
  <1>1. u \in {"root", "user"}
    BY ConstantsAssumption
  <1>2. [inst |-> i, user |-> u, session |-> "starting"] \in Server
    BY <1>1 DEF Server
  <1>3. QED
    BY <1>1, <1>2 DEF Bind, SharedOK

LEMMA EnvironmentTyped ==
  ASSUME TypeOK,
         \/ \E i \in Instances, n \in Displays, u \in Owners : Bind(i, n, u)
         \/ \E n \in Displays : SessionUp(n) \/ SessionCrash(n)
         \/ \E i \in Instances : BringUp(i) \/ Down(i)
         \/ Reboot \/ UNCHANGED vars
  PROVE  TypeOK'
  <1>1. SharedOK /\ SessionsOK
    BY TypeParts
  <1>2. UNCHANGED <<request, seen, disp>>
    BY DEF Bind, SessionUp, SessionCrash, BringUp, Down, Reboot, vars
  <1>3. pc' \in [Sessions -> Labels] /\ \A s \in Sessions : pc'[s] \in {pc[s], "failed"}
    BY <1>1 DEF Bind, SessionUp, SessionCrash, BringUp, Down, Reboot, vars, SessionsOK, Labels, Ended
  <1>4. SharedOK'
    <2>1. ASSUME NEW n \in Displays, SessionUp(n) PROVE SharedOK'
      <3>1. [port[n] EXCEPT !.session = "up"] \in Server
        BY <1>1, <2>1 DEF SessionUp, SharedOK, Server, Open
      <3>2. QED
        BY <1>1, <2>1, <3>1 DEF SessionUp, SharedOK
    <2>2. ASSUME NEW n \in Displays, SessionCrash(n) PROVE SharedOK'
      <3>1. \E gone \in SUBSET Displays : Shrinks(gone)
        BY <1>1, <2>2, SessionsShrink DEF SessionCrash
      <3>2. QED
        BY <1>1, <2>2, <3>1, ShrinksTyped DEF SessionCrash, SharedOK
    <2>3. CASE \E i \in Instances : BringUp(i) \/ Down(i)
      BY <1>1, <2>3 DEF BringUp, Down, SharedOK
    <2>4. CASE Reboot \/ UNCHANGED vars
      BY <1>1, <2>4 DEF Reboot, vars, shared, SharedOK
    <2>5. QED
      BY <1>1, <2>1, <2>2, <2>3, <2>4, BindShares
  <1>5. QED
    BY <1>2, <1>3, <1>4, OthersTyped

LEMMA InitTyped == Init => TypeOK
  BY DEF Init, TypeOK, Active, Ended

LEMMA NextTyped == TypeOK /\ [Next]_vars => TypeOK'
  BY PickTyped, StartTyped, DeviceTyped, BeginTyped, EnvironmentTyped DEF Next, Step

\* Every reachable state is well typed, whatever is asked for at once and whatever
\* servers, teardowns and reboots do: a session at work has an instance and an owner,
\* and one that has picked a display has one.
THEOREM DesktopTyped == Spec => []TypeOK
  BY InitTyped, NextTyped, PTL DEF Spec
-----------------------------------------------------------------------------
(* One start at a time.                                                    *)

\* A session that works leaves nobody else at work but one that polls.
LEMMA Others ==
  ASSUME OneWorks, NEW s \in Sessions, Active(s), NEW t \in Sessions, t # s, Active(t)
  PROVE  \/ pc[s] = "poll" /\ pc[t] \in InRootfs
         \/ pc[t] = "poll" /\ pc[s] \in InRootfs
  BY DEF OneWorks

LEMMA OneMoves ==
  ASSUME TypeOK, OneWorks, NEW s \in Sessions, NEW to \in Labels, Goto(s, to), Active(s),
         pc[s] \in InRootfs => to \in InRootfs \cup Ended,
         pc[s] = "poll" => to \in Ended
  PROVE  OneWorks'
  <1>1. pc'[s] = to /\ \A t \in Sessions : t # s => pc'[t] = pc[t]
    BY TypeParts DEF SessionsOK, Goto
  <1>2. ASSUME NEW t \in Sessions, t # s, Active(t), to \notin Ended
        PROVE  pc[t] = "poll" /\ to \in InRootfs
    BY <1>2, Others DEF InRootfs
  <1>3. QED
    BY <1>1, <1>2 DEF OneWorks, Active

\* A server is on its way only while its session waits for it.
LEMMA NothingSpawned ==
  ASSUME SocketInv, NEW s \in Sessions, Active(s), pc[s] \notin {"poll", "wait"}
  PROVE  coming = {}
  <1>1. ASSUME NEW c \in coming PROVE FALSE
    <2>1. PICK r \in Sessions : pc[r] = "wait"
      BY DEF SocketInv, Spawned
    <2>2. r # s /\ Active(r)
      BY <2>1 DEF Active, Ended
    <2>3. QED
      BY <2>1, <2>2, Others DEF SocketInv
  <1>2. QED
    BY <1>1

LEMMA NothingSpawnedIdle ==
  ASSUME SocketInv, \A s \in Sessions : ~Active(s)
  PROVE  coming = {}
  BY DEF SocketInv, Spawned, Active, Ended

\* Servers that end take no other's socket, and open no port.
LEMMA ShrinksKeep ==
  ASSUME SharedOK, NEW gone, Shrinks(gone), SocketKept
  PROVE  /\ SocketKept'
         /\ \A n \in Displays : ~Open(n) => ~Open(n)'
         /\ socket' \subseteq socket
  BY DEF SharedOK, Shrinks, SocketKept, Open, Ours

\* A step of one session: nobody else is between the look at a port and the launch.
LEMMA StepKeeps ==
  ASSUME SocketInv, TypeOK', NEW s \in Sessions, NEW to \in Labels, Goto(s, to), Active(s),
         UNCHANGED request, \A t \in Sessions : t # s => disp'[t] = disp[t],
         pc[s] \in InRootfs => to \in InRootfs \cup Ended,
         pc[s] = "poll" => to \in Ended /\ UNCHANGED <<socket, port, coming>>,
         pc[s] # "poll" => Spawned',
         SocketKept', Freed(s)'
  PROVE  SocketInv'
  <1>1. pc'[s] = to /\ \A t \in Sessions : t # s => pc'[t] = pc[t]
    BY TypeParts DEF SocketInv, SessionsOK, Goto
  <1>2. OneWorks'
    BY OneMoves DEF SocketInv
  <1>3. Spawned'
    BY <1>1 DEF SocketInv, Spawned, Ours, request
  <1>4. ASSUME NEW t \in Sessions, t # s PROVE Freed(t)'
    <2>1. CASE pc[s] = "poll"
      BY <1>1, <1>4, <2>1 DEF SocketInv, Freed, Open, Ours, request
    <2>2. CASE pc[s] # "poll"
      <3>1. ~Active(t) \/ pc[t] = "poll"
        BY <1>4, <2>2, Others DEF SocketInv
      <3>2. QED
        BY <1>1, <1>4, <3>1 DEF Freed, Active, Ended
    <2>3. QED
      BY <2>1, <2>2
  <1>5. QED
    BY <1>2, <1>3, <1>4 DEF SocketInv

\* One that changes neither ports nor sockets, and does not get to the launch.
LEMMA LooksKeep ==
  ASSUME SocketInv, TypeOK', NEW s \in Sessions, NEW to \in Labels, Goto(s, to), Active(s),
         UNCHANGED <<request, socket, port, coming>>,
         \A t \in Sessions : t # s => disp'[t] = disp[t],
         pc[s] \in InRootfs => to \in InRootfs \cup Ended,
         pc[s] = "poll" => to \in Ended,
         pc[s] # "wait",
         to \notin {"reap", "clean", "leftovers", "launch"}
  PROVE  SocketInv'
  <1>1. pc'[s] = to
    BY TypeParts DEF SocketInv, SessionsOK, Goto
  <1>2. pc[s] # "poll" => Spawned'
    BY NothingSpawned DEF Spawned
  <1>3. SocketKept' /\ Freed(s)'
    BY <1>1 DEF SocketInv, SocketKept, Freed, Open, Ours
  <1>4. QED
    BY <1>2, <1>3, StepKeeps

-----------------------------------------------------------------------------
(* A live server keeps its socket.                                         *)

LEMMA PickKeeps ==
  ASSUME SocketInv, NEW s \in Sessions, PickDisplay(s)
  PROVE  SocketInv'
  <1>1. Active(s) /\ pc[s] \in {"listen", "choose", "prep"}
    BY DEF PickDisplay, Listen, Choose, NoneLeft, Prepare, Active, Ended
  <1>2. TypeOK' /\ UNCHANGED <<request, socket, port, coming>>
    BY PickTyped DEF PickDisplay, Listen, Choose, NoneLeft, Prepare, shared, SocketInv
  <1>3. PICK to \in {"choose", "prep", "failed", "check"} : Goto(s, to)
    BY DEF PickDisplay, Listen, Choose, NoneLeft, Prepare
  <1>4. \A t \in Sessions : t # s => disp'[t] = disp[t]
    BY TypeParts DEF PickDisplay, Listen, Choose, NoneLeft, Prepare, SocketInv, SessionsOK
  <1>5. QED
    BY <1>1, <1>2, <1>3, <1>4, LooksKeep DEF Labels, Ended, InRootfs

\* The steps of gui-start.sh that only look: Check finds the port free, or leaves.
LEMMA CheckKeeps ==
  ASSUME SocketInv, NEW s \in Sessions, Check(s)
  PROVE  SocketInv'
  <1>1. pc[s] = "check" /\ Active(s) /\ UNCHANGED <<shared, request, seen, disp>>
    BY DEF Check, Active, Ended
  <1>2. PICK to \in {"clean", "failed", "ok", "kill"} :
          Goto(s, to) /\ (to = "clean" => ~Open(disp[s]))
    BY DEF Check
  <1>3. TypeOK'
    BY StartTyped DEF SocketInv, GuiStart
  <1>4. pc'[s] = to
    BY <1>2, TypeParts DEF SocketInv, SessionsOK, Goto
  <1>5. SocketKept' /\ Freed(s)' /\ Spawned'
    BY <1>1, <1>2, <1>4, NothingSpawned DEF SocketInv, SocketKept, Freed, Spawned, Open, Ours, shared
  <1>6. QED
    BY <1>1, <1>2, <1>3, <1>5, StepKeeps DEF Labels, Ended, InRootfs

LEMMA SeeKeeps ==
  ASSUME SocketInv, NEW s \in Sessions, SeeServer(s) \/ SeeSession(s)
  PROVE  SocketInv'
  <1>1. /\ pc[s] \in {"server", "session"} /\ Active(s)
        /\ UNCHANGED <<socket, port, coming, request, disp>>
    BY DEF SeeServer, SeeSession, Active, Ended, shared
  <1>2. PICK to \in {"session", "failed", "ok"} : Goto(s, to)
    BY DEF SeeServer, SeeSession
  <1>3. TypeOK'
    BY StartTyped DEF SocketInv, GuiStart
  <1>4. QED
    BY <1>1, <1>2, <1>3, LooksKeep DEF Labels, Ended, InRootfs

\* What ends servers leaves the others their sockets; on to the launch only with
\* the port free.
LEMMA EndingKeeps ==
  ASSUME SocketInv, NEW s \in Sessions,
         KillServer(s) \/ Signal(s) \/ Reap(s) \/ Leftovers(s) \/ Stop(s)
  PROVE  SocketInv'
  <1>1. SharedOK /\ Active(s) /\ pc[s] \in {"kill", "signal", "reap", "leftovers", "stop"}
    BY EndingSteps, TypeParts
       DEF SocketInv, KillServer, Signal, Reap, Leftovers, Stop
  <1>2. PICK gone \in SUBSET Displays : Shrinks(gone)
    BY EndingSteps DEF SocketInv
  <1>3. TypeOK'
    BY StartTyped, DeviceTyped DEF SocketInv, GuiStart
  <1>4. /\ SocketKept' /\ socket' \subseteq socket
        /\ \A n \in Displays : ~Open(n) => ~Open(n)'
    BY <1>1, <1>2, ShrinksKeep DEF SocketInv
  <1>5. UNCHANGED <<request, coming>> /\ \A t \in Sessions : t # s => disp'[t] = disp[t]
    BY TypeParts DEF KillServer, Signal, Reap, Leftovers, Stop, SocketInv, SessionsOK
  <1>6. coming = {} /\ Spawned'
    BY <1>1, <1>5, NothingSpawned DEF Spawned
  <1>7. PICK to \in {"reap", "signal", "failed", "clean", "launch", "ok"} :
          /\ Goto(s, to)
          /\ pc[s] \in {"kill", "signal"} /\ to = "reap" => port'[disp[s]] = None /\ disp' = disp
          /\ to \in {"clean", "launch"} => /\ disp' = disp
                                          /\ pc[s] = IF to = "clean" THEN "reap" ELSE "leftovers"
          /\ to = "reap" => pc[s] \in {"kill", "signal"}
    BY DEF KillServer, Signal, Reap, Leftovers, Stop
  <1>8. pc'[s] = to
    BY <1>7, TypeParts DEF SocketInv, SessionsOK, Goto
  <1>9. pc[s] \in {"reap", "leftovers"} => disp[s] \in Displays
    BY <1>1, AtWork DEF SocketInv, InRootfs
  <1>10. Freed(s)'
    <2>1. CASE to = "reap"
      BY <1>7, <1>8, <2>1 DEF Freed, Open
    <2>2. CASE to = "clean"
      BY <1>4, <1>7, <1>8, <1>9, <2>2 DEF SocketInv, Freed, Open
    <2>3. CASE to = "launch"
      BY <1>4, <1>5, <1>7, <1>8, <1>9, <2>3 DEF SocketInv, Freed, Open, Ours, request
    <2>4. CASE to \in {"signal", "failed", "ok"}
      BY <1>8, <2>4 DEF Freed
    <2>5. QED
      BY <2>1, <2>2, <2>3, <2>4
  <1>11. QED
    BY <1>1, <1>3, <1>4, <1>5, <1>6, <1>7, <1>10, StepKeeps DEF Labels, Ended, InRootfs

\* The socket that is removed has no server behind it, and none comes until the launch.
LEMMA CleanKeeps ==
  ASSUME SocketInv, NEW s \in Sessions, Clean(s)
  PROVE  SocketInv'
  <1>1. /\ pc[s] = "clean" /\ Active(s) /\ Goto(s, "leftovers")
        /\ socket' = socket \ {<<inst[s], disp[s]>>}
        /\ UNCHANGED <<port, coming, request, disp>>
    BY DEF Clean, Active, Ended
  <1>2. TypeOK' /\ ~Open(disp[s])
    BY <1>1, StartTyped DEF SocketInv, GuiStart, Freed
  <1>3. SocketKept'
    BY <1>1, <1>2 DEF SocketInv, SocketKept, Open, Ours
  <1>4. pc'[s] = "leftovers"
    BY <1>1, TypeParts DEF SocketInv, SessionsOK, Goto
  <1>5. Freed(s)' /\ Spawned'
    BY <1>1, <1>2, <1>4, NothingSpawned DEF Freed, Spawned, Open, Ours, request
  <1>6. QED
    BY <1>1, <1>2, <1>3, <1>5, StepKeeps DEF Labels, Ended, InRootfs

LEMMA LaunchKeeps ==
  ASSUME SocketInv, NEW s \in Sessions, Launch(s)
  PROVE  SocketInv'
  <1>1. /\ pc[s] = "launch" /\ Active(s) /\ Goto(s, "wait")
        /\ coming' = coming \cup {<<inst[s], disp[s], user[s]>>}
        /\ UNCHANGED <<port, socket, request, disp>>
    BY DEF Launch, Active, Ended
  <1>2. TypeOK' /\ ~Ours(inst[s], disp[s]) /\ coming = {}
    BY <1>1, StartTyped, NothingSpawned DEF SocketInv, GuiStart, Freed
  <1>3. pc'[s] = "wait"
    BY <1>1, TypeParts DEF SocketInv, SessionsOK, Goto
  <1>4. Spawned'
    BY <1>1, <1>2, <1>3 DEF Spawned, Ours, request
  <1>5. SocketKept' /\ Freed(s)'
    BY <1>1, <1>3 DEF SocketInv, SocketKept, Freed, Open, Ours
  <1>6. QED
    BY <1>1, <1>2, <1>4, <1>5, StepKeeps DEF Labels, Ended, InRootfs

\* The wait ends when no server is on its way any more, unless servers are slow.
LEMMA WaitKeeps ==
  ASSUME SocketInv, ~Slow, NEW s \in Sessions, Wait(s)
  PROVE  coming = {} /\ SocketInv'
  <1>1. /\ pc[s] = "wait" /\ Active(s) /\ UNCHANGED <<socket, port, coming, request, disp>>
        /\ Ours(inst[s], disp[s]) \/ <<inst[s], disp[s], user[s]>> \notin coming
    BY DEF Wait, Active, Ended, shared
  <1>2. ASSUME NEW c \in coming PROVE FALSE
    <2>1. PICK r \in Sessions : /\ pc[r] = "wait" /\ c = <<inst[r], disp[r], user[r]>>
                               /\ ~Ours(inst[r], disp[r])
      BY DEF SocketInv, Spawned
    <2>2. r = s
      BY <1>1, <2>1, Others DEF SocketInv, Active, Ended
    <2>3. QED
      BY <1>1, <2>1, <2>2
  <1>3. coming = {}
    BY <1>2
  <1>4. PICK to \in {"server", "failed"} : Goto(s, to)
    BY DEF Wait
  <1>5. TypeOK'
    BY StartTyped DEF SocketInv, GuiStart
  <1>6. pc'[s] = to
    BY <1>4, TypeParts DEF SocketInv, SessionsOK, Goto
  <1>7. SocketKept' /\ Freed(s)' /\ Spawned'
    BY <1>1, <1>3, <1>6 DEF SocketInv, SocketKept, Freed, Spawned, Open, Ours
  <1>8. QED
    BY <1>1, <1>3, <1>4, <1>5, <1>7, StepKeeps DEF Labels, Ended, InRootfs

\* The job that boot.sh leaves behind begins when nobody else is at work.
LEMMA HookKeeps ==
  ASSUME SocketInv, NEW s \in Sessions, NEW t \in Sessions, RunHook(s, t)
  PROVE  SocketInv'
  <1>1. /\ pc[s] \in {"tap", "hook"} /\ Active(s) /\ ~Active(t) /\ s # t
        /\ UNCHANGED <<socket, port, coming>>
    BY DEF RunHook, Active, Ended
  <1>2. \A r \in Sessions : r # s => ~Active(r)
    BY <1>1, Others DEF SocketInv, InRootfs
  <1>3. /\ pc'[s] \in {"poll", "ok"} /\ pc'[t] = "check"
        /\ \A r \in Sessions : r # s /\ r # t => pc'[r] = pc[r]
    BY <1>1, TypeParts DEF RunHook, SocketInv, SessionsOK
  <1>4. TypeOK' /\ coming' = {}
    BY <1>1, HookTyped, NothingSpawned DEF SocketInv
  <1>5. OneWorks'
    BY <1>2, <1>3 DEF OneWorks, Active, Ended, InRootfs
  <1>6. Spawned' /\ SocketKept'
    BY <1>1, <1>4 DEF SocketInv, Spawned, SocketKept, Open, Ours
  <1>7. ASSUME NEW r \in Sessions PROVE Freed(r)'
    BY <1>2, <1>3 DEF Freed, Active, Ended
  <1>8. QED
    BY <1>4, <1>5, <1>6, <1>7 DEF SocketInv

LEMMA DeviceKeeps ==
  ASSUME SocketInv, NEW s \in Sessions, OnDevice(s)
  PROVE  SocketInv'
  <1>1. CASE AlreadyRunning(s) \/ HookFails(s) \/ Poll(s)
    <2>1. /\ pc[s] \in {"tap", "hook", "poll"} /\ Active(s)
          /\ UNCHANGED <<socket, port, coming, request, disp>>
      BY <1>1 DEF AlreadyRunning, HookFails, Poll, Active, Ended, shared
    <2>2. PICK to \in {"ok", "failed", "poll"} : Goto(s, to) /\ (pc[s] = "poll" => to # "poll")
      BY <1>1 DEF AlreadyRunning, HookFails, Poll
    <2>3. TypeOK'
      BY DeviceTyped DEF SocketInv
    <2>4. QED
      BY <2>1, <2>2, <2>3, LooksKeep DEF Labels, Ended, InRootfs
  <1>2. CASE \E t \in Jobs : RunHook(s, t)
    BY <1>2, HookKeeps, ConstantsAssumption
  <1>3. QED
    BY <1>1, <1>2 DEF OnDevice

LEMMA BeginKeeps ==
  ASSUME SocketInv, Serial, NEW s \in Sessions, NEW o \in Ops, NEW i \in Instances,
         NEW u \in Owners, NEW d \in Wants, Begin(s, o, i, u, d)
  PROVE  SocketInv'
  <1>1. (\A t \in Sessions : ~Active(t)) /\ UNCHANGED <<socket, port, coming>>
    BY DEF Begin, shared
  <1>2. FirstStep[o] \in {"listen", "stop", "tap", "hook"}
    BY ConstantsAssumption DEF FirstStep, AllOps
  <1>3. /\ pc'[s] \in {"listen", "stop", "tap", "hook"}
        /\ \A t \in Sessions : t # s => pc'[t] = pc[t]
    BY <1>2, TypeParts DEF Begin, Goto, SocketInv, SessionsOK
  <1>4. TypeOK' /\ coming' = {}
    BY <1>1, BeginTyped, NothingSpawnedIdle DEF SocketInv
  <1>5. OneWorks'
    BY <1>1, <1>3 DEF OneWorks, Active
  <1>6. Spawned' /\ SocketKept'
    BY <1>1, <1>4 DEF SocketInv, Spawned, SocketKept, Open, Ours
  <1>7. ASSUME NEW t \in Sessions PROVE Freed(t)'
    BY <1>1, <1>3 DEF Freed, Active, Ended
  <1>8. QED
    BY <1>4, <1>5, <1>6, <1>7 DEF SocketInv

\* A server that binds its port is the one that is waited for, and the last.
LEMMA BindKeeps ==
  ASSUME SocketInv, NEW i \in Instances, NEW n \in Displays, NEW u \in Owners, Bind(i, n, u)
  PROVE  coming' = {} /\ SocketInv'
  <1>1. PICK s \in Sessions : pc[s] = "wait" /\ <<i, n, u>> = <<inst[s], disp[s], user[s]>>
    BY DEF Bind, SocketInv, Spawned
  <1>2. ASSUME NEW c \in coming PROVE c = <<i, n, u>>
    <2>1. PICK r \in Sessions : pc[r] = "wait" /\ c = <<inst[r], disp[r], user[r]>>
      BY DEF SocketInv, Spawned
    <2>2. r = s
      BY <1>1, <2>1, Others DEF SocketInv, Active, Ended
    <2>3. QED
      BY <1>1, <2>1, <2>2
  <1>3. coming' = {} /\ UNCHANGED <<request, disp, pc>>
    BY <1>2 DEF Bind
  <1>4. TypeOK'
    BY EnvironmentTyped DEF SocketInv
  <1>5. OneWorks' /\ Spawned'
    BY <1>3 DEF SocketInv, OneWorks, Spawned, Active
  <1>6. ASSUME NEW t \in Sessions PROVE Freed(t)'
    <2>1. t = s \/ ~Active(t) \/ pc[t] = "poll"
      BY <1>1, Others DEF SocketInv, Active, Ended
    <2>2. QED
      BY <1>1, <1>3, <2>1 DEF Freed, Active, Ended
  <1>7. SocketKept'
    BY TypeParts DEF Bind, SocketInv, SharedOK, SocketKept, Open, Ours
  <1>8. QED
    BY <1>3, <1>4, <1>5, <1>6, <1>7 DEF SocketInv

\* What happens by itself leaves no less to rely on.
LEMMA EnvironmentKeeps ==
  ASSUME SocketInv,
         \/ \E n \in Displays : SessionUp(n) \/ SessionCrash(n)
         \/ \E i \in Instances : BringUp(i)
         \/ UNCHANGED vars
  PROVE  SocketInv'
  <1>1. SharedOK /\ TypeOK'
    BY TypeParts, EnvironmentTyped DEF SocketInv
  <1>2. UNCHANGED <<request, disp, pc, coming>>
    BY DEF SessionUp, SessionCrash, BringUp, vars, shared
  <1>3. /\ SocketKept' /\ socket' \subseteq socket
        /\ \A n \in Displays : ~Open(n) => ~Open(n)'
    <2>1. ASSUME NEW n \in Displays, SessionUp(n)
          PROVE  /\ SocketKept' /\ socket' \subseteq socket
                 /\ \A m \in Displays : ~Open(m) => ~Open(m)'
      <3>1. [port[n] EXCEPT !.session = "up"].inst = port[n].inst
        BY <1>1, <2>1 DEF SessionUp, SharedOK, Server, Open
      <3>2. QED
        BY <1>1, <2>1, <3>1 DEF SessionUp, SocketInv, SharedOK, SocketKept, Open, Ours
    <2>2. ASSUME NEW n \in Displays, SessionCrash(n)
          PROVE  /\ SocketKept' /\ socket' \subseteq socket
                 /\ \A m \in Displays : ~Open(m) => ~Open(m)'
      <3>1. PICK gone \in SUBSET Displays : Shrinks(gone)
        BY <1>1, <2>2, SessionsShrink DEF SessionCrash
      <3>2. QED
        BY <1>1, <3>1, ShrinksKeep DEF SocketInv
    <2>3. CASE (\E i \in Instances : BringUp(i)) \/ UNCHANGED vars
      BY <2>3 DEF BringUp, vars, shared, SocketInv, SocketKept, Open, Ours
    <2>4. QED
      BY <2>1, <2>2, <2>3
  <1>4. OneWorks' /\ Spawned'
    BY <1>2, <1>3 DEF SocketInv, OneWorks, Spawned, Active, Ours, request
  <1>5. ASSUME NEW s \in Sessions PROVE Freed(s)'
    <2>1. pc[s] \in InRootfs => disp[s] \in Displays
      BY AtWork DEF SocketInv, Active, Ended, InRootfs
    <2>2. QED
      BY <1>2, <1>3, <2>1 DEF SocketInv, Freed, InRootfs, Ours, Open, request
  <1>6. QED
    BY <1>1, <1>3, <1>4, <1>5 DEF SocketInv

\* down, between two commands, and a reboot end everything that was under way.
LEMMA StopsKeep ==
  ASSUME SocketInv, Serial, (\E i \in Instances : Down(i)) \/ Reboot
  PROVE  SocketInv'
  <1>1. TypeOK'
    BY EnvironmentTyped DEF SocketInv
  <1>2. \A s \in Sessions : pc'[s] \in Ended
    BY TypeParts DEF Down, Reboot, SocketInv, SessionsOK, Active, Ended
  <1>3. coming' = {}
    BY NothingSpawnedIdle DEF Down, Reboot
  <1>4. SocketKept'
    BY DEF Down, Reboot, SocketInv, SocketKept, Open, Ours
  <1>5. QED
    BY <1>1, <1>2, <1>3, <1>4 DEF SocketInv, OneWorks, Spawned, Freed, Active, Ended

LEMMA SocketInit == Init => SocketInv
  BY InitTyped DEF Init, SocketInv, OneWorks, Spawned, Freed, SocketKept, Open, Ours, Active, Ended

LEMMA SocketNext ==
  ASSUME SocketInv, Serial, ~Slow, [Next]_vars
  PROVE  SocketInv'
  <1>1. ASSUME NEW s \in Sessions, Step(s) PROVE SocketInv'
    BY <1>1, PickKeeps, CheckKeeps, SeeKeeps, EndingKeeps, CleanKeeps, LaunchKeeps, WaitKeeps,
       DeviceKeeps DEF Step, GuiStart
  <1>2. QED
    BY <1>1, BeginKeeps, BindKeeps, EnvironmentKeeps, StopsKeep DEF Next

\* One command at a time, and servers that come up while they are waited for.
LEMMA SocketThroughout ==
  ASSUME Serial, ~Slow
  PROVE  Spec => []SocketInv
  <1>1. Init => SocketInv
    BY SocketInit
  <1>2. SocketInv /\ [Next]_vars => SocketInv'
    BY SocketNext
  <1>3. QED
    BY <1>1, <1>2, PTL DEF Spec

\* A live server keeps its socket, for any number of instances and displays, root's
\* and users' sessions, restarts, taps, crashes, teardowns and reboots, as long as
\* commands come one after the other and servers while they are waited for
\* (gui-start.sh:173).
THEOREM KeptSockets ==
  ASSUME Serial, ~Slow
  PROVE  Spec => []SocketKept
  <1>1. SocketInv => SocketKept
    BY DEF SocketInv
  <1>2. QED
    BY <1>1, SocketThroughout, PTL

-----------------------------------------------------------------------------
(* No display of another instance.                                         *)

\* No port is opened, and no server changes hands.
NoneNew == \A n \in Displays : /\ ~Open(n) => ~Open(n)'
                               /\ Open(n)' => port'[n].inst = port[n].inst

\* Servers and their sockets go together.
LEMMA ShrinksBacked ==
  ASSUME SharedOK, NEW gone, Shrinks(gone), Backed
  PROVE  Backed' /\ NoneNew
  <1>1. NoneNew
    BY DEF Shrinks, NoneNew, Open
  <1>2. ASSUME NEW i \in Instances, NEW n \in Displays, Ours(i, n)' PROVE Serves(i, n)'
    <2>1. Ours(i, n) /\ (n \in gone => <<port[n].inst, n>> # <<i, n>>)
      BY <1>2 DEF Shrinks, Ours
    <2>2. Serves(i, n)
      BY <2>1 DEF Backed
    <2>3. QED
      BY <2>1, <2>2 DEF Shrinks, Serves, Open
  <1>3. QED
    BY <1>1, <1>2 DEF Backed

\* A step of one session that opens no port: what the others rely on stays.
LEMMA StepHolds ==
  ASSUME DisplayInv, SocketInv', Backed', NoneNew,
         NEW s \in Sessions, NEW to \in Labels, Goto(s, to), Active(s), UNCHANGED request,
         \A t \in Sessions : t # s => disp'[t] = disp[t] /\ seen'[t] = seen[t],
         SeenStill(s)', Held(s)'
  PROVE  DisplayInv'
  <1>1. \A t \in Sessions : t # s => pc'[t] = pc[t]
    BY TypeParts DEF DisplayInv, SocketInv, SessionsOK, Goto
  <1>2. ASSUME NEW t \in Sessions, t # s PROVE SeenStill(t)' /\ Held(t)'
    <2>1. SeenStill(t)'
      BY <1>1, <1>2 DEF DisplayInv, NoneNew, SeenStill
    <2>2. pc[t] \in {"prep", "check"} => disp[t] \in Displays
      BY AtWork DEF DisplayInv, SocketInv, Active, Ended, InRootfs
    <2>3. Held(t)'
      BY <1>1, <1>2, <2>2 DEF DisplayInv, NoneNew, Held, Serves, request
    <2>4. QED
      BY <2>1, <2>3
  <1>3. QED
    BY <1>2 DEF DisplayInv

\* One that has passed the look at its port, or never gets to one.
LEMMA PastHolds ==
  ASSUME DisplayInv, SocketInv', Backed', NoneNew,
         NEW s \in Sessions, NEW to \in Labels, Goto(s, to), Active(s), UNCHANGED <<request, seen>>,
         \A t \in Sessions : t # s => disp'[t] = disp[t],
         to \notin {"choose", "prep", "check"}
  PROVE  DisplayInv'
  <1>1. pc'[s] = to
    BY TypeParts DEF DisplayInv, SocketInv, SessionsOK, Goto
  <1>2. SeenStill(s)' /\ Held(s)'
    BY <1>1 DEF SeenStill, Held
  <1>3. QED
    BY <1>2, StepHolds

LEMMA UnchangedPorts ==
  ASSUME UNCHANGED port
  PROVE  NoneNew
  BY DEF NoneNew, Open

\* pick-display.sh: what was seen free still is, and a socket of the instance's own
\* has its server.
LEMMA PickHolds ==
  ASSUME DisplayInv, NEW s \in Sessions, PickDisplay(s)
  PROVE  DisplayInv'
  <1>1. /\ Active(s) /\ SocketInv' /\ UNCHANGED <<request, port, socket>>
    BY PickKeeps DEF PickDisplay, Listen, Choose, NoneLeft, Prepare, Active, Ended, DisplayInv, shared
  <1>2. Backed' /\ NoneNew
    BY <1>1, UnchangedPorts DEF DisplayInv, Backed, Ours, Serves, Open
  <1>3. SessionsOK
    BY TypeParts DEF DisplayInv, SocketInv
  <1>4. CASE Listen(s)
    <2>1. pc'[s] = "choose" /\ seen'[s] = {n \in Displays : Open(n)}
      BY <1>3, <1>4 DEF Listen, Goto, SessionsOK
    <2>2. SeenStill(s)' /\ Held(s)'
      BY <1>1, <2>1 DEF SeenStill, Held, Open
    <2>3. \A t \in Sessions : t # s => disp'[t] = disp[t] /\ seen'[t] = seen[t]
      BY <1>3, <1>4 DEF Listen, SessionsOK
    <2>4. QED
      BY <1>1, <1>2, <1>4, <2>2, <2>3, StepHolds DEF Listen, Labels
  <1>5. CASE Choose(s)
    <2>1. PICK n \in Choices(s) : disp' = [disp EXCEPT ![s] = n]
      BY <1>5 DEF Choose
    <2>2. pc'[s] = "prep" /\ pc[s] = "choose" /\ disp'[s] = n
      BY <1>3, <1>5, <2>1 DEF Choose, Goto, SessionsOK
    <2>3. ASSUME want[s] = None PROVE ~Open(n) \/ Serves(inst[s], n)
      <3>1. n \in Displays /\ Usable(s, n)
        BY <2>1, <2>3 DEF Choices
      <3>2. inst[s] \in Instances
        BY <1>1, AtWork DEF DisplayInv, SocketInv
      <3>3. QED
        BY <2>2, <3>1, <3>2 DEF DisplayInv, SeenStill, Usable, Backed
    <2>4. SeenStill(s)' /\ Held(s)'
      BY <1>1, <2>2, <2>3 DEF SeenStill, Held, Serves, Open, request
    <2>5. \A t \in Sessions : t # s => disp'[t] = disp[t] /\ seen'[t] = seen[t]
      BY <1>3, <1>5, <2>1 DEF Choose, SessionsOK
    <2>6. QED
      BY <1>1, <1>2, <1>5, <2>4, <2>5, StepHolds DEF Choose, Labels
  <1>6. CASE NoneLeft(s)
    BY <1>1, <1>2, <1>6, PastHolds DEF NoneLeft, Labels, Ended
  <1>7. CASE Prepare(s)
    <2>1. PICK to \in {"check", "failed"} : Goto(s, to)
      BY <1>7 DEF Prepare
    <2>2. pc'[s] = to /\ pc[s] = "prep" /\ UNCHANGED <<seen, disp>>
      BY <1>3, <1>7, <2>1 DEF Prepare, Goto, SessionsOK
    <2>3. SeenStill(s)' /\ Held(s)'
      BY <1>1, <2>1, <2>2 DEF DisplayInv, SeenStill, Held, Serves, Open, request
    <2>4. QED
      BY <1>1, <1>2, <2>1, <2>2, <2>3, StepHolds DEF Labels, Ended, InRootfs
  <1>8. QED
    BY <1>4, <1>5, <1>6, <1>7 DEF PickDisplay

\* gui-start.sh, past its look at the port, and gui.stop.
LEMMA StartHolds ==
  ASSUME DisplayInv, ~Slow, NEW s \in Sessions, GuiStart(s) \/ Stop(s)
  PROVE  DisplayInv'
  <1>1. /\ Active(s) /\ UNCHANGED <<request, seen>>
        /\ \E to \in {"ok", "failed"} \cup (InRootfs \ {"check"}) : Goto(s, to)
    BY DEF GuiStart, Check, KillServer, Signal, Reap, Clean, Leftovers, Launch, Wait, SeeServer,
       SeeSession, Stop, Active, Ended, InRootfs
  <1>2. SocketInv' /\ SharedOK
    BY CheckKeeps, SeeKeeps, EndingKeeps, CleanKeeps, LaunchKeeps, WaitKeeps, TypeParts
       DEF DisplayInv, SocketInv, GuiStart
  <1>3. \A t \in Sessions : t # s => disp'[t] = disp[t]
    BY TypeParts DEF DisplayInv, SocketInv, SessionsOK, GuiStart, Check, KillServer, Signal, Reap,
       Clean, Leftovers, Launch, Wait, SeeServer, SeeSession, Stop
  <1>4. Backed' /\ NoneNew
    <2>1. CASE KillServer(s) \/ Signal(s) \/ Reap(s) \/ Leftovers(s) \/ Stop(s)
      BY <1>2, <2>1, EndingSteps, ShrinksBacked DEF DisplayInv, SocketInv
    <2>2. CASE Clean(s)
      BY <2>2, UnchangedPorts DEF DisplayInv, Clean, Backed, Ours, Serves, Open
    <2>3. CASE Check(s) \/ Launch(s) \/ Wait(s) \/ SeeServer(s) \/ SeeSession(s)
      BY <2>3, UnchangedPorts
         DEF DisplayInv, Check, Launch, Wait, SeeServer, SeeSession, shared, Backed, Ours, Serves, Open
    <2>4. QED
      BY <2>1, <2>2, <2>3 DEF GuiStart
  <1>5. QED
    BY <1>1, <1>2, <1>3, <1>4, PastHolds DEF Labels, Ended, InRootfs

\* The job of boot.sh goes to the display it was given: it has not picked one.
LEMMA HookHolds ==
  ASSUME DisplayInv, NEW s \in Sessions, NEW t \in Sessions, RunHook(s, t)
  PROVE  DisplayInv'
  <1>1. /\ pc[s] \in {"tap", "hook"} /\ Active(s) /\ s # t
        /\ UNCHANGED <<socket, port>> /\ SocketInv'
    BY HookKeeps DEF RunHook, Active, Ended, DisplayInv
  <1>2. \A r \in Sessions : r # s => ~Active(r)
    BY <1>1, Others DEF DisplayInv, SocketInv, InRootfs
  <1>3. /\ pc'[s] \in {"poll", "ok"} /\ pc'[t] = "check" /\ op'[t] = "boot"
        /\ \A r \in Sessions : r # s /\ r # t => pc'[r] = pc[r]
    BY <1>1, TypeParts DEF RunHook, Asked, DisplayInv, SocketInv, SessionsOK
  <1>4. ASSUME NEW r \in Sessions PROVE SeenStill(r)' /\ Held(r)'
    BY <1>2, <1>3 DEF SeenStill, Held, Active, Ended
  <1>5. Backed'
    BY <1>1 DEF DisplayInv, Backed, Ours, Serves, Open
  <1>6. QED
    BY <1>1, <1>4, <1>5 DEF DisplayInv

LEMMA DeviceHolds ==
  ASSUME DisplayInv, NEW s \in Sessions, OnDevice(s)
  PROVE  DisplayInv'
  <1>1. CASE AlreadyRunning(s) \/ HookFails(s) \/ Poll(s)
    <2>1. Active(s) /\ UNCHANGED <<socket, port, request, seen, disp>>
      BY <1>1 DEF AlreadyRunning, HookFails, Poll, Active, Ended, shared
    <2>2. PICK to \in {"ok", "failed", "poll"} : Goto(s, to)
      BY <1>1 DEF AlreadyRunning, HookFails, Poll
    <2>3. SocketInv' /\ Backed' /\ NoneNew
      BY <2>1, DeviceKeeps, UnchangedPorts DEF DisplayInv, Backed, Ours, Serves, Open
    <2>4. QED
      BY <2>1, <2>2, <2>3, PastHolds DEF Labels, Ended
  <1>2. CASE \E t \in Jobs : RunHook(s, t)
    BY <1>2, HookHolds, ConstantsAssumption
  <1>3. QED
    BY <1>1, <1>2 DEF OnDevice

LEMMA BeginHolds ==
  ASSUME DisplayInv, Serial, NEW s \in Sessions, NEW o \in Ops, NEW i \in Instances,
         NEW u \in Owners, NEW d \in Wants, Begin(s, o, i, u, d)
  PROVE  DisplayInv'
  <1>1. (\A t \in Sessions : ~Active(t)) /\ UNCHANGED <<socket, port>> /\ SocketInv'
    BY BeginKeeps DEF Begin, shared, DisplayInv
  <1>2. FirstStep[o] \in {"listen", "stop", "tap", "hook"}
    BY ConstantsAssumption DEF FirstStep, AllOps
  <1>3. ASSUME NEW t \in Sessions PROVE pc'[t] \notin {"choose", "prep", "check"}
    BY <1>1, <1>2, TypeParts DEF Begin, Goto, DisplayInv, SocketInv, SessionsOK, Active, Ended
  <1>4. Backed'
    BY <1>1 DEF DisplayInv, Backed, Ours, Serves, Open
  <1>5. QED
    BY <1>1, <1>3, <1>4 DEF DisplayInv, SeenStill, Held

\* A server is bound while its session waits, when nobody relies on its port being free.
LEMMA BindHolds ==
  ASSUME DisplayInv, NEW i \in Instances, NEW n \in Displays, NEW u \in Owners, Bind(i, n, u)
  PROVE  DisplayInv'
  <1>1. PICK s \in Sessions : pc[s] = "wait"
    BY DEF Bind, DisplayInv, SocketInv, Spawned
  <1>2. ASSUME NEW t \in Sessions PROVE pc[t] \notin {"choose", "prep", "check"}
    BY <1>1, Others DEF DisplayInv, SocketInv, Active, Ended
  <1>3. SocketInv' /\ pc' = pc
    BY BindKeeps DEF DisplayInv, Bind
  <1>4. CASE Open(n) \/ Ours(i, n)
    BY <1>2, <1>3, <1>4 DEF Bind, DisplayInv, Backed, SeenStill, Held, Ours, Serves, Open
  <1>5. CASE ~(Open(n) \/ Ours(i, n))
    <2>1. /\ port' = [port EXCEPT ![n] = [inst |-> i, user |-> u, session |-> "starting"]]
          /\ socket' = socket \cup {<<i, n>>}
      BY <1>5 DEF Bind
    <2>2. [inst |-> i, user |-> u, session |-> "starting"] \in Server
      BY ConstantsAssumption DEF Server
    <2>3. ASSUME NEW j \in Instances, NEW m \in Displays, Ours(j, m)' PROVE Serves(j, m)'
      <3>1. CASE m = n
        <4>1. ~Ours(j, m)
          BY <1>5, <3>1 DEF DisplayInv, Backed, Serves
        <4>2. j = i
          BY <2>1, <2>3, <4>1 DEF Ours
        <4>3. QED
          BY <2>1, <2>2, <3>1, <4>2, ConstantsAssumption, TypeParts
             DEF DisplayInv, SocketInv, SharedOK, Serves, Open
      <3>2. CASE m # n
        BY <2>1, <2>3, <3>2, TypeParts
           DEF DisplayInv, SocketInv, SharedOK, Backed, Ours, Serves, Open
      <3>3. QED
        BY <3>1, <3>2
    <2>4. QED
      BY <1>2, <1>3, <2>3 DEF DisplayInv, Backed, SeenStill, Held
  <1>6. QED
    BY <1>4, <1>5

LEMMA EnvironmentHolds ==
  ASSUME DisplayInv,
         \/ \E n \in Displays : SessionUp(n) \/ SessionCrash(n)
         \/ \E i \in Instances : BringUp(i)
         \/ UNCHANGED vars
  PROVE  DisplayInv'
  <1>1. SocketInv' /\ SharedOK /\ UNCHANGED <<request, seen, disp, pc>>
    BY EnvironmentKeeps, TypeParts DEF DisplayInv, SocketInv, SessionUp, SessionCrash, BringUp, vars
  <1>2. Backed' /\ NoneNew
    <2>1. ASSUME NEW n \in Displays, SessionUp(n) PROVE Backed' /\ NoneNew
      <3>1. /\ [port[n] EXCEPT !.session = "up"].inst = port[n].inst
            /\ [port[n] EXCEPT !.session = "up"] \in Server
        BY <1>1, <2>1 DEF SessionUp, SharedOK, Server, Open
      <3>2. QED
        BY <1>1, <2>1, <3>1, ConstantsAssumption
           DEF SessionUp, DisplayInv, SharedOK, Backed, NoneNew, Ours, Serves, Open
    <2>2. ASSUME NEW n \in Displays, SessionCrash(n) PROVE Backed' /\ NoneNew
      <3>1. PICK gone \in SUBSET Displays : Shrinks(gone)
        BY <1>1, <2>2, SessionsShrink DEF SessionCrash
      <3>2. QED
        BY <1>1, <3>1, ShrinksBacked DEF DisplayInv
    <2>3. CASE (\E i \in Instances : BringUp(i)) \/ UNCHANGED vars
      BY <2>3, UnchangedPorts DEF BringUp, vars, shared, DisplayInv, Backed, Ours, Serves, Open
    <2>4. QED
      BY <2>1, <2>2, <2>3
  <1>3. ASSUME NEW s \in Sessions PROVE SeenStill(s)' /\ Held(s)'
    <2>1. pc[s] \in {"prep", "check"} => disp[s] \in Displays
      BY AtWork DEF DisplayInv, SocketInv, Active, Ended, InRootfs
    <2>2. QED
      BY <1>1, <1>2, <2>1 DEF DisplayInv, SeenStill, Held, NoneNew, Serves, request
  <1>4. QED
    BY <1>1, <1>2, <1>3 DEF DisplayInv

LEMMA DisplayInit == Init => DisplayInv
  BY SocketInit DEF Init, DisplayInv, Backed, SeenStill, Held, Ours

LEMMA DisplayNext ==
  ASSUME DisplayInv, Serial, ~Slow, ~HardStops, [Next]_vars
  PROVE  DisplayInv'
  <1>1. ASSUME NEW s \in Sessions, Step(s) PROVE DisplayInv'
    BY <1>1, PickHolds, StartHolds, DeviceHolds DEF Step
  <1>2. QED
    BY <1>1, BeginHolds, BindHolds, EnvironmentHolds DEF Next, Down, Reboot

LEMMA DisplayThroughout ==
  ASSUME Serial, ~Slow, ~HardStops
  PROVE  Spec => []DisplayInv
  <1>1. Init => DisplayInv
    BY DisplayInit
  <1>2. DisplayInv /\ [Next]_vars => DisplayInv'
    BY DisplayNext
  <1>3. QED
    BY <1>1, <1>2, PTL DEF Spec

\* A display that is picked without --display is free or held by the instance's own
\* server, as long as sockets go with their servers: nothing is killed or loses power,
\* whose sockets stay in the image (pick-display.sh:13).
THEOREM OwnDisplayPicked ==
  ASSUME Serial, ~Slow, ~HardStops
  PROVE  Spec => []NoForeignDisplay
  <1>1. DisplayInv => NoForeignDisplay
    BY DEF DisplayInv, NoForeignDisplay, Held
  <1>2. QED
    BY <1>1, DisplayThroughout, PTL

-----------------------------------------------------------------------------
(* A start that succeeds.                                                  *)

\* While a session looks at the server it has waited for, nobody else can be at one.
LEMMA AloneReaches ==
  ASSUME ReachInv, NEW s \in Sessions, pc[s] \in {"server", "session"},
         NEW t \in Sessions, t # s, Active(t)
  PROVE  pc[t] = "poll"
  BY Others DEF ReachInv, DisplayInv, SocketInv, Active, Ended

\* What a step of one session owes: the others have lost nothing, or were not there.
LEMMA StepReaches ==
  ASSUME ReachInv, DisplayInv', NEW s \in Sessions, NEW to \in Labels, Goto(s, to), Active(s),
         UNCHANGED request, \A t \in Sessions : t # s => disp'[t] = disp[t],
         pc[s] = "poll" => UNCHANGED port, Reached(s)'
  PROVE  ReachInv'
  <1>1. \A t \in Sessions : t # s => pc'[t] = pc[t]
    BY TypeParts DEF ReachInv, DisplayInv, SocketInv, SessionsOK, Goto
  <1>2. ASSUME NEW t \in Sessions, t # s PROVE Reached(t)'
    BY <1>1, <1>2, AloneReaches DEF ReachInv, Reached, Serves, Open, request
  <1>3. QED
    BY <1>2 DEF ReachInv

\* The socket that ends the wait has its server behind it.
LEMMA StartReaches ==
  ASSUME ReachInv, ~Slow, NEW s \in Sessions, GuiStart(s) \/ Stop(s)
  PROVE  ReachInv'
  <1>1. /\ Active(s) /\ UNCHANGED <<request, seen>> /\ pc[s] # "poll" /\ DisplayInv'
        /\ SessionsOK /\ inst[s] \in Instances
        /\ pc[s] \in InRootfs => disp[s] \in Displays
    BY StartHolds, TypeParts, AtWork
       DEF GuiStart, Check, KillServer, Signal, Reap, Clean, Leftovers, Launch, Wait, SeeServer,
       SeeSession, Stop, Active, Ended, ReachInv, DisplayInv, SocketInv
  <1>2. \A t \in Sessions : t # s => disp'[t] = disp[t]
    BY <1>1 DEF SessionsOK, GuiStart, Check, KillServer, Signal, Reap,
       Clean, Leftovers, Launch, Wait, SeeServer, SeeSession, Stop
  <1>3. CASE Wait(s)
    <2>1. PICK to \in {"server", "failed"} : Goto(s, to) /\ (to = "server" => Ours(inst[s], disp[s]))
      BY <1>3 DEF Wait
    <2>2. pc'[s] = to /\ pc[s] = "wait" /\ UNCHANGED <<port, disp>>
      BY <1>1, <1>3, <2>1 DEF Wait, Goto, SessionsOK, shared
    <2>3. Reached(s)'
      BY <1>1, <2>1, <2>2 DEF ReachInv, DisplayInv, Backed, Reached, Serves, Open, InRootfs, request
    <2>4. QED
      BY <1>1, <1>2, <2>1, <2>3, StepReaches DEF Labels, Ended, InRootfs
  <1>4. CASE SeeServer(s)
    <2>1. PICK to \in {"session", "failed"} : Goto(s, to)
      BY <1>4 DEF SeeServer
    <2>2. pc[s] = "server" /\ UNCHANGED <<port, disp>>
      BY <1>4 DEF SeeServer, shared
    <2>3. Reached(s)'
      BY <1>1, <2>2 DEF ReachInv, Reached, Serves, Open, request
    <2>4. QED
      BY <1>1, <1>2, <2>1, <2>3, StepReaches DEF Labels, Ended, InRootfs
  <1>5. CASE ~Wait(s) /\ ~SeeServer(s)
    <2>1. PICK to \in {"ok", "failed"} \cup (InRootfs \ {"server", "session"}) : Goto(s, to)
      BY <1>5 DEF GuiStart, Check, KillServer, Signal, Reap, Clean, Leftovers, Launch, SeeSession,
         Stop, InRootfs
    <2>2. pc'[s] = to
      BY <1>1, <2>1 DEF Goto, SessionsOK
    <2>3. Reached(s)'
      BY <2>1, <2>2 DEF Reached
    <2>4. QED
      BY <1>1, <1>2, <2>1, <2>3, StepReaches DEF Labels, Ended
  <1>6. QED
    BY <1>3, <1>4, <1>5

LEMMA PickReaches ==
  ASSUME ReachInv, NEW s \in Sessions, PickDisplay(s)
  PROVE  ReachInv'
  <1>1. Active(s) /\ UNCHANGED <<request, port>> /\ DisplayInv' /\ SessionsOK
    BY PickHolds, TypeParts DEF PickDisplay, Listen, Choose, NoneLeft, Prepare, Active, Ended,
       shared, ReachInv, DisplayInv, SocketInv
  <1>2. PICK to \in {"choose", "prep", "failed", "check"} : Goto(s, to)
    BY DEF PickDisplay, Listen, Choose, NoneLeft, Prepare
  <1>3. \A t \in Sessions : t # s => disp'[t] = disp[t]
    BY <1>1 DEF PickDisplay, Listen, Choose, NoneLeft, Prepare, SessionsOK
  <1>4. Reached(s)'
    BY <1>1, <1>2 DEF Reached, Goto, SessionsOK
  <1>5. QED
    BY <1>1, <1>2, <1>3, <1>4, StepReaches DEF Labels, Ended, InRootfs

LEMMA DeviceReaches ==
  ASSUME ReachInv, NEW s \in Sessions, OnDevice(s)
  PROVE  ReachInv'
  <1>1. DisplayInv' /\ SessionsOK /\ UNCHANGED port
    BY DeviceHolds, TypeParts DEF OnDevice, AlreadyRunning, HookFails, Poll, RunHook, shared,
       ReachInv, DisplayInv, SocketInv
  <1>2. CASE AlreadyRunning(s) \/ HookFails(s) \/ Poll(s)
    <2>1. Active(s) /\ UNCHANGED <<request, disp>>
      BY <1>2 DEF AlreadyRunning, HookFails, Poll, Active, Ended
    <2>2. PICK to \in {"ok", "failed", "poll"} : Goto(s, to)
      BY <1>2 DEF AlreadyRunning, HookFails, Poll
    <2>3. Reached(s)'
      BY <1>1, <2>2 DEF Reached, Goto, SessionsOK
    <2>4. QED
      BY <1>1, <2>1, <2>2, <2>3, StepReaches DEF Labels, Ended
  <1>3. ASSUME NEW t \in Jobs, RunHook(s, t) PROVE ReachInv'
    <2>1. t \in Sessions /\ pc[s] \in {"tap", "hook"} /\ Active(s) /\ s # t
      BY <1>3, ConstantsAssumption DEF RunHook, Active, Ended
    <2>2. /\ pc'[s] \in {"poll", "ok"} /\ pc'[t] = "check"
          /\ \A r \in Sessions : r # s /\ r # t => pc'[r] = pc[r]
      BY <1>1, <1>3, <2>1 DEF RunHook, SessionsOK
    <2>3. ASSUME NEW r \in Sessions PROVE Reached(r)'
      <3>1. pc[r] \notin {"server", "session"}
        BY <2>1, AloneReaches
      <3>2. QED
        BY <2>2, <3>1 DEF Reached
    <2>4. QED
      BY <1>1, <2>3 DEF ReachInv
  <1>4. QED
    BY <1>2, <1>3 DEF OnDevice

LEMMA BeginReaches ==
  ASSUME ReachInv, Serial, NEW s \in Sessions, NEW o \in Ops, NEW i \in Instances,
         NEW u \in Owners, NEW d \in Wants, Begin(s, o, i, u, d)
  PROVE  ReachInv'
  <1>1. (\A t \in Sessions : ~Active(t)) /\ DisplayInv'
    BY BeginHolds DEF Begin, ReachInv
  <1>2. FirstStep[o] \in {"listen", "stop", "tap", "hook"}
    BY ConstantsAssumption DEF FirstStep, AllOps
  <1>3. \A t \in Sessions : pc'[t] \notin {"server", "session"}
    BY <1>1, <1>2, TypeParts
       DEF Begin, Goto, ReachInv, DisplayInv, SocketInv, SessionsOK, Active, Ended
  <1>4. QED
    BY <1>1, <1>3 DEF ReachInv, Reached

\* Another server cannot come up meanwhile, and this one does not end.
LEMMA EnvironmentReaches ==
  ASSUME ReachInv, ~Crashes,
         \/ \E i \in Instances, n \in Displays, u \in Owners : Bind(i, n, u)
         \/ \E n \in Displays : SessionUp(n) \/ SessionCrash(n)
         \/ \E i \in Instances : BringUp(i)
         \/ UNCHANGED vars
  PROVE  ReachInv'
  <1>1. DisplayInv' /\ SharedOK /\ UNCHANGED <<request, disp, pc>>
    BY BindHolds, EnvironmentHolds, TypeParts
       DEF ReachInv, DisplayInv, SocketInv, Bind, SessionUp, SessionCrash, BringUp, vars
  <1>2. ASSUME NEW s \in Sessions, pc[s] \in {"server", "session"}
        PROVE  Serves(inst[s], disp[s])'
    <2>1. disp[s] \in Displays /\ Serves(inst[s], disp[s])
      BY <1>2, AtWork DEF ReachInv, DisplayInv, SocketInv, Reached, Active, Ended, InRootfs
    <2>2. coming = {}
      BY <1>2, NothingSpawned DEF ReachInv, DisplayInv, Active, Ended
    <2>3. ASSUME NEW n \in Displays, SessionUp(n) PROVE Serves(inst[s], disp[s])'
      <3>1. /\ [port[n] EXCEPT !.session = "up"].inst = port[n].inst
            /\ [port[n] EXCEPT !.session = "up"] \in Server
        BY <1>1, <2>3 DEF SessionUp, SharedOK, Server, Open
      <3>2. QED
        BY <1>1, <2>1, <2>3, <3>1, ConstantsAssumption
           DEF SessionUp, SharedOK, Serves, Open, request
    <2>4. CASE (\E i \in Instances : BringUp(i)) \/ UNCHANGED vars
      BY <2>1, <2>4 DEF BringUp, vars, shared, Serves, Open, request
    <2>5. QED
      BY <2>2, <2>3, <2>4 DEF Bind, SessionCrash
  <1>3. QED
    BY <1>1, <1>2 DEF ReachInv, Reached

LEMMA ReachNext ==
  ASSUME ReachInv, Serial, ~Slow, ~HardStops, ~Crashes, [Next]_vars
  PROVE  ReachInv'
  <1>1. ASSUME NEW s \in Sessions, Step(s) PROVE ReachInv'
    BY <1>1, PickReaches, StartReaches, DeviceReaches DEF Step
  <1>2. QED
    BY <1>1, BeginReaches, EnvironmentReaches DEF Next, Down, Reboot

\* A start succeeds past the port it found held by its own server, or past the server
\* it waited for.
LEMMA SuccessServes ==
  ASSUME ReachInv, Serial, ~Slow, ~HardStops, [Next]_vars,
         NEW s \in Sessions, pc[s] \in {"check", "session"}, pc'[s] = "ok"
  PROVE  Serves(inst[s], disp[s])
  <1>1. CASE pc[s] = "session"
    BY <1>1 DEF ReachInv, Reached
  <1>2. CASE pc[s] = "check"
    <2>1. inst[s] \in Instances /\ disp[s] \in Displays
      BY <1>2, AtWork DEF ReachInv, DisplayInv, SocketInv, Active, Ended, InRootfs
    <2>2. SessionsOK
      BY TypeParts DEF ReachInv, DisplayInv, SocketInv
    <2>3. ASSUME NEW t \in Sessions, Step(t) PROVE Check(s)
      <3>1. t = s
        BY <1>2, <2>2, <2>3, ConstantsAssumption
           DEF SessionsOK, Step, PickDisplay, Listen, Choose, NoneLeft, Prepare, GuiStart, Check,
           KillServer, Signal, Reap, Clean, Leftovers, Launch, Wait, SeeServer, SeeSession,
           OnDevice, AlreadyRunning, HookFails, Poll, RunHook, Stop, Goto, Active, Ended
      <3>2. QED
        BY <1>2, <2>3, <3>1
           DEF Step, PickDisplay, Listen, Choose, NoneLeft, Prepare, GuiStart, KillServer, Signal,
           Reap, Clean, Leftovers, Launch, Wait, SeeServer, SeeSession, OnDevice, AlreadyRunning,
           HookFails, Poll, RunHook, Stop
    <2>4. Check(s)
      <3>1. pc' # pc
        BY <1>2
      <3>2. \A t \in Sessions, o \in Ops, i \in Instances, u \in Owners, d \in Wants :
              ~Begin(t, o, i, u, d)
        BY <1>2 DEF Begin, Active, Ended
      <3>3. QED
        BY <2>3, <3>1, <3>2
           DEF Next, Bind, SessionUp, SessionCrash, BringUp, Down, Reboot, vars
    <2>5. Ours(inst[s], disp[s])
      BY <1>2, <2>2, <2>4 DEF Check, Goto, SessionsOK
    <2>6. QED
      BY <2>1, <2>5 DEF ReachInv, DisplayInv, Backed
  <1>3. QED
    BY <1>1, <1>2

\* A start that reports success has this instance's server, and no other's, behind the
\* port it goes on to forward, when no server ends of its own accord (gui-start.sh:155).
THEOREM SuccessfulStartServes ==
  ASSUME Serial, ~Slow, ~HardStops, ~Crashes
  PROVE  Spec => StartServes
  <1>1. Init => ReachInv
    BY DisplayInit DEF Init, ReachInv, Reached
  <1>2. ReachInv /\ [Next]_vars => ReachInv'
    BY ReachNext
  <1>3. ReachInv /\ [Next]_vars =>
          [\A s \in Sessions : pc[s] \in {"check", "session"} /\ pc'[s] = "ok" =>
             Serves(inst[s], disp[s])]_vars
    BY SuccessServes
  <1>4. QED
    BY <1>1, <1>2, <1>3, PTL DEF Spec, StartServes
-----------------------------------------------------------------------------
(* The instance's own desktop.                                             *)

LEMMA SitedStays ==
  ASSUME Sited, NoneNew, up \subseteq up', UNCHANGED display
  PROVE  Sited'
  BY DEF Sited, NoneNew, Place, Open

LEMMA EndedAtHome ==
  ASSUME NEW s \in Sessions, pc[s] \in Ended
  PROVE  AtHome(s)
  BY DEF AtHome, Active, Ended, InRootfs

\* A step of one session: another one can be at work only while one of the two polls.
LEMMA StepStays ==
  ASSUME HomeInv, SocketInv', Sited', Boots => \A i \in Instances : display'[i] \in {None, 1},
         NEW s \in Sessions, NEW to \in Labels, Goto(s, to), Active(s),
         UNCHANGED request, up \subseteq up',
         \A t \in Sessions : t # s => disp'[t] = disp[t] /\ seen'[t] = seen[t],
         pc[s] = "poll" => UNCHANGED display,
         AtHome(s)'
  PROVE  HomeInv'
  <1>1. \A t \in Sessions : t # s => pc'[t] = pc[t]
    BY TypeParts DEF HomeInv, SocketInv, SessionsOK, Goto
  <1>2. ASSUME NEW t \in Sessions, t # s PROVE AtHome(t)'
    <2>1. CASE ~Active(t)
      BY <1>1, <1>2, <2>1 DEF AtHome, Active, Ended, InRootfs
    <2>2. CASE pc[t] = "poll"
      BY <1>1, <1>2, <2>2 DEF HomeInv, AtHome, Active, Ended, InRootfs, request
    <2>3. CASE pc[s] = "poll" /\ pc[t] \in InRootfs
      BY <1>1, <1>2, <2>3 DEF HomeInv, AtHome, Active, Ended, InRootfs, Place, request
    <2>4. QED
      BY <1>2, <2>1, <2>2, <2>3, Others DEF HomeInv, SocketInv
  <1>3. QED
    BY <1>2 DEF HomeInv

\* One that records no display and opens no port.
LEMMA QuietStays ==
  ASSUME HomeInv, SocketInv', NoneNew, UNCHANGED <<request, display>>, up \subseteq up',
         NEW s \in Sessions, NEW to \in Labels, Goto(s, to), Active(s),
         \A t \in Sessions : t # s => disp'[t] = disp[t] /\ seen'[t] = seen[t],
         AtHome(s)'
  PROVE  HomeInv'
  BY SitedStays, StepStays DEF HomeInv

\* Looking at the ports: with one instance, a server on the first display is its own.
LEMMA ListenStays ==
  ASSUME HomeInv, Home, NEW s \in Sessions, Listen(s)
  PROVE  HomeInv'
  <1>1. /\ Active(s) /\ Goto(s, "choose") /\ SessionsOK /\ SharedOK /\ inst[s] \in Instances
        /\ UNCHANGED <<shared, request, disp>> /\ SocketInv'
        /\ seen' = [seen EXCEPT ![s] = {n \in Displays : Open(n)}]
    BY TypeParts, AtWork, PickKeeps DEF Listen, Active, Ended, HomeInv, SocketInv, PickDisplay
  <1>2. /\ pc'[s] = "choose" /\ seen'[s] = {n \in Displays : Open(n)} /\ want'[s] = want[s]
        /\ inst'[s] = inst[s] /\ up' = up /\ socket' = socket
        /\ \A t \in Sessions : t # s => disp'[t] = disp[t] /\ seen'[t] = seen[t]
    BY <1>1 DEF SessionsOK, Goto, shared, request
  <1>3. ASSUME Boots, Open(1) PROVE inst[s] \in up /\ Ours(inst[s], 1)
    <2>1. 1 \in Displays /\ port[1].inst \in Instances
      BY <1>1, <1>3, ConstantsAssumption DEF SharedOK, Open, Server
    <2>2. port[1].inst = inst[s]
      BY <1>1, <1>3, <2>1 DEF Home, Single
    <2>3. QED
      BY <1>3, <2>1, <2>2 DEF HomeInv, Sited, SocketInv, SocketKept
  <1>4. AtHome(s)'
    BY <1>1, <1>2, <1>3 DEF HomeInv, AtHome, Ours, Open, Active, InRootfs
  <1>5. NoneNew /\ display' = display
    BY <1>1, UnchangedPorts DEF shared
  <1>6. QED
    BY <1>1, <1>2, <1>4, <1>5, QuietStays DEF Labels

\* pick-display.sh returns the first display where the boot scripts are used: it is free
\* or the instance's own.
LEMMA ChoosesFirst ==
  ASSUME HomeInv, Home, Boots, NEW s \in Sessions, pc[s] = "choose", NEW n \in Choices(s)
  PROVE  n = 1
  <1>1. /\ want[s] \in {None, 1} /\ inst[s] \in Instances
        /\ 1 \in Displays /\ Displays \subseteq Nat \ {0} /\ None \notin Displays
    BY AtWork, ConstantsAssumption DEF HomeInv, SocketInv, Home, AtHome, Active, Ended
  <1>2. Usable(s, 1) /\ display[inst[s]] \in {None, 1}
    BY <1>1 DEF HomeInv, AtHome, Usable
  <1>3. n \in Displays /\ (want[s] = None => n = display[inst[s]] \/ n <= 1)
    BY <1>1, <1>2 DEF Choices
  <1>4. CASE want[s] = None
    <2>1. n \in Nat /\ n # 0 /\ n # None
      BY <1>1, <1>3
    <2>2. QED
      BY <1>2, <1>3, <1>4, <2>1
  <1>5. QED
    BY <1>1, <1>4 DEF Choices

\* Elsewhere it returns the recorded one when the instance has a server there.
LEMMA ChoosesServed ==
  ASSUME HomeInv, Home, ~Boots, NEW s \in Sessions, pc[s] = "choose", NEW n \in Choices(s),
         NEW m \in Displays, Serves(inst[s], m)
  PROVE  n = m
  <1>1. want[s] = None /\ inst[s] \in Instances
    BY AtWork DEF HomeInv, SocketInv, Home, AtHome, Active, Ended
  <1>2. m = display[inst[s]] /\ Usable(s, m)
    BY DEF HomeInv, Sited, Place, Serves, SocketInv, SocketKept, Usable
  <1>3. QED
    BY <1>1, <1>2 DEF Choices

LEMMA ChooseStays ==
  ASSUME HomeInv, Home, NEW s \in Sessions, Choose(s)
  PROVE  HomeInv'
  <1>1. /\ Active(s) /\ pc[s] = "choose" /\ Goto(s, "prep") /\ SessionsOK /\ SharedOK
        /\ inst[s] \in Instances /\ SocketInv'
        /\ UNCHANGED <<up, socket, port, request, seen>>
    BY TypeParts, AtWork, PickKeeps DEF Choose, Active, Ended, HomeInv, SocketInv, PickDisplay
  <1>2. PICK n \in Choices(s) : /\ disp'    = [disp EXCEPT ![s] = n]
                                /\ display' = [display EXCEPT ![inst[s]] = n]
    BY DEF Choose
  <1>3. /\ pc'[s] = "prep" /\ disp'[s] = n /\ display'[inst[s]] = n
        /\ \A i \in Instances : i # inst[s] => display'[i] = display[i]
        /\ \A t \in Sessions : t # s => disp'[t] = disp[t] /\ seen'[t] = seen[t]
        /\ inst'[s] = inst[s] /\ want'[s] = want[s]
    BY <1>1, <1>2 DEF SessionsOK, SharedOK, Goto, request
  <1>4. Boots => n = 1
    BY <1>1, ChoosesFirst
  <1>5. ASSUME NEW m \in Displays, Open(m)' PROVE port'[m].inst \in up' /\ m = Place(port[m].inst)'
    <2>1. Open(m) /\ port'[m].inst = port[m].inst /\ port[m].inst \in Instances
      BY <1>1, <1>5 DEF Open, SharedOK, Server
    <2>2. port[m].inst \in up /\ m = Place(port[m].inst)
      BY <2>1 DEF HomeInv, Sited
    <2>3. CASE Boots
      BY <1>1, <2>1, <2>2, <2>3 DEF Place
    <2>4. CASE ~Boots /\ port[m].inst # inst[s]
      BY <1>1, <1>3, <2>1, <2>2, <2>4 DEF Place
    <2>5. CASE ~Boots /\ port[m].inst = inst[s]
      <3>1. n = m
        BY <1>1, <2>1, <2>5, ChoosesServed DEF Serves
      <3>2. QED
        BY <1>1, <1>3, <2>1, <2>2, <2>5, <3>1 DEF Place
    <2>6. QED
      BY <2>3, <2>4, <2>5
  <1>6. Sited'
    BY <1>1, <1>5 DEF Sited, Place
  <1>7. Boots => \A i \in Instances : display'[i] \in {None, 1}
    BY <1>3, <1>4 DEF HomeInv
  <1>8. AtHome(s)'
    BY <1>1, <1>3, <1>4 DEF HomeInv, AtHome, Place, Active, InRootfs
  <1>9. QED
    BY <1>1, <1>3, <1>6, <1>7, <1>8, StepStays DEF Labels

LEMMA PickStays ==
  ASSUME HomeInv, Home, NEW s \in Sessions, PickDisplay(s)
  PROVE  HomeInv'
  <1>1. CASE NoneLeft(s) \/ Prepare(s)
    <2>1. /\ Active(s) /\ SessionsOK /\ inst[s] \in Instances /\ SocketInv'
          /\ pc[s] \in {"choose", "prep"}
      BY <1>1, TypeParts, AtWork, PickKeeps
         DEF NoneLeft, Prepare, Active, Ended, HomeInv, SocketInv, PickDisplay
    <2>2. UNCHANGED <<display, port, request, seen, disp>> /\ up \subseteq up'
      BY <1>1 DEF NoneLeft, Prepare, shared
    <2>3. PICK to \in {"failed", "check"} :
            Goto(s, to) /\ (to = "check" => pc[s] = "prep" /\ inst[s] \in up')
      BY <1>1 DEF NoneLeft, Prepare
    <2>4. pc'[s] = to
      BY <2>1, <2>3 DEF Goto, SessionsOK
    <2>5. AtHome(s)'
      BY <2>1, <2>2, <2>3, <2>4
         DEF HomeInv, AtHome, Place, Active, Ended, InRootfs, request
    <2>6. QED
      BY <2>1, <2>2, <2>3, <2>5, UnchangedPorts, QuietStays DEF Labels, Ended, InRootfs
  <1>2. QED
    BY <1>1, ListenStays, ChooseStays DEF PickDisplay

\* gui-start.sh kills at a restart only, and works where it has checked the port.
LEMMA StartStays ==
  ASSUME HomeInv, ~Slow, NEW s \in Sessions, GuiStart(s)
  PROVE  HomeInv'
  <1>1. /\ Active(s) /\ pc[s] \in InRootfs /\ SharedOK /\ SessionsOK
        /\ UNCHANGED <<up, display, request, seen, disp>>
    BY TypeParts DEF GuiStart, Check, KillServer, Signal, Reap, Clean, Leftovers, Launch, Wait,
       SeeServer, SeeSession, Active, Ended, InRootfs, HomeInv, SocketInv, shared
  <1>2. PICK to \in {"ok", "failed"} \cup InRootfs :
          /\ Goto(s, to)
          /\ to = "kill" => op[s] = "restart"
          /\ to \in {"signal", "reap"} => pc[s] \in {"kill", "signal"}
    BY DEF GuiStart, Check, KillServer, Signal, Reap, Clean, Leftovers, Launch, Wait,
       SeeServer, SeeSession, InRootfs
  <1>3. SocketInv'
    BY CheckKeeps, SeeKeeps, EndingKeeps, CleanKeeps, LaunchKeeps, WaitKeeps DEF HomeInv, GuiStart
  <1>4. NoneNew
    <2>1. CASE KillServer(s) \/ Signal(s) \/ Reap(s) \/ Leftovers(s)
      BY <2>1, EndingSteps DEF HomeInv, SocketInv, Shrinks, NoneNew, Open
    <2>2. CASE Check(s) \/ Clean(s) \/ Launch(s) \/ Wait(s) \/ SeeServer(s) \/ SeeSession(s)
      BY <2>2, UnchangedPorts DEF Check, Clean, Launch, Wait, SeeServer, SeeSession, shared
    <2>3. QED
      BY <2>1, <2>2 DEF GuiStart
  <1>5. pc'[s] = to
    BY <1>1, <1>2 DEF Goto, SessionsOK
  <1>6. AtHome(s)'
    BY <1>1, <1>2, <1>5 DEF HomeInv, AtHome, Place, Active, Ended, InRootfs, request
  <1>7. QED
    BY <1>1, <1>2, <1>3, <1>4, <1>6, QuietStays DEF Labels, Ended

LEMMA StopStays ==
  ASSUME HomeInv, NEW s \in Sessions, Stop(s)
  PROVE  HomeInv'
  <1>1. /\ Active(s) /\ SessionsOK /\ Goto(s, "ok") /\ SocketInv'
        /\ UNCHANGED <<display, request, seen>> /\ up \subseteq up'
    BY TypeParts, EndingKeeps DEF Stop, Active, Ended, HomeInv, SocketInv
  <1>2. \A t \in Sessions : t # s => disp'[t] = disp[t] /\ seen'[t] = seen[t]
    BY <1>1 DEF Stop, SessionsOK
  <1>3. NoneNew
    BY EndingSteps DEF HomeInv, SocketInv, Shrinks, NoneNew, Open
  <1>4. pc'[s] = "ok"
    BY <1>1 DEF Goto, SessionsOK
  <1>5. AtHome(s)'
    BY <1>4 DEF AtHome, Active, Ended, InRootfs
  <1>6. QED
    BY <1>1, <1>2, <1>3, <1>5, QuietStays DEF Labels, Ended

\* The job of boot.sh starts the desktop on the first display, in a rootfs that is up.
LEMMA HookStays ==
  ASSUME HomeInv, Home, NEW s \in Sessions, NEW t \in Sessions, RunHook(s, t)
  PROVE  HomeInv'
  <1>1. /\ pc[s] \in {"tap", "hook"} /\ Active(s) /\ s # t /\ inst[s] \in Instances
        /\ SessionsOK /\ Boots /\ UNCHANGED <<display, port>> /\ SocketInv'
        /\ up' = up \cup {inst[s]}
    BY TypeParts, AtWork, HookKeeps DEF RunHook, Active, Ended, HomeInv, SocketInv, AtHome
  <1>2. \A r \in Sessions : r # s => ~Active(r)
    BY <1>1, Others DEF HomeInv, SocketInv, InRootfs
  <1>3. /\ pc'[s] \in {"poll", "ok"} /\ pc'[t] = "check"
        /\ inst'[t] = inst[s] /\ want'[t] = None /\ want'[s] = want[s] /\ disp'[t] = 1
        /\ \A r \in Sessions : r # s /\ r # t => pc'[r] = pc[r]
    BY <1>1 DEF RunHook, Asked, SessionsOK, Home
  <1>4. Sited' /\ (Boots => \A i \in Instances : display'[i] \in {None, 1})
    BY <1>1, SitedStays, UnchangedPorts DEF HomeInv
  <1>5. AtHome(t)'
    BY <1>1, <1>3 DEF AtHome, Place, Active, InRootfs
  <1>6. AtHome(s)'
    BY <1>1, <1>3 DEF HomeInv, AtHome, Active, Ended, InRootfs
  <1>7. ASSUME NEW r \in Sessions, r # s, r # t PROVE AtHome(r)'
    BY <1>2, <1>3, <1>7 DEF AtHome, Active, Ended, InRootfs
  <1>8. QED
    BY <1>1, <1>4, <1>5, <1>6, <1>7 DEF HomeInv

LEMMA DeviceStays ==
  ASSUME HomeInv, Home, NEW s \in Sessions, OnDevice(s)
  PROVE  HomeInv'
  <1>1. CASE AlreadyRunning(s) \/ HookFails(s) \/ Poll(s)
    <2>1. /\ pc[s] \in {"tap", "hook", "poll"} /\ Active(s) /\ SessionsOK
          /\ UNCHANGED <<up, display, socket, port, coming, request, seen, disp>>
      BY <1>1, TypeParts
         DEF AlreadyRunning, HookFails, Poll, Active, Ended, shared, HomeInv, SocketInv
    <2>2. PICK to \in {"ok", "failed", "poll"} : Goto(s, to)
      BY <1>1 DEF AlreadyRunning, HookFails, Poll
    <2>3. SocketInv'
      BY DeviceKeeps DEF HomeInv
    <2>4. pc'[s] = to
      BY <2>1, <2>2 DEF Goto, SessionsOK
    <2>5. AtHome(s)'
      BY <2>1, <2>2, <2>4 DEF HomeInv, AtHome, Active, Ended, InRootfs, request
    <2>6. QED
      BY <2>1, <2>2, <2>3, <2>5, UnchangedPorts, QuietStays DEF Labels, Ended
  <1>2. CASE \E t \in Jobs : RunHook(s, t)
    BY <1>2, HookStays, ConstantsAssumption
  <1>3. QED
    BY <1>1, <1>2 DEF OnDevice

LEMMA BeginStays ==
  ASSUME HomeInv, Serial, NEW s \in Sessions, NEW o \in Ops, NEW i \in Instances,
         NEW u \in Owners, NEW d \in Wants, Begin(s, o, i, u, d)
  PROVE  HomeInv'
  <1>1. /\ \A t \in Sessions : ~Active(t)
        /\ SessionsOK /\ SocketInv' /\ UNCHANGED shared
    BY TypeParts, BeginKeeps DEF Begin, HomeInv, SocketInv
  <1>2. /\ FirstStep[o] \in {"listen", "stop", "tap", "hook"}
        /\ FirstStep[o] \in {"tap", "hook"} => Boots
    BY ConstantsAssumption DEF FirstStep, AllOps, Boots
  <1>3. /\ pc'[s] = FirstStep[o] /\ want'[s] = d
        /\ \A t \in Sessions : t # s => pc'[t] = pc[t]
    BY <1>1, <1>2 DEF Begin, Goto, Asked, SessionsOK
  <1>4. AtHome(s)'
    BY <1>2, <1>3 DEF AtHome, InRootfs
  <1>5. ASSUME NEW t \in Sessions, t # s PROVE AtHome(t)'
    BY <1>1, <1>3, <1>5 DEF AtHome, Active, Ended, InRootfs
  <1>6. Sited' /\ (Boots => \A j \in Instances : display'[j] \in {None, 1})
    BY <1>1, SitedStays, UnchangedPorts DEF shared, HomeInv
  <1>7. QED
    BY <1>1, <1>4, <1>5, <1>6 DEF HomeInv

\* The sessions stay where they are when no socket goes and no display is recorded.
LEMMA AllStay ==
  ASSUME HomeInv, UNCHANGED <<request, seen, disp, pc, display>>, up \subseteq up',
         Boots => socket \subseteq socket', NEW s \in Sessions
  PROVE  AtHome(s)'
  BY DEF HomeInv, AtHome, Place, Active, Ours, request

\* A server is bound where its session works.
LEMMA BindStays ==
  ASSUME HomeInv, NEW i \in Instances, NEW n \in Displays, NEW u \in Owners, Bind(i, n, u)
  PROVE  HomeInv'
  <1>1. /\ SocketInv' /\ UNCHANGED <<request, seen, disp, pc, display, up>>
        /\ socket \subseteq socket' /\ SharedOK
    BY BindKeeps, TypeParts DEF Bind, HomeInv, SocketInv
  <1>2. PICK s \in Sessions : pc[s] = "wait" /\ <<i, n, u>> = <<inst[s], disp[s], user[s]>>
    BY DEF Bind, HomeInv, SocketInv, Spawned
  <1>3. i \in up /\ n = Place(i)
    BY <1>2 DEF HomeInv, AtHome, InRootfs
  <1>4. Sited'
    <2>1. CASE UNCHANGED port
      BY <1>1, <2>1, SitedStays, UnchangedPorts DEF HomeInv
    <2>2. CASE port' = [port EXCEPT ![n] = [inst |-> i, user |-> u, session |-> "starting"]]
      BY <1>1, <1>3, <2>2 DEF HomeInv, Sited, Place, Open, SharedOK
    <2>3. QED
      BY <2>1, <2>2 DEF Bind
  <1>5. QED
    BY <1>1, <1>4, AllStay DEF HomeInv

LEMMA EnvironmentStays ==
  ASSUME HomeInv, Home,
         \/ \E n \in Displays : SessionUp(n) \/ SessionCrash(n)
         \/ \E i \in Instances : BringUp(i)
         \/ UNCHANGED vars
  PROVE  HomeInv'
  <1>1. /\ SocketInv' /\ SharedOK /\ UNCHANGED <<request, seen, disp, pc, display>>
        /\ up \subseteq up'
    BY EnvironmentKeeps, TypeParts
       DEF HomeInv, SocketInv, SessionUp, SessionCrash, BringUp, vars, shared
  <1>2. Boots => socket \subseteq socket'
    BY DEF SessionUp, SessionCrash, BringUp, vars, shared, Home
  <1>3. NoneNew
    <2>1. ASSUME NEW n \in Displays, SessionUp(n) PROVE NoneNew
      <3>1. [port[n] EXCEPT !.session = "up"].inst = port[n].inst
        BY <1>1, <2>1 DEF SessionUp, SharedOK, Server, Open
      <3>2. QED
        BY <1>1, <2>1, <3>1 DEF SessionUp, SharedOK, NoneNew, Open
    <2>2. ASSUME NEW n \in Displays, SessionCrash(n) PROVE NoneNew
      <3>1. \E gone \in SUBSET Displays : Shrinks(gone)
        BY <1>1, <2>2, SessionsShrink DEF SessionCrash
      <3>2. QED
        BY <3>1 DEF Shrinks, NoneNew, Open
    <2>3. CASE (\E i \in Instances : BringUp(i)) \/ UNCHANGED vars
      BY <2>3, UnchangedPorts DEF BringUp, vars, shared
    <2>4. QED
      BY <2>1, <2>2, <2>3
  <1>4. Sited'
    BY <1>1, <1>3, SitedStays DEF HomeInv
  <1>5. QED
    BY <1>1, <1>2, <1>4, AllStay DEF HomeInv

\* down takes an instance's servers with its rootfs, a reboot all of them.
LEMMA DownStays ==
  ASSUME HomeInv, Serial, (\E i \in Instances : Down(i)) \/ Reboot
  PROVE  HomeInv'
  <1>1. SocketInv' /\ SharedOK /\ UNCHANGED display
    BY StopsKeep, TypeParts DEF HomeInv, SocketInv, Down, Reboot
  <1>2. \A s \in Sessions : pc'[s] \in Ended
    BY TypeParts DEF Down, Reboot, HomeInv, SocketInv, SessionsOK, Active, Ended
  <1>3. Sited'
    BY <1>1 DEF HomeInv, Sited, Place, Down, Reboot, Serves, Open
  <1>4. \A s \in Sessions : AtHome(s)'
    BY <1>2 DEF AtHome, Active, Ended, InRootfs
  <1>5. QED
    BY <1>1, <1>3, <1>4 DEF HomeInv

LEMMA HomeInit == Init => HomeInv
  BY SocketInit DEF Init, HomeInv, Sited, AtHome, Active, Ended, InRootfs, Open

LEMMA HomeNext ==
  ASSUME HomeInv, Serial, ~Slow, Home, [Next]_vars
  PROVE  HomeInv'
  <1>1. ASSUME NEW s \in Sessions, Step(s) PROVE HomeInv'
    BY <1>1, PickStays, StartStays, DeviceStays, StopStays DEF Step
  <1>2. QED
    BY <1>1, BeginStays, BindStays, EnvironmentStays, DownStays DEF Next

\* A start that has found its display free has no server of its instance to disturb.
LEMMA OwnUndisturbed ==
  ASSUME HomeInv, NEW s \in Sessions, NEW n \in Displays,
         pc[s] \in {"kill", "signal", "reap", "leftovers"}, Serves(inst[s], n)
  PROVE  op[s] = "restart"
  <1>1. CASE pc[s] = "leftovers"
    <2>1. disp[s] = Place(inst[s]) /\ n = Place(inst[s]) /\ ~Open(disp[s])
      BY <1>1 DEF HomeInv, AtHome, Sited, SocketInv, Freed, Serves, InRootfs
    <2>2. QED
      BY <2>1 DEF Serves
  <1>2. QED
    BY <1>1 DEF HomeInv, AtHome

\* Only a restart ends the instance's own desktop.  Without the boot scripts this is so
\* for any number of instances, crashes, teardowns and reboots as long as nobody asks
\* for another display; with them for one instance whose display is the one they were
\* written for (gui-start.sh:178).
THEOREM OwnDesktopStays ==
  ASSUME Serial, ~Slow, Home
  PROVE  Spec => OwnDesktopKept
  <1>1. Init => HomeInv
    BY HomeInit
  <1>2. HomeInv /\ [Next]_vars => HomeInv'
    BY HomeNext
  <1>3. HomeInv /\ [Next]_vars =>
          [\A s \in Sessions, n \in Displays :
             Signals(s) /\ Serves(inst[s], n) /\ Ends(n) => op[s] = "restart"]_vars
    BY OwnUndisturbed DEF Signals
  <1>4. QED
    BY <1>1, <1>2, <1>3, PTL DEF Spec, OwnDesktopKept
=============================================================================
