--------------------------- MODULE ServicesProofs --------------------------
(***************************************************************************)
(* What daemons, accounts, sshd and the web proxy keep of what commands    *)
(* promise, for every set of instances, sessions, ports and names.         *)
(***************************************************************************)
EXTENDS ServicesProps, TLAPS

Labels == {"ok", "failed", "mount", "prep", "restart sshd", "down", "prepare",
           "account", "groups", "network", "record",
           "login", "truncate", "configure", "mark", "validate", "look", "launch", "confirm",
           "forward",
           "kill proxies", "serve", "curl", "unforward"}

Cmd == [pc : Labels, op : AllOps \cup {None}, inst : Instances \cup {None},
        port : SshPorts \cup WebPorts \cup {None}, name : Names \cup {None},
        disp : Displays \cup {None}]

Typed ==
  /\ cmd \in [Sessions -> Cmd]
  /\ uid \in [Instances -> [Names -> Int]]
  /\ inet \in [Instances -> SUBSET Names]
  /\ default \in [Instances -> Names \cup {None}]

UserSteps == {"account", "groups", "network", "record"}
First     == {"mount", "prep", "restart sshd"}

\* A command has an instance, and `user add` a name it was given; its steps are of
\* no other command.
Arguments(s) ==
  /\ Active(s) => cmd[s].inst \in Instances /\ cmd[s].op \in AllOps
  /\ Active(s) /\ cmd[s].op = "user" => cmd[s].name \in Adds
  /\ cmd[s].pc \in UserSteps => cmd[s].op = "user"
  /\ cmd[s].pc \in First => cmd[s].op # "down"
  /\ cmd[s].pc \in {"login", "truncate", "configure"} => cmd[s].op = "ssh"

\* What the steps of user-add.sh have established.
Established(s) ==
  /\ cmd[s].pc \in {"groups", "network", "record"} => Exists(cmd[s].inst, cmd[s].name)
  /\ cmd[s].pc \in {"network", "record"} => cmd[s].name \in inet[cmd[s].inst]

\* The default is an account that was added, and so not one that is renamed.
AddedDefault == \A i \in Instances : default[i] # None => default[i] \in Adds

AccountInv ==
  /\ Typed
  /\ \A s \in Sessions : Arguments(s) /\ Established(s)
  /\ AddedDefault
  /\ DefaultUsable

\* An account that was added is not taken for a placeholder.
Distinct == Adds \cap Placeholders = {}

-----------------------------------------------------------------------------
\* Going on to a next step changes that of one command, and none of the arguments.
LEMMA GoesOn ==
  ASSUME NEW s \in Sessions, NEW to \in Labels, cmd \in [Sessions -> Cmd], Goto(s, to)
  PROVE  /\ cmd' \in [Sessions -> Cmd]
         /\ \A t \in Sessions : t # s => cmd'[t] = cmd[t]
         /\ cmd'[s].pc = to
         /\ to \notin Ended => /\ cmd'[s].op = cmd[s].op
                               /\ cmd'[s].inst = cmd[s].inst
                               /\ cmd'[s].name = cmd[s].name
                               /\ cmd'[s].port = cmd[s].port /\ cmd'[s].disp = cmd[s].disp
  <1>1. Nothing(to) \in Cmd /\ Nothing(to).pc = to
    BY DEF Nothing, Cmd
  <1>2. [cmd[s] EXCEPT !.pc = to] \in Cmd
    BY DEF Cmd
  <1>3. cmd' = [cmd EXCEPT ![s] = IF to \in Ended THEN Nothing(to) ELSE [cmd[s] EXCEPT !.pc = to]]
    BY DEF Goto
  <1>4. cmd[s] \in Cmd
    OBVIOUS
  <1>5. to \notin Ended => /\ [cmd[s] EXCEPT !.pc = to].op = cmd[s].op
                           /\ [cmd[s] EXCEPT !.pc = to].inst = cmd[s].inst
                           /\ [cmd[s] EXCEPT !.pc = to].name = cmd[s].name
                           /\ [cmd[s] EXCEPT !.pc = to].pc = to
                           /\ [cmd[s] EXCEPT !.pc = to].port = cmd[s].port
                           /\ [cmd[s] EXCEPT !.pc = to].disp = cmd[s].disp
    BY <1>4 DEF Cmd
  <1>6. QED
    BY <1>1, <1>2, <1>3, <1>5

\* A step that leaves the accounts alone and is followed by one its command may take.
LEMMA Keeps ==
  ASSUME AccountInv, NEW s \in Sessions, NEW to \in Labels, Active(s), Goto(s, to),
         UNCHANGED accounts,
         to \in UserSteps => cmd[s].op = "user",
         to \in First => cmd[s].op # "down",
         to \in {"login", "truncate", "configure"} => cmd[s].op = "ssh",
         to \in {"groups", "network", "record"} => Exists(cmd[s].inst, cmd[s].name),
         to \in {"network", "record"} => cmd[s].name \in inet[cmd[s].inst]
  PROVE  AccountInv'
  <1>1. /\ cmd' \in [Sessions -> Cmd]
        /\ \A t \in Sessions : t # s => cmd'[t] = cmd[t]
        /\ cmd'[s].pc = to
        /\ to \notin Ended => /\ cmd'[s].op = cmd[s].op
                              /\ cmd'[s].inst = cmd[s].inst
                              /\ cmd'[s].name = cmd[s].name
    BY GoesOn DEF AccountInv, Typed
  <1>2. Typed'
    BY <1>1 DEF AccountInv, Typed, accounts
  <1>3. ASSUME NEW t \in Sessions PROVE Arguments(t)' /\ Established(t)'
    <2>1. CASE t # s
      BY <2>1, <1>1 DEF AccountInv, Arguments, Established, Active, Exists, accounts
    <2>2. CASE t = s /\ to \in Ended
      BY <2>2, <1>1 DEF Arguments, Established, Active, Ended, UserSteps, First, Labels
    <2>3. CASE t = s /\ to \notin Ended
      BY <2>3, <1>1 DEF AccountInv, Arguments, Established, Active, Exists, accounts
    <2>4. QED
      BY <2>1, <2>2, <2>3
  <1>4. AddedDefault' /\ DefaultUsable'
    BY DEF AccountInv, AddedDefault, DefaultUsable, Exists, accounts
  <1>5. QED
    BY <1>2, <1>3, <1>4 DEF AccountInv

-----------------------------------------------------------------------------
(* Everything but user-add.sh.                                             *)

\* Where up leads to.
LEMMA BodySteps ==
  ASSUME NEW o \in AllOps, o # "down"
  PROVE  /\ Body(o) \in Labels
         /\ Body(o) \in UserSteps => o = "user" /\ Body(o) = "account"
         /\ Body(o) \notin First
         /\ Body(o) \in {"login", "truncate", "configure"} => o = "ssh"
         /\ Body(o) \notin {"groups", "network", "record"}
  <1>1. o \in {"up", "gui", "user", "ssh", "web", "stop"}
    BY DEF AllOps
  <1>2. CASE o \in {"up", "gui", "web", "stop"}
    <2>1. Body(o) \in {"ok", "prepare", "kill proxies"}
      BY <1>2 DEF Body
    <2>2. QED
      BY <2>1 DEF UserSteps, First, Labels
  <1>3. CASE o = "user"
    <2>1. Body(o) = "account"
      BY <1>3 DEF Body
    <2>2. QED
      BY <2>1, <1>3 DEF UserSteps, First, Labels
  <1>4. CASE o = "ssh"
    <2>1. Body(o) = "login"
      BY <1>4 DEF Body
    <2>2. QED
      BY <2>1, <1>4 DEF UserSteps, First, Labels
  <1>5. QED
    BY <1>1, <1>2, <1>3, <1>4

LEMMA BeginKeeps ==
  ASSUME AccountInv, ConstantsAssumption, NEW s \in Sessions, Begin(s)
  PROVE  AccountInv'
  <1>1. PICK o \in Ops, i \in Instances :
          \E p \in IF o = "ssh" THEN SshPorts ELSE IF o = "web" THEN WebPorts ELSE {None},
             n \in IF o = "ssh" THEN Logins ELSE IF o = "user" THEN Adds ELSE {None},
             d \in IF o = "web" THEN Displays ELSE {None} :
            cmd' = [cmd EXCEPT ![s] =
                      [op |-> o, inst |-> i, port |-> p, name |-> n, disp |-> d,
                       pc |-> IF o = "down" THEN "down"
                              ELSE IF o # "up" /\ i \in up THEN Body(o) ELSE "mount"]]
    BY DEF Begin
  <1>2. PICK p \in IF o = "ssh" THEN SshPorts ELSE IF o = "web" THEN WebPorts ELSE {None},
             n \in IF o = "ssh" THEN Logins ELSE IF o = "user" THEN Adds ELSE {None},
             d \in IF o = "web" THEN Displays ELSE {None} :
            cmd' = [cmd EXCEPT ![s] =
                      [op |-> o, inst |-> i, port |-> p, name |-> n, disp |-> d,
                       pc |-> IF o = "down" THEN "down"
                              ELSE IF o # "up" /\ i \in up THEN Body(o) ELSE "mount"]]
    BY <1>1
  <1> DEFINE l == IF o = "down" THEN "down"
                  ELSE IF o # "up" /\ i \in up THEN Body(o) ELSE "mount"
             new == [op |-> o, inst |-> i, port |-> p, name |-> n, disp |-> d, pc |-> l]
  <1>3. o \in AllOps /\ n \in Names \cup {None} /\ (o = "user" => n \in Adds)
        /\ p \in SshPorts \cup WebPorts \cup {None} /\ d \in Displays \cup {None}
    BY DEF ConstantsAssumption
  <1>4. /\ l \in Labels
        /\ l \in UserSteps => o = "user"
        /\ l \notin {"groups", "network", "record"}
        /\ l \in First => o # "down"
        /\ l \in {"login", "truncate", "configure"} => o = "ssh"
    BY <1>3, BodySteps DEF UserSteps, First, Labels
  <1>5. new \in Cmd
    BY <1>3, <1>4 DEF Cmd
  <1>6. cmd' = [cmd EXCEPT ![s] = new]
    BY <1>2
  <1> HIDE DEF l
  <1>7. UNCHANGED accounts
    BY DEF Begin
  <1>8. Typed'
    BY <1>5, <1>6, <1>7 DEF AccountInv, Typed, accounts
  <1>9. ASSUME NEW t \in Sessions PROVE Arguments(t)' /\ Established(t)'
    <2>1. CASE t # s
      <3>1. cmd'[t] = cmd[t]
        BY <1>6, <2>1 DEF AccountInv, Typed
      <3>2. QED
        BY <3>1, <1>7 DEF AccountInv, Arguments, Established, Active, Exists, accounts
    <2>2. CASE t = s
      <3>1. cmd'[t] = new
        BY <1>6, <2>2 DEF AccountInv, Typed
      <3>2. /\ cmd'[t].pc = l /\ cmd'[t].op = o /\ cmd'[t].inst = i /\ cmd'[t].name = n
        BY <3>1
      <3>3. Arguments(t)'
        BY <3>2, <1>3, <1>4 DEF Arguments, Active
      <3>4. Established(t)'
        BY <3>2, <1>4 DEF Established
      <3>5. QED
        BY <3>3, <3>4
    <2>3. QED
      BY <2>1, <2>2
  <1>10. AddedDefault' /\ DefaultUsable'
    BY <1>7 DEF AccountInv, AddedDefault, DefaultUsable, Exists, accounts
  <1>11. QED
    BY <1>8, <1>9, <1>10 DEF AccountInv

\* The steps of up, down and gui start.
LEMMA BringUpKeeps ==
  ASSUME AccountInv, NEW s \in Sessions,
         Mount(s) \/ Prep(s) \/ RestartSshd(s) \/ Down(s) \/ Prepare(s)
  PROVE  AccountInv'
  <1>1. CASE Mount(s)
    <2>1. cmd[s].pc = "mount" /\ Goto(s, "prep") /\ UNCHANGED accounts
      BY <1>1 DEF Mount, Step
    <2>2. Active(s) /\ cmd[s].op # "down"
      BY <2>1 DEF AccountInv, Arguments, Active, Ended, First
    <2>3. QED
      BY <2>1, <2>2, Keeps DEF UserSteps, First, Labels
  <1>2. CASE Prep(s)
    <2>1. cmd[s].pc = "prep" /\ Goto(s, "restart sshd") /\ UNCHANGED accounts
      BY <1>2 DEF Prep, Step
    <2>2. QED
      BY <2>1, Keeps DEF AccountInv, Arguments, Active, Ended, UserSteps, First, Labels
  <1>3. CASE RestartSshd(s)
    <2>1. cmd[s].pc = "restart sshd" /\ Goto(s, Body(cmd[s].op)) /\ UNCHANGED accounts
      BY <1>3 DEF RestartSshd, Step
    <2>2. Active(s) /\ cmd[s].op \in AllOps /\ cmd[s].op # "down"
      BY <2>1 DEF AccountInv, Arguments, Active, Ended, First
    <2>3. QED
      BY <2>1, <2>2, BodySteps, Keeps
  <1>4. CASE Down(s)
    <2>1. cmd[s].pc = "down" /\ Goto(s, "ok") /\ UNCHANGED accounts
      BY <1>4 DEF Down, Step
    <2>2. QED
      BY <2>1, Keeps DEF Active, Ended, UserSteps, First, Labels
  <1>5. CASE Prepare(s)
    <2>1. cmd[s].pc = "prepare" /\ Goto(s, "ok") /\ UNCHANGED accounts
      BY <1>5 DEF Prepare, Step
    <2>2. QED
      BY <2>1, Keeps DEF Active, Ended, UserSteps, First, Labels
  <1>6. QED
    BY <1>1, <1>2, <1>3, <1>4, <1>5

\* The steps of ssh enable; the name a login is given, or the default, replaces
\* none that user add works on.
LEMMA SshKeeps ==
  ASSUME AccountInv, ConstantsAssumption, NEW s \in Sessions,
         Login(s) \/ Truncate(s) \/ Configure(s) \/ Mark(s) \/ Validate(s) \/ Look(s)
           \/ LaunchSshd(s) \/ Confirm(s) \/ Forward(s)
  PROVE  AccountInv'
  <1>1. CASE Login(s)
    <2>1. /\ cmd[s].pc = "login" /\ Active(s) /\ cmd[s].op = "ssh"
          /\ UNCHANGED accounts
      BY <1>1 DEF Login, AccountInv, Arguments, Active, Ended
    <2>2. CASE Goto(s, "failed")
      BY <2>1, <2>2, Keeps DEF UserSteps, First, Labels
    <2>3. ASSUME NEW n \in Names, cmd' = [cmd EXCEPT ![s].pc = "truncate", ![s].name = n]
          PROVE  AccountInv'
      <3>1. cmd[s] \in Cmd
        BY DEF AccountInv, Typed
      <3> DEFINE new == [cmd[s] EXCEPT !.pc = "truncate", !.name = n]
      <3>2. /\ new \in Cmd /\ new.pc = "truncate"
            /\ new.op = cmd[s].op /\ new.inst = cmd[s].inst
        BY <3>1 DEF Cmd, Labels
      <3>3. cmd' = [cmd EXCEPT ![s] = new]
        BY <2>3
      <3> HIDE DEF new
      <3>4. Typed'
        BY <3>2, <3>3, <2>1 DEF AccountInv, Typed, accounts
      <3>5. ASSUME NEW t \in Sessions PROVE Arguments(t)' /\ Established(t)'
        <4>1. CASE t # s
          <5>1. cmd'[t] = cmd[t]
            BY <3>3, <4>1 DEF AccountInv, Typed
          <5>2. QED
            BY <5>1, <2>1 DEF AccountInv, Arguments, Established, Active, Exists, accounts
        <4>2. CASE t = s
          <5>1. cmd'[t] = new
            BY <3>3, <4>2 DEF AccountInv, Typed
          <5>2. cmd[s].inst \in Instances
            BY <2>1 DEF AccountInv, Arguments
          <5>3. Arguments(t)'
            BY <5>1, <5>2, <3>2, <2>1 DEF Arguments, Active, UserSteps, First, AllOps
          <5>4. Established(t)'
            BY <5>1, <3>2 DEF Established
          <5>5. QED
            BY <5>3, <5>4
        <4>3. QED
          BY <4>1, <4>2
      <3>6. AddedDefault' /\ DefaultUsable'
        BY <2>1 DEF AccountInv, AddedDefault, DefaultUsable, Exists, accounts
      <3>7. QED
        BY <3>4, <3>5, <3>6 DEF AccountInv
    <2>4. cmd[s].inst \in Instances /\ cmd[s].name \in Names \cup {None}
          /\ default[cmd[s].inst] \in Names \cup {None}
      BY <2>1 DEF AccountInv, Arguments, Typed, Cmd
    <2>5. QED
      BY <1>1, <2>2, <2>3, <2>4 DEF Login
  <1>2. CASE Configure(s)
    <2>1. PICK to \in {"mark", "failed"} : cmd[s].pc = "configure" /\ Goto(s, to) /\ UNCHANGED accounts
      BY <1>2 DEF Configure, Step
    <2>2. QED
      BY <2>1, Keeps DEF Active, Ended, UserSteps, First, Labels
  <1>3. CASE Mark(s)
    <2>1. cmd[s].pc = "mark" /\ Goto(s, "validate") /\ UNCHANGED accounts
      BY <1>3 DEF Mark, Step
    <2>2. QED
      BY <2>1, Keeps DEF Active, Ended, UserSteps, First, Labels
  <1>9. CASE Truncate(s)
    <2>1. cmd[s].pc = "truncate" /\ Goto(s, "configure") /\ UNCHANGED accounts
      BY <1>9 DEF Truncate, Step
    <2>2. QED
      BY <2>1, Keeps DEF AccountInv, Arguments, Active, Ended, UserSteps, First, Labels
  <1>10. CASE Validate(s)
    <2>1. PICK to \in {"failed", "look"} : cmd[s].pc = "validate" /\ Goto(s, to) /\ UNCHANGED accounts
      BY <1>10 DEF Validate, Step
    <2>2. QED
      BY <2>1, Keeps DEF Active, Ended, UserSteps, First, Labels
  <1>4. CASE Look(s)
    <2>1. PICK to \in {"forward", "launch"} : cmd[s].pc = "look" /\ Goto(s, to) /\ UNCHANGED accounts
      BY <1>4 DEF Look, Step
    <2>2. QED
      BY <2>1, Keeps DEF Active, Ended, UserSteps, First, Labels
  <1>5. CASE LaunchSshd(s)
    <2>1. cmd[s].pc = "launch" /\ Goto(s, "confirm") /\ UNCHANGED accounts
      BY <1>5 DEF LaunchSshd, Step
    <2>2. QED
      BY <2>1, Keeps DEF Active, Ended, UserSteps, First, Labels
  <1>6. CASE Confirm(s)
    <2>1. PICK to \in {"forward", "failed"} : cmd[s].pc = "confirm" /\ Goto(s, to) /\ UNCHANGED accounts
      BY <1>6 DEF Confirm, Step
    <2>2. QED
      BY <2>1, Keeps DEF Active, Ended, UserSteps, First, Labels
  <1>7. CASE Forward(s)
    <2>1. cmd[s].pc = "forward" /\ Goto(s, "ok") /\ UNCHANGED accounts
      BY <1>7 DEF Forward, Step
    <2>2. QED
      BY <2>1, Keeps DEF Active, Ended, UserSteps, First, Labels
  <1>8. QED
    BY <1>1, <1>2, <1>3, <1>4, <1>5, <1>6, <1>7, <1>9, <1>10

\* The steps of gui web and gui stop.
LEMMA WebKeeps ==
  ASSUME AccountInv, NEW s \in Sessions, KillProxies(s) \/ Serve(s) \/ Curl(s) \/ Unforward(s)
  PROVE  AccountInv'
  <1>1. CASE KillProxies(s)
    <2>1. PICK to \in {"serve", "unforward"} :
            cmd[s].pc = "kill proxies" /\ Goto(s, to) /\ UNCHANGED accounts
      BY <1>1 DEF KillProxies, Step
    <2>2. QED
      BY <2>1, Keeps DEF Active, Ended, UserSteps, First, Labels
  <1>2. CASE Serve(s)
    <2>1. cmd[s].pc = "serve" /\ Goto(s, "curl") /\ UNCHANGED accounts
      BY <1>2 DEF Serve, Step
    <2>2. QED
      BY <2>1, Keeps DEF Active, Ended, UserSteps, First, Labels
  <1>3. CASE Curl(s)
    <2>1. PICK to \in {"forward", "failed"} : cmd[s].pc = "curl" /\ Goto(s, to) /\ UNCHANGED accounts
      BY <1>3 DEF Curl, Step
    <2>2. QED
      BY <2>1, Keeps DEF Active, Ended, UserSteps, First, Labels
  <1>4. CASE Unforward(s)
    <2>1. cmd[s].pc = "unforward" /\ Goto(s, "ok") /\ UNCHANGED accounts
      BY <1>4 DEF Unforward, Step
    <2>2. QED
      BY <2>1, Keeps DEF Active, Ended, UserSteps, First, Labels
  <1>5. QED
    BY <1>1, <1>2, <1>3, <1>4

\* A cut ends one command, a crash none, a reboot all.
LEMMA FaultsKeep ==
  ASSUME AccountInv, Bind \/ Crash \/ Reboot \/ (\E s \in Sessions : Cut(s))
  PROVE  AccountInv'
  <1>1. CASE \E s \in Sessions : Cut(s)
    <2>1. PICK s \in Sessions : Active(s) /\ Goto(s, "failed") /\ UNCHANGED accounts
      BY <1>1 DEF Cut
    <2>2. QED
      BY <2>1, Keeps DEF UserSteps, First, Labels
  <1>2. CASE Bind \/ Crash
    BY <1>2 DEF Bind, Crash, accounts, AccountInv, Typed, Arguments, Established, Active, Exists,
                AddedDefault, DefaultUsable
  <1>3. CASE Reboot
    <2>1. Nothing("failed") \in Cmd /\ Nothing("failed").pc = "failed"
      BY DEF Nothing, Cmd, Labels
    <2>2. cmd' \in [Sessions -> Cmd] /\ \A t \in Sessions : cmd'[t].pc \in Ended
      BY <1>3, <2>1 DEF Reboot, AccountInv, Typed, Active, Ended
    <2>3. UNCHANGED accounts
      BY <1>3 DEF Reboot
    <2>4. \A t \in Sessions : Arguments(t)' /\ Established(t)'
      BY <2>2 DEF Arguments, Established, Active, Ended, UserSteps, First
    <2>5. QED
      BY <2>2, <2>3, <2>4 DEF AccountInv, Typed, AddedDefault, DefaultUsable, Exists, accounts
  <1>4. QED
    BY <1>1, <1>2, <1>3

-----------------------------------------------------------------------------
(* user-add.sh                                                             *)

\* A step that takes no account that was added away, and no network group of one,
\* and makes only such an account the default.
LEMMA Grows ==
  ASSUME AccountInv, NEW s \in Sessions, NEW to \in Labels, Active(s), Goto(s, to),
         uid' \in [Instances -> [Names -> Int]],
         inet' \in [Instances -> SUBSET Names],
         default' \in [Instances -> Names \cup {None}],
         \A i \in Instances, n \in Adds :
           /\ uid[i][n] # 0 => uid'[i][n] # 0
           /\ n \in inet[i] => n \in inet'[i],
         \A i \in Instances : default'[i] # default[i] =>
           default'[i] \in Adds /\ uid'[i][default'[i]] # 0 /\ default'[i] \in inet'[i],
         cmd[s].op = "user",
         to \notin First \cup {"login", "truncate", "configure"},
         to \in {"groups", "network", "record"} => uid'[cmd[s].inst][cmd[s].name] # 0,
         to \in {"network", "record"} => cmd[s].name \in inet'[cmd[s].inst]
  PROVE  AccountInv'
  <1>1. /\ cmd' \in [Sessions -> Cmd]
        /\ \A t \in Sessions : t # s => cmd'[t] = cmd[t]
        /\ cmd'[s].pc = to
        /\ to \notin Ended => /\ cmd'[s].op = cmd[s].op
                              /\ cmd'[s].inst = cmd[s].inst
                              /\ cmd'[s].name = cmd[s].name
    BY GoesOn DEF AccountInv, Typed
  <1>2. Typed'
    BY <1>1 DEF Typed
  <1>3. ASSUME NEW t \in Sessions PROVE Arguments(t)' /\ Established(t)'
    <2>1. CASE t # s
      <3>1. cmd'[t] = cmd[t]
        BY <1>1, <2>1
      <3>2. Arguments(t)'
        BY <3>1 DEF AccountInv, Arguments, Active
      <3>3. ASSUME cmd[t].pc \in {"groups", "network", "record"}
            PROVE  cmd[t].inst \in Instances /\ cmd[t].name \in Adds
        BY <3>3 DEF AccountInv, Arguments, Active, Ended, UserSteps
      <3>4. Established(t)'
        BY <3>1, <3>3 DEF AccountInv, Established, Exists
      <3>5. QED
        BY <3>2, <3>4
    <2>2. CASE t = s /\ to \in Ended
      BY <2>2, <1>1 DEF Arguments, Established, Active, Ended, UserSteps, First
    <2>3. CASE t = s /\ to \notin Ended
      <3>1. Arguments(t)'
        BY <2>3, <1>1 DEF AccountInv, Arguments, Active
      <3>2. Established(t)'
        BY <2>3, <1>1 DEF Established, Exists
      <3>3. QED
        BY <3>1, <3>2
    <2>4. QED
      BY <2>1, <2>2, <2>3
  <1>4. AddedDefault'
    BY DEF AccountInv, AddedDefault
  <1>5. DefaultUsable'
    BY DEF AccountInv, AddedDefault, DefaultUsable, Exists
  <1>6. QED
    BY <1>2, <1>3, <1>4, <1>5 DEF AccountInv

\* Taking the placeholder over renames no account that was added.
LEMMA AccountKeeps ==
  ASSUME AccountInv, ConstantsAssumption, Distinct, NEW s \in Sessions, Account(s)
  PROVE  AccountInv'
  <1> DEFINE i     == cmd[s].inst
             n     == cmd[s].name
             taken == Occupants(i) \cap Placeholders
  <1>1. /\ cmd[s].pc = "account" /\ Active(s) /\ cmd[s].op = "user"
        /\ i \in Instances /\ n \in Adds /\ n \in Names
    BY DEF Account, Step, AccountInv, Arguments, Active, Ended, UserSteps, ConstantsAssumption
  <1>2. Goto(s, "groups") /\ default' = default
    BY DEF Account, Step
  <1>3. taken \subseteq Names /\ Adds \cap taken = {} /\ Adds \subseteq Names
    BY DEF Occupants, Distinct, ConstantsAssumption
  <1>4. "groups" \in Labels /\ "groups" \notin First \cup {"login", "truncate", "configure", "network", "record"}
    BY DEF Labels, First
  <1>5. Typed
    BY DEF AccountInv
  <1>6. CASE Exists(i, n)
    <2>1. uid' = uid /\ inet' = inet
      BY <1>6 DEF Account
    <2>2. QED
      BY <2>1, <1>1, <1>2, <1>4, <1>5, <1>6, Grows DEF Typed, Exists
  <1>7. CASE ~Exists(i, n) /\ taken # {}
    <2>1. /\ uid' = [uid EXCEPT ![i] = [m \in Names |-> IF m \in taken THEN 0
                                          ELSE IF m = n THEN 1000 ELSE @[m]]]
          /\ inet' = [inet EXCEPT ![i] =
                        IF taken \cap @ = {} THEN @ ELSE (@ \ taken) \cup {n}]
      BY <1>7 DEF Account
    <2> HIDE DEF taken, i, n
    <2>2. /\ uid' \in [Instances -> [Names -> Int]]
          /\ inet' \in [Instances -> SUBSET Names]
          /\ default' \in [Instances -> Names \cup {None}]
      BY <2>1, <1>1, <1>2, <1>5 DEF Typed
    <2>3. \A j \in Instances, m \in Adds :
            /\ uid[j][m] # 0 => uid'[j][m] # 0
            /\ m \in inet[j] => m \in inet'[j]
      BY <2>1, <1>1, <1>3, <1>5 DEF Typed
    <2>4. uid'[i][n] # 0
      BY <2>1, <1>1, <1>3, <1>5 DEF Typed
    <2>5. QED
      BY <2>2, <2>3, <2>4, <1>1, <1>2, <1>4, Grows DEF i, n
  <1>8. CASE ~Exists(i, n) /\ taken = {}
    <2>1. PICK u \in IF Occupants(i) = {} THEN {1000} ELSE NextUids(i) : uid' = [uid EXCEPT ![i][n] = u]
      BY <1>8 DEF Account
    <2>2. inet' = inet
      BY <1>8 DEF Account
    <2>3. u \in Int /\ u # 0
      BY <2>1 DEF NextUids, ConstantsAssumption
    <2> HIDE DEF taken, i, n
    <2>4. uid' \in [Instances -> [Names -> Int]] /\ uid'[i][n] # 0
      BY <2>1, <2>3, <1>1, <1>5 DEF Typed
    <2>5. \A j \in Instances, m \in Adds : uid[j][m] # 0 => uid'[j][m] # 0
      BY <2>1, <2>3, <1>1, <1>3, <1>5 DEF Typed
    <2>6. QED
      BY <2>2, <2>4, <2>5, <1>1, <1>2, <1>4, <1>5, Grows DEF i, n, Typed
  <1>9. QED
    BY <1>6, <1>7, <1>8

\* The groups come before the default, and are kept.
LEMMA RestKeeps ==
  ASSUME AccountInv, ConstantsAssumption, NEW s \in Sessions, Groups(s) \/ Network(s) \/ Record(s)
  PROVE  AccountInv'
  <1> DEFINE i == cmd[s].inst
             n == cmd[s].name
  <1>1. /\ cmd[s].pc \in {"groups", "network", "record"} /\ Active(s) /\ cmd[s].op = "user"
        /\ i \in Instances /\ n \in Adds /\ n \in Names
    BY DEF Groups, Network, Record, Step, AccountInv, Arguments, Active, Ended, UserSteps,
           ConstantsAssumption
  <1>2. Typed
    BY DEF AccountInv
  <1>3. Adds \subseteq Names
    BY DEF ConstantsAssumption
  <1>4. uid[i][n] # 0 /\ (cmd[s].pc \in {"network", "record"} => n \in inet[i])
    BY <1>1 DEF AccountInv, Established, Exists
  <1>5. CASE Groups(s)
    <2>1. /\ Goto(s, "network") /\ inet' = [inet EXCEPT ![i] = @ \cup {n}]
          /\ uid' = uid /\ default' = default
      BY <1>5 DEF Groups, Step
    <2>2. /\ inet' \in [Instances -> SUBSET Names] /\ n \in inet'[i]
          /\ \A j \in Instances, m \in Adds : m \in inet[j] => m \in inet'[j]
      <3> HIDE DEF i, n
      <3>1. QED
        BY <2>1, <1>1, <1>2 DEF Typed
    <2>3. "network" \in Labels /\ "network" \notin First \cup {"login", "truncate", "configure"}
      BY DEF Labels, First
    <2>4. QED
      BY <2>1, <2>2, <2>3, <1>1, <1>2, <1>4, Grows DEF Typed
  <1>6. CASE Network(s)
    <2>1. PICK to \in {"record", "failed"} : cmd[s].pc = "network" /\ Goto(s, to) /\ UNCHANGED accounts
      BY <1>6 DEF Network, Step
    <2>2. QED
      BY <2>1, <1>1, <1>4, Keeps DEF Labels, First, Exists
  <1>7. CASE Record(s)
    <2>1. /\ cmd[s].pc = "record" /\ Goto(s, "ok") /\ default' = [default EXCEPT ![i] = n]
          /\ uid' = uid /\ inet' = inet
      BY <1>7 DEF Record, Step
    <2>2. /\ default' \in [Instances -> Names \cup {None}]
          /\ \A j \in Instances : default'[j] # default[j] =>
               default'[j] \in Adds /\ uid'[j][default'[j]] # 0 /\ default'[j] \in inet'[j]
      <3>1. n \in inet[i] /\ uid[i][n] # 0
        BY <2>1, <1>4
      <3> HIDE DEF i, n
      <3>2. QED
        BY <2>1, <3>1, <1>1, <1>2 DEF Typed
    <2>3. "ok" \in Labels
          /\ "ok" \notin First \cup {"login", "truncate", "configure", "groups", "network", "record"}
      BY DEF Labels, First
    <2>4. QED
      BY <2>1, <2>2, <2>3, <1>1, <1>2, Grows DEF Typed
  <1>8. QED
    BY <1>5, <1>6, <1>7

-----------------------------------------------------------------------------
LEMMA AccountInit == ConstantsAssumption /\ Init => AccountInv
  <1> SUFFICES ASSUME ConstantsAssumption, Init PROVE AccountInv
    OBVIOUS
  <1>1. Nothing("ok") \in Cmd /\ Nothing("ok").pc = "ok"
    BY DEF Nothing, Cmd, Labels
  <1>2. Typed
    BY <1>1 DEF Init, Typed
  <1>3. \A s \in Sessions : Arguments(s) /\ Established(s)
    BY <1>1 DEF Init, Arguments, Established, Active, Ended, UserSteps, First
  <1>4. AddedDefault /\ DefaultUsable
    BY DEF Init, AddedDefault, DefaultUsable
  <1>5. QED
    BY <1>2, <1>3, <1>4 DEF AccountInv

LEMMA AccountNext ==
  ASSUME ConstantsAssumption, Distinct, AccountInv, [Next]_vars
  PROVE  AccountInv'
  <1>1. CASE UNCHANGED vars
    BY <1>1 DEF vars, accounts, AccountInv, Typed, Arguments, Established, Active, Exists,
                AddedDefault, DefaultUsable
  <1>2. CASE Bind \/ Crash \/ Reboot \/ \E s \in Sessions : Cut(s)
    BY <1>2, FaultsKeep
  <1>3. CASE \E s \in Sessions : Begin(s) \/ Command(s)
    BY <1>3, BeginKeeps, BringUpKeeps, AccountKeeps, RestKeeps, SshKeeps, WebKeeps DEF Command
  <1>4. QED
    BY <1>1, <1>2, <1>3 DEF Next

\* The account sessions default to exists and has Android's network groups, for
\* every set of instances and names and any number of commands, provided no name
\* given to `user add` is one the script takes for a placeholder (users.py:49-57,
\* user-add.sh:66-101).
THEOREM AccountsUsable == Distinct => (Spec => []DefaultUsable)
  <1> SUFFICES ASSUME Distinct PROVE Spec => []DefaultUsable
    OBVIOUS
  <1>1. Init => AccountInv
    BY AccountInit, ConstantsAssumption
  <1>2. AccountInv /\ [Next]_vars => AccountInv'
    BY AccountNext, ConstantsAssumption
  <1>3. AccountInv => DefaultUsable
    BY DEF AccountInv
  <1>4. QED
    BY <1>1, <1>2, <1>3, PTL DEF Spec

-----------------------------------------------------------------------------
(* The control of a command.                                               *)

\* Where a command of op goes on from a step.
Follows(op, from, to) ==
  \/ from = "mount"        /\ to = "prep"
  \/ from = "prep"         /\ to = "restart sshd"
  \/ from = "restart sshd" /\ to = Body(op)
  \/ from \in {"down", "prepare", "record", "forward", "unforward"} /\ to = "ok"
  \/ from = "account"      /\ to = "groups"
  \/ from = "groups"       /\ to = "network"
  \/ from = "network"      /\ to \in {"record", "failed"}
  \/ from = "login"        /\ to \in {"truncate", "failed"}
  \/ from = "truncate"     /\ to = "configure"
  \/ from = "configure"    /\ to \in {"mark", "failed"}
  \/ from = "mark"         /\ to = "validate"
  \/ from = "validate"     /\ to \in {"look", "failed"}
  \/ from = "look"         /\ to \in {"forward", "launch"}
  \/ from = "launch"       /\ to = "confirm"
  \/ from = "confirm"      /\ to \in {"forward", "failed"}
  \/ from = "kill proxies" /\ to = (IF op = "web" THEN "serve" ELSE "unforward")
  \/ from = "serve"        /\ to = "curl"
  \/ from = "curl"         /\ to \in {"forward", "failed"}

\* Which commands take which steps, and with which arguments.
Role(s) ==
  LET pc == cmd[s].pc
      op == cmd[s].op IN
  Active(s) =>
    /\ op \in AllOps /\ cmd[s].inst \in Instances
    /\ op = "user" => cmd[s].name \in Adds
    /\ op = "ssh" => cmd[s].port \in SshPorts
    /\ op = "web" => cmd[s].port \in WebPorts /\ cmd[s].disp \in Displays
    /\ pc \in First => op # "down"
    /\ pc = "down" => op = "down"
    /\ pc = "prepare" => op = "gui"
    /\ pc \in UserSteps => op = "user"
    /\ pc \in {"login", "truncate", "configure", "mark", "validate", "look", "launch", "confirm"} =>
         op = "ssh"
    /\ pc \in {"truncate", "configure"} => cmd[s].name \in Names
    /\ pc = "kill proxies" => op \in {"web", "stop"}
    /\ pc \in {"serve", "curl"} => op = "web"
    /\ pc = "forward" => op \in {"ssh", "web"}
    /\ pc = "unforward" => op = "stop"

ControlInv == Typed /\ \A s \in Sessions : Role(s)

\* Arguments are kept until the end; only login chooses a name.
Same(s) ==
  cmd'[s].pc \notin Ended =>
    /\ cmd'[s].op = cmd[s].op /\ cmd'[s].inst = cmd[s].inst
    /\ cmd'[s].port = cmd[s].port /\ cmd'[s].disp = cmd[s].disp
    /\ cmd[s].pc # "login" => cmd'[s].name = cmd[s].name

Others(s) == \A t \in Sessions : t # s => cmd'[t] = cmd[t]

\* The name that login comes to.
LEMMA LoginName ==
  ASSUME ControlInv, NEW s \in Sessions, Login(s)
  PROVE  /\ cmd' \in [Sessions -> Cmd] /\ Others(s) /\ Active(s) /\ Same(s)
         /\ cmd[s].pc = "login" /\ cmd'[s].pc \in {"truncate", "failed"}
         /\ cmd'[s].pc = "truncate" =>
              /\ cmd'[s].name \in Names
              /\ cmd'[s].name \in {cmd[s].name, default[cmd[s].inst]}
  <1>1. cmd[s].pc = "login" /\ Active(s) /\ cmd[s] \in Cmd /\ cmd[s].inst \in Instances
    BY DEF Login, ControlInv, Typed, Role, Active, Ended
  <1>2. CASE Goto(s, "failed")
    BY <1>1, <1>2, GoesOn DEF ControlInv, Typed, Labels, Ended, Others, Same
  <1>3. ASSUME NEW n \in Names, n \in {cmd[s].name, default[cmd[s].inst]},
               cmd' = [cmd EXCEPT ![s].pc = "truncate", ![s].name = n]
        PROVE  /\ cmd' \in [Sessions -> Cmd] /\ Others(s) /\ Same(s)
               /\ cmd'[s].pc = "truncate" /\ cmd'[s].name = n
    <2> DEFINE new == [cmd[s] EXCEPT !.pc = "truncate", !.name = n]
    <2>1. /\ new \in Cmd /\ new.pc = "truncate" /\ new.name = n
          /\ new.op = cmd[s].op /\ new.inst = cmd[s].inst
          /\ new.port = cmd[s].port /\ new.disp = cmd[s].disp
      BY <1>1 DEF Cmd, Labels
    <2>2. cmd' = [cmd EXCEPT ![s] = new]
      BY <1>3
    <2> HIDE DEF new
    <2>3. QED
      BY <1>1, <2>1, <2>2 DEF ControlInv, Typed, Others, Same
  <1>4. /\ cmd[s].name \in Names \cup {None}
        /\ default[cmd[s].inst] \in Names \cup {None}
    BY <1>1 DEF ControlInv, Typed, Cmd
  <1>5. \/ Goto(s, "failed")
        \/ \E n \in Names : /\ n \in {cmd[s].name, default[cmd[s].inst]}
                            /\ cmd' = [cmd EXCEPT ![s].pc = "truncate", ![s].name = n]
    BY <1>4 DEF Login
  <1>6. CASE \E n \in Names : /\ n \in {cmd[s].name, default[cmd[s].inst]}
                              /\ cmd' = [cmd EXCEPT ![s].pc = "truncate", ![s].name = n]
    BY <1>1, <1>3, <1>6
  <1>7. Goto(s, "failed") => cmd'[s].pc = "failed"
    BY GoesOn DEF ControlInv, Typed, Labels
  <1>8. QED
    BY <1>1, <1>2, <1>5, <1>6, <1>7

LEMMA Paths ==
  ASSUME ControlInv, NEW s \in Sessions, Command(s)
  PROVE  /\ cmd' \in [Sessions -> Cmd]
         /\ Active(s) /\ Others(s) /\ Same(s)
         /\ Follows(cmd[s].op, cmd[s].pc, cmd'[s].pc)
  <1>1. CASE Login(s)
    <2>1. /\ cmd' \in [Sessions -> Cmd] /\ Active(s) /\ Others(s) /\ Same(s)
          /\ cmd[s].pc = "login" /\ cmd'[s].pc \in {"truncate", "failed"}
      BY <1>1, LoginName
    <2>2. QED
      BY <2>1 DEF Follows
  <1>2. CASE RestartSshd(s)
    <2>1. cmd[s].pc = "restart sshd" /\ Goto(s, Body(cmd[s].op))
      BY <1>2 DEF RestartSshd, Step
    <2>2. Active(s) /\ cmd[s].op \in AllOps /\ cmd[s].op # "down"
      BY <2>1 DEF ControlInv, Role, Active, Ended, First
    <2>3. QED
      BY <2>1, <2>2, BodySteps, GoesOn DEF ControlInv, Typed, Others, Same, Follows
  <1>3. CASE ~Login(s) /\ ~RestartSshd(s)
    <2>1. PICK to \in Labels : /\ Goto(s, to) /\ cmd[s].pc \notin Ended
                               /\ Follows(cmd[s].op, cmd[s].pc, to)
      <3>1. CASE Mount(s) \/ Prep(s) \/ Down(s) \/ Prepare(s)
        BY <3>1 DEF Mount, Prep, Down, Prepare, Step, Labels, Ended, Follows
      <3>2. CASE Account(s) \/ Groups(s) \/ Network(s) \/ Record(s)
        BY <3>2 DEF Account, Groups, Network, Record, Step, Labels, Ended, Follows
      <3>3. CASE \/ Truncate(s) \/ Configure(s) \/ Mark(s) \/ Validate(s)
                 \/ Look(s) \/ LaunchSshd(s) \/ Confirm(s) \/ Forward(s)
        BY <3>3 DEF Truncate, Configure, Mark, Validate, Look, LaunchSshd, Confirm, Forward, Step, Labels, Ended, Follows
      <3>4. CASE KillProxies(s) \/ Serve(s) \/ Curl(s) \/ Unforward(s)
        BY <3>4 DEF KillProxies, Serve, Curl, Unforward, Step, Labels, Ended, Follows
      <3>5. QED
        BY <1>3, <3>1, <3>2, <3>3, <3>4 DEF Command
    <2>2. QED
      BY <2>1, GoesOn DEF ControlInv, Typed, Others, Same, Active
  <1>4. QED
    BY <1>1, <1>2, <1>3

\* The record a command begins with.
LEMMA Begins ==
  ASSUME ControlInv, ConstantsAssumption, NEW s \in Sessions, Begin(s)
  PROVE  /\ cmd' \in [Sessions -> Cmd] /\ Others(s) /\ ~Active(s)
         /\ Serial => \A t \in Sessions : ~Active(t)
         /\ UNCHANGED <<procs, conf, marker, forward, accounts>>
         /\ Role(s)' /\ cmd'[s].op \in AllOps /\ cmd'[s].inst \in Instances
         /\ cmd'[s].op = "ssh" => cmd'[s].name \in Logins
         /\ cmd'[s].pc = IF cmd'[s].op = "down" THEN "down"
                         ELSE IF cmd'[s].op # "up" /\ cmd'[s].inst \in up THEN Body(cmd'[s].op)
                         ELSE "mount"
  <1>1. PICK o \in Ops, i \in Instances :
          \E p \in IF o = "ssh" THEN SshPorts ELSE IF o = "web" THEN WebPorts ELSE {None},
             n \in IF o = "ssh" THEN Logins ELSE IF o = "user" THEN Adds ELSE {None},
             d \in IF o = "web" THEN Displays ELSE {None} :
            cmd' = [cmd EXCEPT ![s] =
                      [op |-> o, inst |-> i, port |-> p, name |-> n, disp |-> d,
                       pc |-> IF o = "down" THEN "down"
                              ELSE IF o # "up" /\ i \in up THEN Body(o) ELSE "mount"]]
    BY DEF Begin
  <1>2. PICK p \in IF o = "ssh" THEN SshPorts ELSE IF o = "web" THEN WebPorts ELSE {None},
             n \in IF o = "ssh" THEN Logins ELSE IF o = "user" THEN Adds ELSE {None},
             d \in IF o = "web" THEN Displays ELSE {None} :
            cmd' = [cmd EXCEPT ![s] =
                      [op |-> o, inst |-> i, port |-> p, name |-> n, disp |-> d,
                       pc |-> IF o = "down" THEN "down"
                              ELSE IF o # "up" /\ i \in up THEN Body(o) ELSE "mount"]]
    BY <1>1
  <1> DEFINE l == IF o = "down" THEN "down"
                  ELSE IF o # "up" /\ i \in up THEN Body(o) ELSE "mount"
             new == [op |-> o, inst |-> i, port |-> p, name |-> n, disp |-> d, pc |-> l]
  <1>3. /\ o \in AllOps /\ n \in Names \cup {None} /\ (o = "user" => n \in Adds)
        /\ (o = "ssh" => n \in Logins /\ p \in SshPorts)
        /\ (o = "web" => p \in WebPorts /\ d \in Displays)
        /\ p \in SshPorts \cup WebPorts \cup {None} /\ d \in Displays \cup {None}
    BY DEF ConstantsAssumption
  <1>4. \/ l = "down" /\ o = "down"
        \/ l = "mount" /\ o # "down"
        \/ l = Body(o) /\ o \notin {"up", "down"}
    OBVIOUS
  <1>5. Body(o) = (IF o = "up" THEN "ok" ELSE IF o = "gui" THEN "prepare" ELSE IF o = "user" THEN "account"
                   ELSE IF o = "ssh" THEN "login" ELSE "kill proxies")
    BY DEF Body
  <1>6. l \in Labels
    BY <1>4, <1>5 DEF Labels
  <1>7. new \in Cmd
    BY <1>3, <1>6 DEF Cmd
  <1>8. cmd' = [cmd EXCEPT ![s] = new]
    BY <1>2
  <1>9. cmd' \in [Sessions -> Cmd] /\ Others(s) /\ cmd'[s] = new
    BY <1>7, <1>8 DEF ControlInv, Typed, Others
  <1>10. /\ cmd'[s].pc = l /\ cmd'[s].op = o /\ cmd'[s].inst = i
         /\ cmd'[s].name = n /\ cmd'[s].port = p /\ cmd'[s].disp = d
    BY <1>9
  <1> HIDE DEF l
  <1>11. Role(s)'
    BY <1>3, <1>4, <1>5, <1>10 DEF Role, AllOps, UserSteps, First
  <1>12. QED
    BY <1>3, <1>9, <1>10, <1>11 DEF Begin, l

\* A step that is no command's ends commands or leaves them alone.
LEMMA Rest ==
  ASSUME cmd \in [Sessions -> Cmd], [Next]_vars
  PROVE  \/ \E s \in Sessions : Begin(s) \/ Command(s)
         \/ /\ cmd' \in [Sessions -> Cmd]
            /\ \A s \in Sessions : cmd'[s] = cmd[s] \/ cmd'[s].pc = "failed"
            /\ UNCHANGED <<conf, marker, accounts>>
            /\ forward' \in {forward, {}}
            /\ \/ UNCHANGED <<up, running, coming, sshd, proxy>>
               \/ Bind /\ UNCHANGED <<up, running, proxy>>
               \/ /\ UNCHANGED <<up, coming>> /\ running' \subseteq running
                  /\ sshd' \subseteq sshd /\ proxy' \subseteq proxy
               \/ /\ up' = {} /\ running' = {} /\ coming' = {} /\ sshd' = {} /\ proxy' = {}
                  /\ \A s \in Sessions : cmd'[s].pc \in Ended
  <1>1. CASE \E s \in Sessions : Cut(s)
    BY <1>1, GoesOn DEF Cut, procs, sshds, Labels
  <1>2. CASE Bind
    BY <1>2 DEF Bind
  <1>6. CASE Crash
    BY <1>6 DEF Crash
  <1>3. CASE Reboot
    <2>1. Nothing("failed") \in Cmd /\ Nothing("failed").pc = "failed"
      BY DEF Nothing, Cmd, Labels
    <2>2. QED
      BY <1>3, <2>1 DEF Reboot, Active, Ended
  <1>4. CASE UNCHANGED vars
    BY <1>4 DEF vars, procs, sshds
  <1>5. QED
    BY <1>1, <1>2, <1>3, <1>4, <1>6 DEF Next

LEMMA RoleStays ==
  ASSUME NEW s \in Sessions, Role(s), cmd'[s] = cmd[s] \/ cmd'[s].pc \in Ended
  PROVE  Role(s)'
  <1>1. CASE cmd'[s] = cmd[s]
    <2>1. PICK r : cmd[s] = r /\ cmd'[s] = r
      BY <1>1
    <2>2. QED
      BY <2>1 DEF Role, Active
  <1>2. CASE cmd'[s].pc \in Ended
    BY <1>2 DEF Role, Active
  <1>3. QED
    BY <1>1, <1>2

LEMMA RoleMoves ==
  ASSUME ControlInv, NEW s \in Sessions, Command(s)
  PROVE  Role(s)'
  <1>1. /\ Active(s) /\ Same(s) /\ Follows(cmd[s].op, cmd[s].pc, cmd'[s].pc)
        /\ Role(s)
    BY Paths DEF ControlInv
  <1>2. CASE cmd'[s].pc \in Ended
    BY <1>1, <1>2, RoleStays
  <1>3. CASE cmd'[s].pc \notin Ended
    <2>1. PICK op, from, to : op = cmd[s].op /\ from = cmd[s].pc /\ to = cmd'[s].pc
      OBVIOUS
    <2>2. /\ cmd'[s].op = op /\ cmd'[s].inst = cmd[s].inst
          /\ cmd'[s].port = cmd[s].port /\ cmd'[s].disp = cmd[s].disp
          /\ from # "login" => cmd'[s].name = cmd[s].name
      BY <1>1, <1>3, <2>1 DEF Same
    <2>3. to \in {"truncate", "configure"} => cmd'[s].name \in Names
      <3>1. /\ to = "truncate" => from = "login"
            /\ to = "configure" => from = "truncate"
        <4>1. Body(op) \notin {"truncate", "configure"}
          BY DEF Body
        <4>2. QED
          BY <1>1, <2>1, <4>1 DEF Follows
      <3>4. from = "truncate" => cmd[s].name \in Names
        BY <1>1, <2>1 DEF Role
      <3>2. from = "login" => Login(s)
        BY <2>1 DEF Command, Mount, Prep, RestartSshd, Down, Prepare, Account, Groups, Network, Record,
           Truncate, Configure, Mark, Validate, Look, LaunchSshd, Confirm, Forward, KillProxies, Serve, Curl, Unforward, Step
      <3>3. QED
        BY <2>1, <2>2, <3>1, <3>2, <3>4, LoginName
    <2>4. CASE from = "restart sshd"
      <3>1. op \in AllOps /\ op # "down" /\ to = Body(op)
        BY <1>1, <2>1, <2>4 DEF Role, First, Follows
      <3>2. to = (IF op = "up" THEN "ok" ELSE IF op = "gui" THEN "prepare" ELSE IF op = "user" THEN "account"
                  ELSE IF op = "ssh" THEN "login" ELSE "kill proxies")
        BY <3>1 DEF Body
      <3>3. QED
        BY <1>1, <2>1, <2>2, <2>4, <3>1, <3>2 DEF Role, AllOps, UserSteps, First
    <2>5. CASE from # "restart sshd" /\ from # "login"
      BY <1>1, <2>1, <2>2, <2>3, <2>5 DEF Role, Follows, UserSteps, First
    <2>6. CASE from = "login"
      BY <1>1, <2>1, <2>2, <2>3, <2>6 DEF Role, Follows, UserSteps, First
    <2>7. QED
      BY <2>4, <2>5, <2>6
  <1>4. QED
    BY <1>2, <1>3

\* No two accounts of an instance share a uid.
UidsOK == \A i \in Instances : \A m, n \in Names : Exists(i, m) /\ uid[i][m] = uid[i][n] => m = n

\* Whoever takes uid 1000 has it for himself, and the next uid is free.
LEMMA AccountTypes ==
  ASSUME ControlInv, ConstantsAssumption, NEW s \in Sessions, Account(s)
  PROVE  /\ uid' \in [Instances -> [Names -> Int]]
         /\ inet' \in [Instances -> SUBSET Names]
         /\ UidsOK => UidsOK'
  <1> DEFINE i     == cmd[s].inst
             n     == cmd[s].name
             taken == Occupants(i) \cap Placeholders
  <1>1. /\ i \in Instances /\ n \in Names /\ Adds \subseteq Names
    BY DEF Account, Step, ControlInv, Role, Active, Ended, UserSteps, ConstantsAssumption
  <1>2. Typed
    BY DEF ControlInv
  <1>3. CASE Exists(i, n)
    <2>1. uid' = uid /\ inet' = inet
      BY <1>3 DEF Account
    <2>2. QED
      BY <1>2, <2>1 DEF Typed, UidsOK, Exists
  <1>4. CASE ~Exists(i, n) /\ taken # {}
    <2>1. /\ uid' = [uid EXCEPT ![i] = [m \in Names |-> IF m \in taken THEN 0
                                          ELSE IF m = n THEN 1000 ELSE @[m]]]
          /\ inet' = [inet EXCEPT ![i] =
                        IF taken \cap @ = {} THEN @ ELSE (@ \ taken) \cup {n}]
      BY <1>4 DEF Account
    <2>2. PICK t : t \in taken /\ t \in Names /\ uid[i][t] = 1000
      BY <1>4 DEF Occupants
    <2>3. UidsOK => \A m \in Names : uid[i][m] = 1000 => m = t
      BY <1>1, <2>2 DEF UidsOK, Exists
    <2> HIDE DEF taken, i, n
    <2>4. /\ uid' \in [Instances -> [Names -> Int]]
          /\ inet' \in [Instances -> SUBSET Names]
      BY <1>1, <1>2, <2>1 DEF Typed
    <2>5. /\ \A j \in Instances : j # i => uid'[j] = uid[j]
          /\ \A m \in Names : uid'[i][m] = IF m \in taken THEN 0 ELSE IF m = n THEN 1000 ELSE uid[i][m]
      BY <1>1, <1>2, <2>1 DEF Typed
    <2>6. UidsOK => UidsOK'
      <3> SUFFICES ASSUME UidsOK, NEW j \in Instances, NEW x \in Names, NEW y \in Names,
                          uid'[j][x] # 0, uid'[j][x] = uid'[j][y]
                   PROVE  x = y
        BY DEF UidsOK, Exists
      <3>1. CASE j # i
        BY <2>5, <3>1 DEF UidsOK, Exists
      <3>2. CASE j = i
        BY <2>2, <2>3, <2>5, <3>2, <1>1 DEF UidsOK, Exists
      <3>3. QED
        BY <3>1, <3>2
    <2>7. QED
      BY <2>4, <2>6
  <1>5. CASE ~Exists(i, n) /\ taken = {}
    <2>1. PICK u \in IF Occupants(i) = {} THEN {1000} ELSE NextUids(i) : uid' = [uid EXCEPT ![i][n] = u]
      BY <1>5 DEF Account
    <2>2. inet' = inet
      BY <1>5 DEF Account
    <2>3. u \in Int /\ u # 0 /\ \A m \in Names : uid[i][m] # u
      <3>1. \A m \in Names : uid[i][m] \in Int
        BY <1>1, <1>2 DEF Typed
      <3>2. QED
        BY <2>1, <3>1 DEF NextUids, Occupants, ConstantsAssumption
    <2> HIDE DEF taken, i, n
    <2>4. uid' \in [Instances -> [Names -> Int]]
      BY <1>1, <1>2, <2>1, <2>3 DEF Typed
    <2>5. /\ \A j \in Instances : j # i => uid'[j] = uid[j]
          /\ \A m \in Names : uid'[i][m] = IF m = n THEN u ELSE uid[i][m]
      BY <1>1, <1>2, <2>1 DEF Typed
    <2>6. UidsOK => UidsOK'
      <3> SUFFICES ASSUME UidsOK, NEW j \in Instances, NEW x \in Names, NEW y \in Names,
                          uid'[j][x] # 0, uid'[j][x] = uid'[j][y]
                   PROVE  x = y
        BY DEF UidsOK, Exists
      <3>1. CASE j # i
        BY <2>5, <3>1 DEF UidsOK, Exists
      <3>2. CASE j = i
        BY <2>3, <2>5, <3>2, <1>1 DEF UidsOK, Exists
      <3>3. QED
        BY <3>1, <3>2
    <2>7. QED
      BY <1>2, <2>2, <2>4, <2>6 DEF Typed
  <1>6. QED
    BY <1>3, <1>4, <1>5

\* Only user add changes the accounts.
LEMMA AccountsMove ==
  ASSUME NEW s \in Sessions, Command(s)
  PROVE  Account(s) \/ Groups(s) \/ Record(s) \/ UNCHANGED accounts
  BY DEF Command, Mount, Prep, RestartSshd, Down, Prepare, Network, Login, Truncate, Configure, Mark, Validate, Look,
     LaunchSshd, Confirm, Forward, KillProxies, Serve, Curl, Unforward

LEMMA AccountsTyped ==
  ASSUME ControlInv, ConstantsAssumption, NEW s \in Sessions, Command(s)
  PROVE  /\ Typed'
         /\ UidsOK => UidsOK'
  <1>1. cmd' \in [Sessions -> Cmd] /\ Active(s) /\ Role(s) /\ Typed
    BY Paths DEF ControlInv
  <1>2. CASE Account(s)
    <2>1. default' = default
      BY <1>2 DEF Account
    <2>2. QED
      BY <1>1, <1>2, <2>1, AccountTypes DEF Typed
  <1>3. CASE Groups(s) \/ Record(s)
    <2>1. cmd[s].inst \in Instances /\ cmd[s].name \in Names
      BY <1>1, <1>3, ConstantsAssumption DEF Groups, Record, Step, Role, UserSteps
    <2>2. /\ uid' = uid
          /\ inet' \in {inet, [inet EXCEPT ![cmd[s].inst] = @ \cup {cmd[s].name}]}
          /\ default' \in {default, [default EXCEPT ![cmd[s].inst] = cmd[s].name]}
      BY <1>3 DEF Groups, Record
    <2>3. QED
      BY <1>1, <2>1, <2>2 DEF Typed, UidsOK, Exists
  <1>4. CASE UNCHANGED accounts
    BY <1>1, <1>4 DEF accounts, Typed, UidsOK, Exists
  <1>5. QED
    BY <1>2, <1>3, <1>4, AccountsMove

LEMMA ControlNext ==
  ASSUME ControlInv, ConstantsAssumption, [Next]_vars
  PROVE  ControlInv' /\ (UidsOK => UidsOK')
  <1>1. Typed /\ \A s \in Sessions : Role(s)
    BY DEF ControlInv
  <1>2. ASSUME NEW s \in Sessions, Begin(s) PROVE ControlInv' /\ (UidsOK => UidsOK')
    <2>1. /\ cmd' \in [Sessions -> Cmd] /\ Others(s) /\ Role(s)' /\ UNCHANGED accounts
      BY <1>2, Begins
    <2>2. \A t \in Sessions : Role(t)'
      BY <1>1, <2>1, RoleStays DEF Others
    <2>3. QED
      BY <1>1, <2>1, <2>2 DEF ControlInv, Typed, accounts, UidsOK, Exists
  <1>3. ASSUME NEW s \in Sessions, Command(s) PROVE ControlInv' /\ (UidsOK => UidsOK')
    <2>1. \A t \in Sessions : Role(t)'
      BY <1>1, <1>3, Paths, RoleMoves, RoleStays DEF Others
    <2>2. QED
      BY <1>3, <2>1, AccountsTyped DEF ControlInv
  <1>4. ASSUME cmd' \in [Sessions -> Cmd], UNCHANGED accounts,
               \A s \in Sessions : cmd'[s] = cmd[s] \/ cmd'[s].pc = "failed"
        PROVE  ControlInv' /\ (UidsOK => UidsOK')
    <2>1. \A s \in Sessions : Role(s)'
      BY <1>1, <1>4, RoleStays DEF Ended
    <2>2. QED
      BY <1>1, <1>4, <2>1 DEF ControlInv, Typed, accounts, UidsOK, Exists
  <1>5. QED
    BY <1>1, <1>2, <1>3, <1>4, Rest DEF Typed

LEMMA ControlInit == ConstantsAssumption /\ Init => ControlInv /\ UidsOK
  <1> SUFFICES ASSUME ConstantsAssumption, Init PROVE ControlInv /\ UidsOK
    OBVIOUS
  <1>1. Typed /\ \A s \in Sessions : cmd[s].pc = "ok"
    BY AccountInit DEF AccountInv, Init, Nothing
  <1>2. \A s \in Sessions : Role(s)
    BY <1>1 DEF Role, Active, Ended
  <1>3. UidsOK
    BY DEF Init, UidsOK, Exists
  <1>4. QED
    BY <1>1, <1>2, <1>3 DEF ControlInv

-----------------------------------------------------------------------------
(* Which steps change what.                                                *)

LEMMA Frames ==
  ASSUME NEW s \in Sessions, Command(s)
  PROVE  /\ Mount(s) \/ Down(s) \/ UNCHANGED up
         /\ Prep(s) \/ Prepare(s) \/ Down(s) \/ UNCHANGED running
         /\ RestartSshd(s) \/ LaunchSshd(s) \/ Down(s) \/ UNCHANGED coming
         /\ Down(s) \/ UNCHANGED sshd
         /\ KillProxies(s) \/ Serve(s) \/ Down(s) \/ UNCHANGED proxy
         /\ Truncate(s) \/ Configure(s) \/ UNCHANGED conf
         /\ Mark(s) \/ UNCHANGED marker
         /\ Forward(s) \/ Unforward(s) \/ UNCHANGED forward
  BY DEF Command, Mount, Prep, RestartSshd, Down, Prepare, Account, Groups, Network, Record, Login,
     Truncate, Configure, Mark, Validate, Look, LaunchSshd, Confirm, Forward, KillProxies, Serve, Curl, Unforward, procs, sshds, Launch

\* The step tells the operation.
LEMMA Which ==
  ASSUME NEW s \in Sessions, Command(s)
  PROVE  /\ Mount(s) <=> cmd[s].pc = "mount"
         /\ Prep(s) <=> cmd[s].pc = "prep"
         /\ RestartSshd(s) <=> cmd[s].pc = "restart sshd"
         /\ Down(s) <=> cmd[s].pc = "down"
         /\ Prepare(s) <=> cmd[s].pc = "prepare"
         /\ Login(s) <=> cmd[s].pc = "login"
         /\ Truncate(s) <=> cmd[s].pc = "truncate"
         /\ Configure(s) <=> cmd[s].pc = "configure"
         /\ LaunchSshd(s) <=> cmd[s].pc = "launch"
         /\ KillProxies(s) <=> cmd[s].pc = "kill proxies"
         /\ Serve(s) <=> cmd[s].pc = "serve"
         /\ Curl(s) <=> cmd[s].pc = "curl"
  BY DEF Command, Mount, Prep, RestartSshd, Down, Prepare, Account, Groups, Network, Record, Login,
     Truncate, Configure, Mark, Validate, Look, LaunchSshd, Confirm, Forward, KillProxies, Serve, Curl, Unforward, Step

-----------------------------------------------------------------------------
(* The configuration of sshd.                                              *)

\* An instance with a marker has a configuration, and so has one on its way there.
Confs ==
  /\ conf \in [Instances -> Conf \cup {None}]
  /\ marker \subseteq Instances /\ \A i \in marker : conf[i] # None
  /\ forward \subseteq SshPorts \cup WebPorts
  /\ \A s \in Sessions : cmd[s].pc \in {"mark", "validate", "look", "launch"} => conf[cmd[s].inst] # None

ConfInv == ControlInv /\ UidsOK /\ Confs

LEMMA StockConf == ConstantsAssumption => Stock \in Conf /\ Stock # None
  BY DEF Stock, Conf, ConstantsAssumption

LEMMA Written ==
  ASSUME ConfInv, ConstantsAssumption, NEW s \in Sessions, Configure(s)
  PROVE  /\ [port |-> cmd[s].port, allow |-> cmd[s].name] \in Conf
         /\ conf' = [conf EXCEPT ![cmd[s].inst] = [port |-> cmd[s].port, allow |-> cmd[s].name]]
         /\ [port |-> cmd[s].port, allow |-> cmd[s].name] # None
         /\ cmd[s].inst \in Instances
  <1>1. cmd[s].port \in SshPorts /\ cmd[s].name \in Names /\ cmd[s].inst \in Instances
    BY DEF Configure, Step, ConfInv, ControlInv, Role, Active, Ended
  <1>2. [port |-> cmd[s].port, allow |-> cmd[s].name] \in Conf
    BY <1>1 DEF Conf
  <1>3. [port |-> cmd[s].port, allow |-> cmd[s].name]
           \in [port : SshPorts \cup {StockPort}, allow : Names \cup {None}]
    BY <1>1
  <1>4. QED
    BY <1>1, <1>2, <1>3 DEF Configure, ConstantsAssumption

LEMMA ConfsKeep ==
  ASSUME ConfInv, ConstantsAssumption, [Next]_vars
  PROVE  Confs'
  <1>1. ControlInv /\ Confs /\ cmd \in [Sessions -> Cmd] /\ \A s \in Sessions : Role(s)
    BY DEF ConfInv, ControlInv, Typed
  <1>2. ASSUME NEW s \in Sessions, Begin(s) PROVE Confs'
    <2>1. /\ Others(s) /\ UNCHANGED <<conf, marker, forward>>
          /\ cmd'[s].pc \notin {"mark", "validate", "look", "launch"}
      BY <1>1, <1>2, Begins DEF Body
    <2>2. QED
      BY <1>1, <2>1 DEF Confs, Others
  <1>3. ASSUME NEW s \in Sessions, Command(s) PROVE Confs'
    <2>1. /\ Active(s) /\ Others(s) /\ Same(s) /\ Follows(cmd[s].op, cmd[s].pc, cmd'[s].pc)
          /\ Role(s)
      BY <1>1, <1>3, Paths
    <2>2. /\ conf' \in [Instances -> Conf \cup {None}]
          /\ \A i \in Instances : conf[i] # None => conf'[i] # None
          /\ Truncate(s) \/ Configure(s) => conf'[cmd[s].inst] # None
      <3>1. CASE Configure(s)
        <4>1. PICK r : /\ r \in Conf /\ r # None /\ cmd[s].inst \in Instances
                       /\ conf' = [conf EXCEPT ![cmd[s].inst] = r]
          BY <3>1, Written
        <4>2. QED
          BY <1>1, <4>1 DEF Confs
      <3>2. CASE Truncate(s)
        BY <1>1, <2>1, <3>2, StockConf DEF Truncate, Step, Confs, Role
      <3>3. CASE ~Truncate(s) /\ ~Configure(s)
        BY <1>1, <1>3, <3>3, Frames DEF Confs
      <3>4. QED
        BY <3>1, <3>2, <3>3
    <2>3. ASSUME NEW t \in Sessions, cmd'[t].pc \in {"mark", "validate", "look", "launch"}
          PROVE  conf'[cmd'[t].inst] # None
      <3>1. CASE t # s
        <4>1. cmd'[t] = cmd[t] /\ cmd[t].inst \in Instances
          BY <1>1, <2>1, <2>3, <3>1 DEF Others, Role, Active, Ended
        <4>2. QED
          BY <1>1, <2>2, <2>3, <4>1 DEF Confs
      <3>2. CASE t = s
        <4>1. cmd[s].pc \in {"configure", "mark", "validate", "look"}
          BY <2>1, <2>3, <3>2 DEF Follows, Body
        <4>2. cmd'[s].inst = cmd[s].inst /\ cmd[s].inst \in Instances
          BY <2>1, <2>3, <3>2 DEF Same, Role, Ended
        <4>3. cmd[s].pc = "configure" => Configure(s)
          BY <1>3, Which
        <4>4. QED
          BY <1>1, <2>2, <3>2, <4>1, <4>2, <4>3 DEF Confs
      <3>3. QED
        BY <3>1, <3>2
    <2>4. marker' \subseteq Instances /\ \A i \in marker' : conf'[i] # None
      <3>1. CASE Mark(s)
        <4>1. marker' = marker \cup {cmd[s].inst} /\ cmd[s].inst \in Instances /\ cmd[s].pc = "mark"
          BY <2>1, <3>1 DEF Mark, Step, Role
        <4>2. QED
          BY <1>1, <2>2, <4>1 DEF Confs
      <3>2. CASE ~Mark(s)
        BY <1>1, <1>3, <2>2, <3>2, Frames DEF Confs
      <3>3. QED
        BY <3>1, <3>2
    <2>5. forward' \subseteq SshPorts \cup WebPorts
      <3>1. CASE Forward(s)
        <4>1. cmd[s].port \in SshPorts \cup WebPorts
          BY <2>1, <3>1 DEF Forward, Step, Role
        <4>2. QED
          BY <1>1, <3>1, <4>1 DEF Forward, Confs
      <3>2. CASE ~Forward(s)
        BY <1>1, <1>3, <3>2, Frames DEF Unforward, Confs
      <3>3. QED
        BY <3>1, <3>2
    <2>6. QED
      BY <2>2, <2>3, <2>4, <2>5 DEF Confs
  <1>4. ASSUME UNCHANGED <<conf, marker>>, forward' \in {forward, {}},
               \A s \in Sessions : cmd'[s] = cmd[s] \/ cmd'[s].pc = "failed"
        PROVE  Confs'
    BY <1>1, <1>4 DEF Confs
  <1>5. QED
    BY <1>1, <1>2, <1>3, <1>4, Rest

LEMMA ConfInit == Init => ConfInv
  <1>1. Init => Confs
    BY DEF Init, Confs, Nothing
  <1>2. QED
    BY <1>1, ControlInit, ConstantsAssumption DEF ConfInv

LEMMA ConfNext == ConfInv /\ [Next]_vars => ConfInv'
  BY ControlNext, ConfsKeep, ConstantsAssumption DEF ConfInv

-----------------------------------------------------------------------------
(* One command at a time: types, daemons, the proxy.                       *)

Sole == \A s, t \in Sessions : Active(s) /\ Active(t) => s = t

\* What a command does it does in a rootfs that it has found or brought up.
Mounted == \A s \in Sessions : Active(s) /\ cmd[s].pc \notin {"mount", "down"} => cmd[s].inst \in up

Places ==
  /\ up \subseteq Instances
  /\ running \subseteq up \X Daemons
  /\ coming \cup sshd \subseteq Sshd /\ \A p \in coming \cup sshd : p.inst \in up
  /\ \A p, q \in sshd : p.port = q.port => p = q
  /\ proxy \subseteq Proxy /\ \A p \in proxy : p.inst \in up
  /\ \A p, q \in proxy : p.port = q.port => p = q

SerialInv == ConfInv /\ Sole /\ Mounted /\ Places

LEMMA SoleKeeps ==
  ASSUME Serial, ControlInv, ConstantsAssumption, Sole, [Next]_vars
  PROVE  Sole'
  <1>1. cmd \in [Sessions -> Cmd]
    BY DEF ControlInv, Typed
  <1>2. ASSUME NEW s \in Sessions, Begin(s) PROVE Sole'
    BY <1>2, Begins DEF Sole, Active, Others
  <1>3. ASSUME NEW s \in Sessions, Command(s) PROVE Sole'
    BY <1>3, Paths DEF Sole, Active, Others
  <1>4. ASSUME \A s \in Sessions : cmd'[s] = cmd[s] \/ cmd'[s].pc = "failed" PROVE Sole'
    BY <1>4 DEF Sole, Active, Ended
  <1>5. QED
    BY <1>1, <1>2, <1>3, <1>4, Rest

LEMMA MountedKeeps ==
  ASSUME Serial, SerialInv, ConstantsAssumption, [Next]_vars
  PROVE  Mounted'
  <1>1. ControlInv /\ cmd \in [Sessions -> Cmd]
    BY DEF SerialInv, ConfInv, ControlInv, Typed
  <1>2. ASSUME NEW s \in Sessions, Begin(s) PROVE Mounted'
    <2>1. /\ Others(s) /\ (\A t \in Sessions : ~Active(t)) /\ up' = up
          /\ cmd'[s].pc = IF cmd'[s].op = "down" THEN "down"
                          ELSE IF cmd'[s].op # "up" /\ cmd'[s].inst \in up THEN Body(cmd'[s].op)
                          ELSE "mount"
      BY <1>1, <1>2, Begins DEF procs
    <2>2. QED
      BY <2>1 DEF Mounted, Active, Others
  <1>3. ASSUME NEW s \in Sessions, Command(s) PROVE Mounted'
    <2>1. /\ Active(s) /\ Others(s) /\ Same(s) /\ Follows(cmd[s].op, cmd[s].pc, cmd'[s].pc)
      BY <1>1, <1>3, Paths
    <2>2. \A t \in Sessions : t # s => ~Active(t)'
      BY <2>1 DEF SerialInv, Sole, Active, Others
    <2>3. ASSUME cmd'[s].pc \notin Ended PROVE cmd'[s].inst \in up'
      <3>1. cmd'[s].inst = cmd[s].inst
        BY <2>1, <2>3 DEF Same
      <3>2. cmd[s].pc # "down"
        BY <2>1, <2>3 DEF Follows, Ended
      <3>3. CASE cmd[s].pc = "mount"
        BY <1>3, <3>1, <3>3, Which DEF Mount
      <3>4. CASE cmd[s].pc # "mount"
        <4>1. up' = up
          BY <1>3, <3>2, <3>4, Frames, Which
        <4>2. QED
          BY <2>1, <3>1, <3>2, <3>4, <4>1 DEF SerialInv, Mounted
      <3>5. QED
        BY <3>3, <3>4
    <2>4. QED
      BY <2>2, <2>3 DEF Mounted, Active
  <1>4. ASSUME \A s \in Sessions : cmd'[s] = cmd[s] \/ cmd'[s].pc = "failed", up' = up
        PROVE  Mounted'
    BY <1>4 DEF SerialInv, Mounted, Active, Ended
  <1>5. ASSUME \A s \in Sessions : cmd'[s].pc \in Ended PROVE Mounted'
    BY <1>5 DEF Mounted, Active
  <1>6. QED
    BY <1>1, <1>2, <1>3, <1>4, <1>5, Rest DEF Bind

\* Who cannot bind his port is not there.
LEMMA BindPlaces ==
  ASSUME Places, Bind
  PROVE  Places'
  <1>1. PICK p \in coming : /\ coming' = coming \ {p}
                            /\ sshd' = IF p.port \in BadPorts \/ \E q \in sshd : q.port = p.port
                                       THEN sshd ELSE sshd \cup {p}
    BY DEF Bind
  <1>2. UNCHANGED <<up, running, proxy>>
    BY DEF Bind
  <1>3. coming' \cup sshd' \subseteq coming \cup sshd
    BY <1>1
  <1>4. \A q, r \in sshd' : q.port = r.port => q = r
    BY <1>1 DEF Places
  <1>5. QED
    BY <1>2, <1>3, <1>4 DEF Places

LEMMA LaunchPlaces ==
  ASSUME Places, Confs, NEW i \in Instances, i \in up, conf[i] # None, Launch(i),
         UNCHANGED <<up, running, proxy>>
  PROVE  Places'
  <1>1. conf[i] \in Conf
    BY DEF Confs
  <1>2. conf[i].port \in SshPorts \cup {StockPort} /\ conf[i].allow \in Names \cup {None}
    BY <1>1 DEF Conf, Stock
  <1>3. PICK r : r = [inst |-> i, port |-> conf[i].port, allow |-> conf[i].allow]
    OBVIOUS
  <1>4. r \in Sshd /\ r.inst = i
    BY <1>2, <1>3 DEF Sshd
  <1>5. coming' = coming \cup {r} /\ sshd' = sshd
    BY <1>3 DEF Launch
  <1>6. QED
    BY <1>4, <1>5 DEF Places

LEMMA PlacesKeep ==
  ASSUME Serial, SerialInv, ConstantsAssumption, [Next]_vars
  PROVE  Places'
  <1>1. ControlInv /\ cmd \in [Sessions -> Cmd] /\ Places /\ Confs
    BY DEF SerialInv, ConfInv, ControlInv, Typed
  <1>2. ASSUME UNCHANGED <<up, running, coming, sshd, proxy>> PROVE Places'
    BY <1>1, <1>2 DEF Places
  <1>3. ASSUME NEW s \in Sessions, Command(s) PROVE Places'
    <2>1. Active(s) /\ Role(s) /\ cmd[s].inst \in Instances
      BY <1>1, <1>3, Paths DEF ControlInv, Role
    <2>2. cmd[s].pc \notin {"mount", "down"} => cmd[s].inst \in up
      BY <2>1 DEF SerialInv, Mounted
    <2>3. CASE Mount(s)
      BY <1>1, <2>1, <2>3 DEF Mount, Places, sshds
    <2>4. CASE Down(s)
      <3>1. PICK i : i = cmd[s].inst
        OBVIOUS
      <3>2. /\ up' = up \ {i}
            /\ running' = {r \in running : r[1] # i}
            /\ coming' = {p \in coming : p.inst # i}
            /\ sshd' = {p \in sshd : p.inst # i}
            /\ proxy' = {p \in proxy : p.inst # i}
        BY <2>4, <3>1 DEF Down
      <3>3. running' \subseteq up' \X Daemons
        BY <1>1, <3>2 DEF Places
      <3>4. QED
        BY <1>1, <3>2, <3>3 DEF Places
    <2>5. CASE Prep(s) \/ Prepare(s)
      <3>1. /\ cmd[s].inst \in up /\ StartDaemons(cmd[s].inst)
            /\ UNCHANGED <<up, coming, sshd, proxy>>
        BY <2>2, <2>5 DEF Prep, Prepare, Step, sshds
      <3>2. running' \subseteq up \X Daemons
        BY <1>1, <3>1 DEF StartDaemons, Places
      <3>3. QED
        BY <1>1, <3>1, <3>2 DEF Places
    <2>6. CASE RestartSshd(s)
      <3>1. CASE cmd[s].inst \in marker
        BY <1>1, <2>1, <2>2, <2>6, <3>1, LaunchPlaces DEF RestartSshd, Step, Confs
      <3>2. CASE cmd[s].inst \notin marker
        BY <1>2, <2>6, <3>2 DEF RestartSshd, sshds
      <3>3. QED
        BY <3>1, <3>2
    <2>7. CASE LaunchSshd(s)
      BY <1>1, <2>1, <2>2, <2>7, LaunchPlaces DEF LaunchSshd, Step, Confs
    <2>8. CASE KillProxies(s)
      BY <1>1, <2>8 DEF KillProxies, Places, sshds
    <2>9. CASE Serve(s)
      <3>1. cmd[s].port \in WebPorts /\ cmd[s].disp \in Displays /\ cmd[s].inst \in up
        BY <2>1, <2>2, <2>9 DEF Serve, Step, Role
      <3>2. PICK r : r = [inst |-> cmd[s].inst, port |-> cmd[s].port, to |-> cmd[s].disp]
        OBVIOUS
      <3>3. r \in Proxy /\ r.inst \in up /\ r.port = cmd[s].port
        BY <2>1, <3>1, <3>2 DEF Proxy
      <3>4. /\ UNCHANGED <<up, running, coming, sshd>>
            /\ \/ proxy' = proxy
               \/ proxy' = proxy \cup {r} /\ \A q \in proxy : q.port # r.port
        BY <2>9, <3>2, <3>3 DEF Serve, sshds
      <3>5. QED
        BY <1>1, <3>3, <3>4 DEF Places
    <2>10. CASE /\ ~Mount(s) /\ ~Down(s) /\ ~Prep(s) /\ ~Prepare(s) /\ ~RestartSshd(s)
                /\ ~LaunchSshd(s) /\ ~KillProxies(s) /\ ~Serve(s)
      BY <1>2, <1>3, <2>10, Frames
    <2>11. QED
      BY <2>3, <2>4, <2>5, <2>6, <2>7, <2>8, <2>9, <2>10
  <1>4. ASSUME NEW s \in Sessions, Begin(s) PROVE Places'
    BY <1>1, <1>2, <1>4, Begins DEF procs, sshds
  <1>5. ASSUME UNCHANGED <<up, coming>>, running' \subseteq running, sshd' \subseteq sshd,
               proxy' \subseteq proxy
        PROVE  Places'
    BY <1>1, <1>5 DEF Places
  <1>6. ASSUME up' = {}, running' = {}, coming' = {}, sshd' = {}, proxy' = {} PROVE Places'
    BY <1>6 DEF Places
  <1>7. QED
    BY <1>1, <1>2, <1>3, <1>4, <1>5, <1>6, BindPlaces, Rest

LEMMA SerialInit == Init => SerialInv
  <1>1. Init => Places /\ Sole /\ Mounted
    BY DEF Init, Places, Sole, Mounted, Active, Ended, Nothing
  <1>2. QED
    BY <1>1, ConfInit DEF SerialInv

LEMMA SerialNext == Serial /\ SerialInv /\ [Next]_vars => SerialInv'
  <1> SUFFICES ASSUME Serial, SerialInv, [Next]_vars PROVE SerialInv'
    OBVIOUS
  <1>1. ConfInv' /\ Sole'
    BY ConfNext, SoleKeeps, ConstantsAssumption DEF SerialInv, ConfInv
  <1>2. QED
    BY <1>1, MountedKeeps, PlacesKeep, ConstantsAssumption DEF SerialInv

\* Where commands are carried out one at a time, every reachable state is well typed:
\* every process belongs to a mounted rootfs, no port has two owners, and no two accounts
\* of an instance share a uid, for every number of instances, ports and names, and with
\* cuts, crashes and reboots (user-add.sh:66-84).
THEOREM ServicesTyped ==
  ASSUME Serial
  PROVE  Spec => []TypeOK
  <1>1. SerialInv => TypeOK
    BY DEF SerialInv, ConfInv, ControlInv, Typed, Confs, Conf, Places, UidsOK, TypeOK
  <1>2. QED
    BY <1>1, SerialInit, SerialNext, PTL DEF Spec

-----------------------------------------------------------------------------
(* What success means, one command at a time.                              *)

Single == \A i, j \in Instances : i = j

\* A command that succeeds does so by a step of its own.
LEMMA OwnStep ==
  ASSUME ControlInv, ConstantsAssumption, [Next]_vars, NEW s \in Sessions,
         Active(s), cmd'[s] # cmd[s], cmd'[s].pc # "failed"
  PROVE  Command(s)
  <1>1. cmd \in [Sessions -> Cmd]
    BY DEF ControlInv, Typed
  <1>2. PICK t \in Sessions : Begin(t) \/ Command(t)
    BY <1>1, Rest
  <1>3. Others(t) /\ (Begin(t) => ~Active(t))
    BY <1>2, Begins, Paths
  <1>4. QED
    BY <1>2, <1>3 DEF Others

-----------------------------------------------------------------------------
\* From the kill to the answer there is no proxy but the one just started.
Proxies(s) == /\ cmd[s].pc = "serve" => proxy = {}
              /\ cmd[s].pc = "curl" => \A p \in proxy : /\ p.inst = cmd[s].inst
                                                       /\ p.port = cmd[s].port
                                                       /\ p.to = cmd[s].disp

WebInv == SerialInv /\ \A s \in Sessions : Proxies(s)

LEMMA ProxiesKeep ==
  ASSUME Serial, WebInv, ConstantsAssumption, [Next]_vars
  PROVE  \A s \in Sessions : Proxies(s)'
  <1>1. /\ ControlInv /\ cmd \in [Sessions -> Cmd] /\ Sole
        /\ \A s \in Sessions : Proxies(s)
    BY DEF WebInv, SerialInv, ConfInv, ControlInv, Typed
  <1>2. ASSUME NEW s \in Sessions, Begin(s) PROVE \A t \in Sessions : Proxies(t)'
    <2>1. Others(s) /\ UNCHANGED proxy /\ cmd'[s].pc \notin {"serve", "curl"}
      BY <1>1, <1>2, Begins DEF procs, Body
    <2>2. QED
      BY <1>1, <2>1 DEF Proxies, Others
  <1>3. ASSUME NEW s \in Sessions, Command(s) PROVE \A t \in Sessions : Proxies(t)'
    <2>1. /\ Active(s) /\ Others(s) /\ Same(s)
          /\ Follows(cmd[s].op, cmd[s].pc, cmd'[s].pc)
      BY <1>1, <1>3, Paths
    <2>2. \A t \in Sessions : t # s => cmd'[t].pc \notin {"serve", "curl"}
      BY <1>1, <2>1 DEF Sole, Active, Others, Ended
    <2>3. ASSUME cmd'[s].pc = "serve" PROVE proxy' = {}
      <3>1. cmd[s].pc = "kill proxies"
        BY <2>1, <2>3 DEF Follows, Body
      <3>2. QED
        BY <1>3, <3>1, Which DEF KillProxies
    <2>4. ASSUME cmd'[s].pc = "curl"
          PROVE  \A p \in proxy' : /\ p.inst = cmd'[s].inst /\ p.port = cmd'[s].port
                                   /\ p.to = cmd'[s].disp
      <3>1. cmd[s].pc = "serve"
        BY <2>1, <2>4 DEF Follows, Body
      <3>2. /\ cmd'[s].inst = cmd[s].inst /\ cmd'[s].port = cmd[s].port
            /\ cmd'[s].disp = cmd[s].disp
        BY <2>1, <2>4 DEF Same, Ended
      <3>3. proxy = {}
        BY <1>1, <3>1 DEF Proxies
      <3>4. proxy' \subseteq {[inst |-> cmd[s].inst, port |-> cmd[s].port, to |-> cmd[s].disp]}
        BY <1>3, <3>1, <3>3, Which DEF Serve
      <3>5. QED
        BY <3>2, <3>4
    <2>5. QED
      BY <2>2, <2>3, <2>4 DEF Proxies
  <1>4. ASSUME \A s \in Sessions : cmd'[s] = cmd[s] \/ cmd'[s].pc = "failed", proxy' \subseteq proxy
        PROVE  \A s \in Sessions : Proxies(s)'
    BY <1>1, <1>4 DEF Proxies
  <1>5. QED
    BY <1>1, <1>2, <1>3, <1>4, Rest DEF Bind

LEMMA WebStep ==
  ASSUME WebInv, ConstantsAssumption, [Next]_vars,
         NEW s \in Sessions, cmd[s].pc = "curl", cmd'[s].pc = "forward"
  PROVE  \E p \in proxy' : p.inst = cmd[s].inst /\ p.port = cmd[s].port /\ p.to = cmd[s].disp
  <1>1. ControlInv /\ Proxies(s)
    BY DEF WebInv, SerialInv, ConfInv
  <1>2. Curl(s)
    BY <1>1, OwnStep, Which DEF Active, Ended
  <1>3. UNCHANGED proxy /\ Goto(s, IF \E p \in proxy : p.port = cmd[s].port THEN "forward" ELSE "failed")
    BY <1>2 DEF Curl, Step, procs
  <1>4. \E p \in proxy : p.port = cmd[s].port
    <2>1. CASE ~\E p \in proxy : p.port = cmd[s].port
      <3>1. Goto(s, "failed")
        BY <1>3, <2>1
      <3>2. cmd'[s].pc = "failed"
        BY <1>1, <3>1, GoesOn DEF ControlInv, Typed, Labels
      <3>3. QED
        BY <3>2
    <2>2. QED
      BY <2>1
  <1>5. QED
    BY <1>1, <1>3, <1>4 DEF Proxies

\* The proxy that answers a web is its own and shows the display asked for, for every
\* number of instances, ports and displays, where commands are carried out one at a
\* time (gui.py:380-388).
THEOREM OwnProxyAnswers ==
  ASSUME Serial
  PROVE  Spec => WebServes
  <1>1. Init => WebInv
    <2>1. Init => \A s \in Sessions : Proxies(s)
      BY DEF Init, Proxies, Nothing
    <2>2. QED
      BY <2>1, SerialInit DEF WebInv
  <1>2. WebInv /\ [Next]_vars => WebInv'
    BY ProxiesKeep, SerialNext, ConstantsAssumption DEF WebInv
  <1>3. WebInv /\ [Next]_vars =>
          [\A s \in Sessions : cmd[s].pc = "curl" /\ cmd'[s].pc = "forward" =>
             \E p \in proxy' : p.inst = cmd[s].inst /\ p.port = cmd[s].port /\ p.to = cmd[s].disp]_vars
    BY WebStep, ConstantsAssumption
  <1>4. QED
    BY <1>1, <1>2, <1>3, PTL DEF Spec, WebServes

-----------------------------------------------------------------------------
(* sshd, where a login is for the default account.                         *)

ForDefault == Logins \subseteq {None}

\* The account that sshd lets in is one that was added, from the login on that
\* configured it.
Allowed ==
  /\ \A i \in Instances : conf[i] # None /\ conf[i].port # StockPort =>
       conf[i].allow \in Adds /\ Exists(i, conf[i].allow)
  /\ \A p \in coming \cup sshd :
       p.inst \in Instances /\ (p.port # StockPort => p.allow \in Adds /\ Exists(p.inst, p.allow))

Chosen(s) ==
  /\ cmd[s].op = "ssh" /\ cmd[s].pc \in First \cup {"login"} => cmd[s].name = None
  /\ cmd[s].pc \in {"truncate", "configure"} =>
       cmd[s].name \in Adds /\ Exists(cmd[s].inst, cmd[s].name)

LoginInv == AccountInv /\ ConfInv /\ Allowed /\ \A s \in Sessions : Chosen(s)

\* An account that was added stays.
LEMMA AddsStay ==
  ASSUME ControlInv, ConstantsAssumption, Distinct, [Next]_vars
  PROVE  \A i \in Instances, n \in Adds : Exists(i, n) => Exists(i, n)'
  <1>1. Typed /\ cmd \in [Sessions -> Cmd] /\ Adds \subseteq Names
    BY ConstantsAssumption DEF ControlInv, Typed
  <1>2. ASSUME NEW s \in Sessions, Account(s)
        PROVE  \A i \in Instances, n \in Adds : Exists(i, n) => Exists(i, n)'
    <2> DEFINE i     == cmd[s].inst
               n     == cmd[s].name
               taken == Occupants(i) \cap Placeholders
    <2>1. i \in Instances /\ n \in Names /\ Adds \cap taken = {}
      BY <1>1, <1>2 DEF Account, Step, ControlInv, Role, Active, Ended, UserSteps, Distinct
    <2>2. \/ uid' = uid
          \/ uid' = [uid EXCEPT ![i] = [m \in Names |-> IF m \in taken THEN 0
                                          ELSE IF m = n THEN 1000 ELSE @[m]]]
          \/ \E u \in IF Occupants(i) = {} THEN {1000} ELSE NextUids(i) : uid' = [uid EXCEPT ![i][n] = u]
      BY <1>2 DEF Account
    <2>3. \A u \in IF Occupants(i) = {} THEN {1000} ELSE NextUids(i) : u \in Int /\ u # 0
      BY ConstantsAssumption DEF NextUids
    <2> HIDE DEF taken, i, n
    <2>4. QED
      BY <1>1, <2>1, <2>2, <2>3 DEF Typed, Exists
  <1>3. ASSUME UNCHANGED uid
        PROVE  \A i \in Instances, n \in Adds : Exists(i, n) => Exists(i, n)'
    BY <1>3 DEF Exists
  <1>4. ASSUME NEW s \in Sessions, Command(s)
        PROVE  \A i \in Instances, n \in Adds : Exists(i, n) => Exists(i, n)'
    <2>1. Account(s) \/ UNCHANGED uid
      BY <1>4, AccountsMove DEF Groups, Record, accounts
    <2>2. QED
      BY <1>2, <1>3, <2>1
  <1>5. ASSUME NEW s \in Sessions, Begin(s)
        PROVE  \A i \in Instances, n \in Adds : Exists(i, n) => Exists(i, n)'
    BY <1>3, <1>5, Begins DEF accounts
  <1>6. ASSUME UNCHANGED accounts
        PROVE  \A i \in Instances, n \in Adds : Exists(i, n) => Exists(i, n)'
    BY <1>3, <1>6 DEF accounts
  <1>7. QED
    BY <1>1, <1>4, <1>5, <1>6, Rest

\* What is started lets in whom the configuration lets in.
LEMMA LaunchAllowed ==
  ASSUME Allowed, NEW i \in Instances, conf[i] # None, Launch(i)
  PROVE  \A p \in coming' \cup sshd' :
           p.inst \in Instances /\ (p.port # StockPort => p.allow \in Adds /\ Exists(p.inst, p.allow))
  <1>1. PICK r : r = [inst |-> i, port |-> conf[i].port, allow |-> conf[i].allow]
    OBVIOUS
  <1>2. r.inst = i /\ (r.port # StockPort => r.allow \in Adds /\ Exists(i, r.allow))
    BY <1>1 DEF Allowed
  <1>3. coming' \cup sshd' \subseteq coming \cup sshd \cup {r}
    BY <1>1 DEF Launch
  <1>4. QED
    BY <1>2, <1>3 DEF Allowed

LEMMA AllowedKeeps ==
  ASSUME LoginInv, ConstantsAssumption, Distinct, [Next]_vars
  PROVE  Allowed'
  <1>1. /\ ControlInv /\ Confs /\ ConfInv /\ Allowed /\ cmd \in [Sessions -> Cmd]
        /\ \A s \in Sessions : Chosen(s)
    BY DEF LoginInv, ConfInv, ControlInv, Typed
  <1>2. \A i \in Instances, n \in Adds : uid[i][n] # 0 => uid'[i][n] # 0
    BY <1>1, AddsStay DEF Exists
  <1>3. ASSUME \A p \in coming' \cup sshd' :
                 /\ p.inst \in Instances
                 /\ p.port # StockPort => p.allow \in Adds /\ Exists(p.inst, p.allow),
               \A i \in Instances : conf'[i] # None /\ conf'[i].port # StockPort =>
                 conf'[i].allow \in Adds /\ Exists(i, conf'[i].allow)
        PROVE  Allowed'
    <2>1. \A p \in coming' \cup sshd' :
            /\ p.inst \in Instances
            /\ p.port # StockPort => p.allow \in Adds /\ uid'[p.inst][p.allow] # 0
      BY <1>2, <1>3 DEF Exists
    <2>2. \A i \in Instances : conf'[i] # None /\ conf'[i].port # StockPort =>
            conf'[i].allow \in Adds /\ uid'[i][conf'[i].allow] # 0
      BY <1>2, <1>3 DEF Exists
    <2>3. QED
      BY <2>1, <2>2 DEF Allowed, Exists
  <1>4. ASSUME coming' \cup sshd' \subseteq coming \cup sshd, UNCHANGED conf PROVE Allowed'
    BY <1>1, <1>3, <1>4 DEF Allowed
  <1>5. ASSUME NEW s \in Sessions, Command(s) PROVE Allowed'
    <2>1. Active(s) /\ Role(s) /\ cmd[s].inst \in Instances
      BY <1>1, <1>5, Paths DEF ControlInv, Role
    <2>2. CASE Configure(s)
      <3>1. PICK r : /\ r = [port |-> cmd[s].port, allow |-> cmd[s].name]
                     /\ conf' = [conf EXCEPT ![cmd[s].inst] = r]
        BY <1>1, <2>2, Written
      <3>2. r.allow \in Adds /\ Exists(cmd[s].inst, r.allow)
        BY <1>1, <1>5, <2>2, <3>1, Which DEF Chosen
      <3>3. UNCHANGED <<coming, sshd>>
        BY <2>2 DEF Configure, procs, sshds
      <3>4. QED
        BY <1>1, <1>3, <3>1, <3>2, <3>3 DEF Allowed, Confs
    <2>6. CASE Truncate(s)
      <3>1. conf' = [conf EXCEPT ![cmd[s].inst] = Stock] /\ Stock.port = StockPort
        BY <2>6 DEF Truncate, Stock
      <3>2. UNCHANGED <<coming, sshd>>
        BY <2>6 DEF Truncate, procs, sshds
      <3> HIDE DEF Stock
      <3>3. QED
        BY <1>1, <1>3, <3>1, <3>2 DEF Allowed, Confs
    <2>3. CASE RestartSshd(s) /\ cmd[s].inst \in marker
      <3>1. Launch(cmd[s].inst) /\ UNCHANGED conf
        BY <2>3 DEF RestartSshd
      <3>2. conf[cmd[s].inst] # None
        BY <1>1, <2>3 DEF Confs
      <3>3. QED
        BY <1>1, <1>3, <2>1, <3>1, <3>2, LaunchAllowed DEF Allowed
    <2>4. CASE LaunchSshd(s)
      <3>1. Launch(cmd[s].inst) /\ UNCHANGED conf
        BY <2>4 DEF LaunchSshd
      <3>2. conf[cmd[s].inst] # None
        BY <1>1, <2>4 DEF LaunchSshd, Step, Confs
      <3>3. QED
        BY <1>1, <1>3, <2>1, <3>1, <3>2, LaunchAllowed DEF Allowed
    <2>5. CASE /\ ~Configure(s) /\ ~Truncate(s) /\ ~LaunchSshd(s)
               /\ ~(RestartSshd(s) /\ cmd[s].inst \in marker)
      <3>1. coming' \cup sshd' \subseteq coming \cup sshd
        BY <1>5, <2>5, Frames DEF RestartSshd, Down, sshds
      <3>2. QED
        BY <1>4, <1>5, <2>5, <3>1, Frames
    <2>7. QED
      BY <2>2, <2>3, <2>4, <2>5, <2>6
  <1>6. ASSUME NEW s \in Sessions, Begin(s) PROVE Allowed'
    BY <1>1, <1>4, <1>6, Begins DEF procs, sshds
  <1>7. ASSUME Bind PROVE Allowed'
    <2>1. coming' \cup sshd' \subseteq coming \cup sshd /\ UNCHANGED conf
      BY <1>7 DEF Bind
    <2>2. QED
      BY <1>4, <2>1
  <1>8. QED
    BY <1>1, <1>4, <1>5, <1>6, <1>7, Rest

LEMMA ChosenKeeps ==
  ASSUME LoginInv, ConstantsAssumption, Distinct, ForDefault, [Next]_vars
  PROVE  \A s \in Sessions : Chosen(s)'
  <1>1. /\ ControlInv /\ AccountInv /\ cmd \in [Sessions -> Cmd]
        /\ \A s \in Sessions : Chosen(s) /\ Role(s)
    BY DEF LoginInv, ConfInv, ControlInv, Typed
  <1>2. \A i \in Instances, n \in Adds : uid[i][n] # 0 => uid'[i][n] # 0
    BY <1>1, AddsStay DEF Exists
  <1>3. ASSUME NEW t \in Sessions, cmd'[t] = cmd[t] \/ cmd'[t].pc \in Ended PROVE Chosen(t)'
    <2>1. CASE cmd'[t] = cmd[t]
      <3>1. cmd[t].pc \in {"truncate", "configure"} => cmd[t].inst \in Instances
        BY <1>1 DEF Role, Active, Ended
      <3>2. cmd[t].pc \in {"truncate", "configure"} =>
              cmd[t].name \in Adds /\ uid'[cmd[t].inst][cmd[t].name] # 0
        BY <1>1, <1>2, <3>1 DEF Chosen, Exists
      <3>3. QED
        BY <1>1, <2>1, <3>2 DEF Chosen, Exists
    <2>2. CASE cmd'[t].pc \in Ended
      BY <2>2 DEF Chosen, Ended, First
    <2>3. QED
      BY <1>3, <2>1, <2>2
  <1>4. ASSUME NEW s \in Sessions, Begin(s) PROVE \A t \in Sessions : Chosen(t)'
    <2>1. /\ Others(s) /\ cmd'[s].pc \notin {"truncate", "configure"}
          /\ cmd'[s].op = "ssh" => cmd'[s].name \in Logins
      BY <1>1, <1>4, Begins DEF Body
    <2>2. Chosen(s)'
      BY <2>1 DEF Chosen, ForDefault
    <2>3. QED
      BY <1>3, <2>1, <2>2 DEF Others
  <1>5. ASSUME NEW s \in Sessions, Command(s) PROVE \A t \in Sessions : Chosen(t)'
    <2>1. /\ Active(s) /\ Others(s) /\ Same(s) /\ Role(s) /\ Chosen(s)
          /\ Follows(cmd[s].op, cmd[s].pc, cmd'[s].pc)
      BY <1>1, <1>5, Paths
    <2>2. CASE cmd'[s].pc \in First \cup {"login"}
      <3>1. cmd[s].pc \in First
        BY <2>1, <2>2 DEF Follows, First
      <3>2. /\ cmd'[s].op = cmd[s].op /\ cmd'[s].name = cmd[s].name
            /\ cmd'[s].pc \notin {"truncate", "configure"}
        BY <2>1, <2>2, <3>1 DEF Same, First, Ended
      <3>3. QED
        BY <1>3, <2>1, <3>1, <3>2 DEF Chosen, Others
    <2>6. CASE cmd'[s].pc = "configure"
      <3>1. cmd[s].pc = "truncate"
        BY <2>1, <2>6 DEF Follows, Body
      <3>2. /\ cmd'[s].name = cmd[s].name /\ cmd'[s].inst = cmd[s].inst /\ cmd[s].inst \in Instances
            /\ cmd[s].name \in Adds /\ uid[cmd[s].inst][cmd[s].name] # 0
        BY <2>1, <2>6, <3>1 DEF Same, Chosen, Role, Ended, Exists
      <3>3. uid'[cmd[s].inst][cmd[s].name] # 0
        BY <1>2, <3>2
      <3>4. Chosen(s)'
        BY <2>6, <3>2, <3>3 DEF Chosen, Exists, First
      <3>5. QED
        BY <1>3, <2>1, <3>4 DEF Others
    <2>3. CASE cmd'[s].pc = "truncate"
      <3>1. cmd[s].pc = "login"
        BY <2>1, <2>3 DEF Follows, Body
      <3>2. /\ cmd'[s].name \in Names /\ cmd'[s].name \in {cmd[s].name, default[cmd[s].inst]}
            /\ UNCHANGED accounts
        BY <1>1, <1>5, <2>3, <3>1, Which, LoginName DEF Login
      <3>3. cmd[s].name = None /\ cmd[s].inst \in Instances /\ cmd'[s].inst = cmd[s].inst
        BY <2>1, <2>3, <3>1 DEF Chosen, Role, Same, Ended
      <3>4. cmd'[s].name = default[cmd[s].inst] /\ default[cmd[s].inst] # None
        BY <3>2, <3>3, ConstantsAssumption
      <3>5. cmd'[s].name \in Adds /\ Exists(cmd[s].inst, cmd'[s].name)
        BY <1>1, <3>3, <3>4 DEF AccountInv, AddedDefault, DefaultUsable
      <3>6. Chosen(s)'
        BY <2>3, <3>2, <3>3, <3>5 DEF Chosen, Exists, First, accounts
      <3>7. QED
        BY <1>3, <2>1, <3>6 DEF Others
    <2>4. CASE cmd'[s].pc \notin First \cup {"login", "truncate", "configure"}
      <3>1. Chosen(s)'
        BY <2>4 DEF Chosen
      <3>2. QED
        BY <1>3, <2>1, <3>1 DEF Others
    <2>5. QED
      BY <2>2, <2>3, <2>4, <2>6
  <1>6. ASSUME \A s \in Sessions : cmd'[s] = cmd[s] \/ cmd'[s].pc = "failed"
        PROVE  \A s \in Sessions : Chosen(s)'
    BY <1>3, <1>6 DEF Ended
  <1>7. QED
    BY <1>1, <1>4, <1>5, <1>6, Rest

\* What an up starts, and what becomes of it.
Relaunched ==
  \A s \in Sessions :
    LET i == cmd[s].inst IN
    Succeeds(s) /\ cmd[s].op = "up" /\ i \in marker =>
      \E p \in coming' \cup sshd' : p.inst = i /\ p.port = conf[i].port

Settled ==
  \A p \in coming \ coming' :
    p.inst \in up' /\ p.port \notin BadPorts \cup {StockPort} =>
      \E q \in sshd' : q.inst = p.inst /\ q.port = p.port /\ Exists(q.inst, q.allow)

LEMMA UpRelaunches ==
  ASSUME LoginInv, ConstantsAssumption, [Next]_vars
  PROVE  Relaunched
  <1> SUFFICES ASSUME NEW s \in Sessions, Succeeds(s), cmd[s].op = "up", cmd[s].inst \in marker
               PROVE  \E p \in coming' \cup sshd' :
                        p.inst = cmd[s].inst /\ p.port = conf[cmd[s].inst].port
    BY DEF Relaunched
  <1>1. ControlInv
    BY DEF LoginInv, ConfInv
  <1>2. Active(s) /\ cmd'[s].pc = "ok"
    BY DEF Succeeds
  <1>3. Command(s)
    BY <1>1, <1>2, OwnStep DEF Active, Ended
  <1>4. Role(s) /\ Follows(cmd[s].op, cmd[s].pc, "ok")
    BY <1>1, <1>2, <1>3, Paths DEF ControlInv
  <1>5. cmd[s].pc = "restart sshd"
    BY <1>2, <1>4 DEF Role, Follows, UserSteps
  <1>6. Launch(cmd[s].inst)
    BY <1>3, <1>5, Which DEF RestartSshd
  <1>7. PICK i, r : i = cmd[s].inst /\ r = [inst |-> i, port |-> conf[i].port, allow |-> conf[i].allow]
    OBVIOUS
  <1>8. r \in coming' /\ r.inst = i /\ r.port = conf[i].port
    BY <1>6, <1>7 DEF Launch
  <1>9. QED
    BY <1>7, <1>8

LEMMA StartedSettles ==
  ASSUME Single, LoginInv, ConstantsAssumption, [Next]_vars
  PROVE  Settled
  <1> SUFFICES ASSUME NEW p \in coming, p \notin coming', p.inst \in up',
                      p.port \notin BadPorts, p.port # StockPort
               PROVE  \E q \in sshd' : q.inst = p.inst /\ q.port = p.port /\ Exists(q.inst, q.allow)
    BY DEF Settled
  <1>1. ControlInv /\ Allowed /\ cmd \in [Sessions -> Cmd]
    BY DEF LoginInv, ConfInv, ControlInv, Typed
  <1>2. \A q \in coming \cup sshd : q.inst = p.inst
    BY <1>1 DEF Allowed, Single
  <1>3. CASE Bind
    <2>1. PICK q \in coming : /\ coming' = coming \ {q}
                              /\ sshd' = IF q.port \in BadPorts \/ \E r \in sshd : r.port = q.port
                                         THEN sshd ELSE sshd \cup {q}
      BY <1>3 DEF Bind
    <2>2. q = p
      BY <2>1
    <2>3. CASE \E r \in sshd : r.port = p.port
      BY <1>1, <1>2, <2>1, <2>2, <2>3 DEF Allowed
    <2>4. CASE ~\E r \in sshd : r.port = p.port
      BY <1>1, <2>1, <2>2, <2>4 DEF Allowed
    <2>5. QED
      BY <2>3, <2>4
  <1>4. ASSUME NEW s \in Sessions, Command(s) PROVE FALSE
    <2>1. Down(s)
      BY <1>4, Frames DEF RestartSshd, LaunchSshd, Launch, sshds
    <2>2. p.inst = cmd[s].inst /\ up' = up \ {cmd[s].inst}
      BY <2>1 DEF Down
    <2>3. QED
      BY <2>2
  <1>5. ASSUME NEW s \in Sessions, Begin(s) PROVE FALSE
    BY <1>1, <1>5, Begins DEF procs, sshds
  <1>6. QED
    BY <1>1, <1>3, <1>4, <1>5, Rest

\* After an up of the instance on which ssh was ever enabled its sshd is started on the
\* port last configured, and what is started ends with an sshd on that port which lets in
\* an account that exists, for every number of commands at once, cut anywhere, and with
\* crashes and reboots, where there is one instance, logins are for the default account,
\* and no name given to `user add` is one the script takes for a placeholder
\* (up.sh:266-275).
THEOREM SshdReturns ==
  ASSUME Single, Distinct, ForDefault
  PROVE  Spec => SshReturns
  <1>1. Init => LoginInv
    <2>1. Init => /\ \A s \in Sessions : cmd[s].pc = "ok"
                  /\ coming = {} /\ sshd = {} /\ \A i \in Instances : conf[i] = None
      BY DEF Init, Nothing
    <2>2. Init => Allowed /\ \A s \in Sessions : Chosen(s)
      BY <2>1 DEF Allowed, Chosen, First
    <2>3. QED
      BY <2>2, AccountInit, ConfInit, ConstantsAssumption DEF LoginInv
  <1>2. LoginInv /\ [Next]_vars => LoginInv'
    BY AccountNext, ConfNext, AllowedKeeps, ChosenKeeps, ConstantsAssumption DEF LoginInv
  <1>3. LoginInv /\ [Next]_vars => Relaunched /\ Settled
    BY UpRelaunches, StartedSettles, ConstantsAssumption
  <1>4. LoginInv /\ [Next]_vars =>
          [/\ \A s \in Sessions :
                LET i == cmd[s].inst IN
                Succeeds(s) /\ cmd[s].op = "up" /\ i \in marker =>
                  \E p \in coming' \cup sshd' : p.inst = i /\ p.port = conf[i].port
           /\ \A p \in coming \ coming' :
                p.inst \in up' /\ p.port \notin BadPorts \cup {StockPort} =>
                  \E q \in sshd' : q.inst = p.inst /\ q.port = p.port /\ Exists(q.inst, q.allow)]_vars
    BY <1>3 DEF Relaunched, Settled
  <1>5. QED
    BY <1>1, <1>2, <1>4, PTL DEF Spec, SshReturns
=============================================================================
