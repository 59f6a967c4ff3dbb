-------------------------- MODULE AutostartProofs --------------------------
(***************************************************************************)
(* The hook and the reports of `autostart`, for every set of instances and *)
(* displays, with commands cut anywhere, removals, other commands between  *)
(* and reboots.                                                            *)
(***************************************************************************)
EXTENDS AutostartProps, TLAPS

Labels == Ended \cup
  {"open up.sh", "write up.sh", "display", "ensure up", "open gui-start",
   "write gui-start", "magisk", "boot.sh alone", "open boot.sh", "write boot.sh",
   "open hook", "write hook", "open start", "write start", "unhook"}

Cmd == [pc : Labels, op : {"enable", "disable", None}, inst : Instances \cup {None},
        gui : BOOLEAN, disp : Displays \cup {None}]

Bodies == {"absent", "short", "whole", "gui", "plain"} \cup Displays

Typed == /\ cmd \in [Sessions -> Cmd]
         /\ file \in [Instances -> [Staged -> Bodies]]
         /\ record \in [Instances -> Displays \cup {None}]

\* The steps of enable after each of the things they rely on.
Hooked     == {"open start", "write start"}
BootStaged == {"open hook", "write hook"} \cup Hooked
GuiStaged  == {"magisk", "boot.sh alone", "open boot.sh", "write boot.sh"} \cup BootStaged
UpKnown    == {"open gui-start", "write gui-start"}
DispRead   == {"ensure up"} \cup UpKnown \cup GuiStaged
UpStaged   == {"display"} \cup DispRead

Arguments(s) ==
  /\ Active(s) => cmd[s].inst \in Instances
  /\ Active(s) => (cmd[s].op = "disable" <=> cmd[s].pc = "unhook")
  /\ cmd[s].pc \in DispRead => cmd[s].disp \in Displays

\* What the steps of enable have established.
Established(s) ==
  LET i == cmd[s].inst IN
  /\ cmd[s].pc \in UpStaged => file[i]["up.sh"] = "whole"
  /\ cmd[s].pc \in UpKnown => i \in up
  /\ cmd[s].pc \in GuiStaged /\ cmd[s].gui => file[i]["gui-start"] = cmd[s].disp
  /\ cmd[s].pc \in BootStaged => file[i]["boot.sh"] = IF cmd[s].gui THEN "gui" ELSE "plain"
  /\ cmd[s].pc \in Hooked => hook = i

EnableInv ==
  /\ Typed
  /\ \A s, t \in Sessions : Active(s) /\ Active(t) => s = t
  /\ \A s \in Sessions : Arguments(s) /\ Established(s)

\* Commands one after the other, and a file system with room.
Used == Serial /\ "full" \notin Faults

-----------------------------------------------------------------------------
\* Going on to a next step changes that of one command, and none of the arguments.
LEMMA GoesOn ==
  ASSUME NEW s \in Sessions, NEW to \in Labels, Typed, Goto(s, to)
  PROVE  /\ cmd' \in [Sessions -> Cmd]
         /\ \A t \in Sessions : t # s => cmd'[t] = cmd[t]
         /\ cmd'[s].pc = to
         /\ to \notin Ended => /\ cmd'[s].op = cmd[s].op
                               /\ cmd'[s].inst = cmd[s].inst
                               /\ cmd'[s].gui = cmd[s].gui
                               /\ cmd'[s].disp = cmd[s].disp
  BY DEF Typed, Cmd, Goto, NoCommand

\* With one command active, only what its own next step relies on matters.
LEMMA Focus ==
  ASSUME NEW s \in Sessions, EnableInv, Active(s), Typed',
         \A t \in Sessions : t # s => cmd'[t] = cmd[t],
         Arguments(s)', Established(s)'
  PROVE  EnableInv'
  <1>1. \A t \in Sessions : t # s => cmd'[t].pc \in Ended
    BY DEF EnableInv, Active
  <1>2. \A t \in Sessions : t # s => Arguments(t)' /\ Established(t)'
    BY <1>1 DEF Arguments, Established, Active, Ended, UpStaged, DispRead, UpKnown,
       GuiStaged, BootStaged, Hooked
  <1>3. QED
    BY <1>1, <1>2 DEF EnableInv, Active

\* A command that has ended relies on nothing.
LEMMA Ends ==
  ASSUME NEW s \in Sessions, EnableInv, Active(s), Goto(s, "ok") \/ Goto(s, "failed"),
         file' \in [Instances -> [Staged -> Bodies]],
         record' \in [Instances -> Displays \cup {None}]
  PROVE  EnableInv'
  <1>1. /\ cmd' \in [Sessions -> Cmd] /\ cmd'[s].pc \in Ended
        /\ \A t \in Sessions : t # s => cmd'[t] = cmd[t]
    BY GoesOn DEF EnableInv, Labels, Ended
  <1>2. Arguments(s)' /\ Established(s)'
    BY <1>1 DEF Arguments, Established, Active, Ended, UpStaged, DispRead, UpKnown,
       GuiStaged, BootStaged, Hooked
  <1>3. QED
    BY <1>1, <1>2, Focus DEF Typed

\* Writing one file leaves the others; gui-start takes a mounted rootfs.
LEMMA Puts ==
  ASSUME NEW s \in Sessions, Typed, NEW f \in Staged, NEW c \in Bodies, Put(s, f, c),
         NEW i \in Instances, cmd[s].inst = i
  PROVE  /\ file' \in [Instances -> [Staged -> Bodies]]
         /\ \A g \in Staged : g # f => file'[i][g] = file[i][g]
         /\ f # "gui-start" \/ i \in up => file'[i][f] = c
  BY DEF Typed, Put

LEMMA OpenKeeps ==
  ASSUME NEW s \in Sessions, EnableInv, OpenFile(s)
  PROVE  EnableInv'
  <1>1. PICK f \in Staged : Step(s, Opening(f), Writing(f)) /\ Put(s, f, "short")
    BY DEF OpenFile
  <1>2. UNCHANGED <<hook, up, record>>
    BY DEF OpenFile, device
  <1>3. /\ cmd[s].pc = Opening(f) /\ Goto(s, Writing(f)) /\ Active(s)
        /\ Writing(f) \in Labels /\ Writing(f) \notin Ended
    BY <1>1 DEF Step, Opening, Writing, Active, Ended, Labels, Staged
  <1>4. PICK i \in Instances : cmd[s].inst = i
    BY <1>3 DEF EnableInv, Arguments
  <1>5. /\ cmd' \in [Sessions -> Cmd] /\ \A t \in Sessions : t # s => cmd'[t] = cmd[t]
        /\ cmd'[s].pc = Writing(f) /\ cmd'[s].op = cmd[s].op /\ cmd'[s].inst = i
        /\ cmd'[s].gui = cmd[s].gui /\ cmd'[s].disp = cmd[s].disp
    BY <1>3, <1>4, GoesOn DEF EnableInv
  <1>6. /\ file' \in [Instances -> [Staged -> Bodies]]
        /\ \A g \in Staged : g # f => file'[i][g] = file[i][g]
    BY <1>1, <1>4, Puts DEF EnableInv, Bodies
  <1>7. Arguments(s) /\ Established(s)
    BY DEF EnableInv
  <1>8. Arguments(s)'
    BY <1>3, <1>4, <1>5, <1>7 DEF Arguments, Opening, Writing, Staged, Active, Ended,
       DispRead, UpKnown, GuiStaged, BootStaged, Hooked
  <1>9. Established(s)'
    BY <1>2, <1>3, <1>4, <1>5, <1>6, <1>7 DEF Established, Opening, Writing, Staged,
       UpStaged, DispRead, UpKnown, GuiStaged, BootStaged, Hooked
  <1>10. QED
    BY <1>2, <1>3, <1>5, <1>6, <1>8, <1>9, Focus DEF Typed, EnableInv

LEMMA WriteKeeps ==
  ASSUME NEW s \in Sessions, EnableInv, Used, WriteFile(s)
  PROVE  EnableInv'
  <1>1. PICK f \in Staged : Step(s, Writing(f), After(s, f)) /\ Put(s, f, Content(s, f))
    BY DEF WriteFile, Used
  <1>2. UNCHANGED <<hook, up, record>>
    BY DEF WriteFile, device
  <1>3. cmd[s].pc = Writing(f) /\ Goto(s, After(s, f)) /\ Active(s) /\ After(s, f) \in Labels
    BY <1>1 DEF Step, Writing, After, Active, Ended, Labels, Staged
  <1>4. PICK i \in Instances : cmd[s].inst = i
    BY <1>3 DEF EnableInv, Arguments
  <1>5. Arguments(s) /\ Established(s)
    BY DEF EnableInv
  <1>6. Content(s, f) \in Bodies
    BY <1>3, <1>5 DEF Content, Bodies, Staged, Arguments, Writing, DispRead, UpKnown,
       GuiStaged, BootStaged, Hooked
  <1>7. /\ file' \in [Instances -> [Staged -> Bodies]]
        /\ \A g \in Staged : g # f => file'[i][g] = file[i][g]
        /\ f # "gui-start" \/ i \in up => file'[i][f] = Content(s, f)
    BY <1>1, <1>4, <1>6, Puts DEF EnableInv
  <1>8. CASE f = "start"
    BY <1>2, <1>3, <1>7, <1>8, Ends DEF After, EnableInv, Typed
  <1>9. CASE f # "start"
    <2>1. /\ cmd' \in [Sessions -> Cmd] /\ \A t \in Sessions : t # s => cmd'[t] = cmd[t]
          /\ cmd'[s].pc = After(s, f) /\ cmd'[s].op = cmd[s].op /\ cmd'[s].inst = i
          /\ cmd'[s].gui = cmd[s].gui /\ cmd'[s].disp = cmd[s].disp
      BY <1>3, <1>4, <1>9, GoesOn DEF EnableInv, After, Staged, Ended
    <2>2. Arguments(s)'
      BY <1>3, <1>4, <1>5, <1>9, <2>1 DEF Arguments, Writing, After, Staged, Active, Ended,
         DispRead, UpKnown, GuiStaged, BootStaged, Hooked
    <2>3. Established(s)'
      BY <1>2, <1>3, <1>4, <1>5, <1>7, <1>9, <2>1 DEF Established, Writing, After, Content,
         Staged, UpStaged, DispRead, UpKnown, GuiStaged, BootStaged, Hooked
    <2>4. QED
      BY <1>2, <1>3, <1>7, <2>1, <2>2, <2>3, Focus DEF Typed, EnableInv
  <1>10. QED
    BY <1>8, <1>9

\* The display that is read is recorded or the default; there is always one.
LEMMA DisplayKeeps ==
  ASSUME NEW s \in Sessions, EnableInv, ReadDisplay(s)
  PROVE  EnableInv'
  <1>1. cmd[s].pc = "display" /\ Active(s) /\ UNCHANGED <<file, hook, up, record>>
    BY DEF ReadDisplay, Reading, Active, Ended, device
  <1>2. PICK i \in Instances : cmd[s].inst = i
    BY <1>1 DEF EnableInv, Arguments
  <1>3. PICK d \in Displays : cmd' =
          [cmd EXCEPT ![s].pc = IF cmd[s].gui THEN "ensure up" ELSE "magisk", ![s].disp = d]
    <2>1. record[i] \in Displays \cup {None} /\ i # None
      BY ConstantsAssumption DEF EnableInv, Typed
    <2>2. QED
      BY <1>2, <2>1, ConstantsAssumption DEF ReadDisplay, Reading
  <1>4. /\ cmd' \in [Sessions -> Cmd] /\ \A t \in Sessions : t # s => cmd'[t] = cmd[t]
        /\ cmd'[s].pc = IF cmd[s].gui THEN "ensure up" ELSE "magisk"
        /\ cmd'[s].op = cmd[s].op /\ cmd'[s].inst = i
        /\ cmd'[s].gui = cmd[s].gui /\ cmd'[s].disp = d
    BY <1>2, <1>3 DEF EnableInv, Typed, Cmd, Labels, Ended
  <1>5. Arguments(s) /\ Established(s)
    BY DEF EnableInv
  <1>6. Arguments(s)' /\ Established(s)'
    BY <1>1, <1>2, <1>4, <1>5 DEF Arguments, Established, Active, Ended, UpStaged, DispRead,
       UpKnown, GuiStaged, BootStaged, Hooked
  <1>7. QED
    BY <1>1, <1>4, <1>6, Focus DEF Typed, EnableInv

\* The steps that write no file of the instance's.
LEMMA MovesKeep ==
  ASSUME NEW s \in Sessions, EnableInv, Used,
         EnsureUp(s) \/ AskMagisk(s) \/ OpenHook(s) \/ WriteHook(s)
  PROVE  EnableInv'
  <1>1. /\ cmd[s].pc \in {"ensure up", "magisk", "open hook", "write hook"} /\ Active(s)
        /\ UNCHANGED <<file, record>>
    BY DEF EnsureUp, AskMagisk, OpenHook, WriteHook, Step, Active, Ended, device
  <1>2. PICK i \in Instances : cmd[s].inst = i
    BY <1>1 DEF EnableInv, Arguments
  <1>3. PICK to \in Labels :
          /\ Goto(s, to)
          /\ \/ cmd[s].pc = "ensure up" /\ to \in {"failed", "open gui-start"}
             \/ cmd[s].pc = "magisk" /\ to \in {"open boot.sh", "boot.sh alone"}
             \/ cmd[s].pc = "open hook" /\ to = "write hook"
             \/ cmd[s].pc = "write hook" /\ to = "open start"
          /\ to = "open gui-start" => i \in up'
          /\ to = "open start" => hook' = i
    <2>1. CASE EnsureUp(s) /\ i \in image
      <3>1. /\ cmd[s].pc = "ensure up" /\ Goto(s, "open gui-start") /\ i \in up'
            /\ "open gui-start" \in Labels
        BY <1>2, <2>1 DEF EnsureUp, Labels, Ended
      <3>2. QED
        BY <3>1
    <2>2. CASE EnsureUp(s) /\ i \notin image
      <3>1. cmd[s].pc = "ensure up" /\ Goto(s, "failed") /\ "failed" \in Labels
        BY <1>2, <2>2 DEF EnsureUp, Labels, Ended
      <3>2. QED
        BY <3>1
    <2>3. CASE AskMagisk(s)
      <3>1. /\ cmd[s].pc = "magisk"
            /\ Goto(s, "open boot.sh") \/ Goto(s, "boot.sh alone")
            /\ "open boot.sh" \in Labels /\ "boot.sh alone" \in Labels
        BY <2>3 DEF AskMagisk, Step, Labels
      <3>2. PICK to \in {"open boot.sh", "boot.sh alone"} : Goto(s, to) /\ to \in Labels
        BY <3>1
      <3>3. QED
        BY <3>1, <3>2
    <2>4. CASE OpenHook(s)
      <3>1. cmd[s].pc = "open hook" /\ Goto(s, "write hook") /\ "write hook" \in Labels
        BY <2>4 DEF OpenHook, Step, Labels
      <3>2. QED
        BY <3>1
    <2>5. CASE WriteHook(s)
      BY <1>2, <2>5 DEF WriteHook, Used, Step, Labels
    <2>6. QED
      BY <2>1, <2>2, <2>3, <2>4, <2>5
  <1>4. CASE to = "failed"
    BY <1>1, <1>3, <1>4, Ends DEF EnableInv, Typed
  <1>5. CASE to # "failed"
    <2>1. /\ cmd' \in [Sessions -> Cmd] /\ \A t \in Sessions : t # s => cmd'[t] = cmd[t]
          /\ cmd'[s].pc = to /\ cmd'[s].op = cmd[s].op /\ cmd'[s].inst = i
          /\ cmd'[s].gui = cmd[s].gui /\ cmd'[s].disp = cmd[s].disp
      BY <1>2, <1>3, <1>5, GoesOn DEF EnableInv, Ended
    <2>2. Arguments(s) /\ Established(s)
      BY DEF EnableInv
    <2>3. Arguments(s)'
      BY <1>1, <1>2, <1>3, <1>5, <2>1, <2>2 DEF Arguments, Active, Ended, DispRead, UpKnown,
         GuiStaged, BootStaged, Hooked
    <2>4. Established(s)'
      BY <1>1, <1>2, <1>3, <1>5, <2>1, <2>2 DEF Established, UpStaged, DispRead, UpKnown,
         GuiStaged, BootStaged, Hooked
    <2>5. QED
      BY <1>1, <2>1, <2>3, <2>4, Focus DEF Typed, EnableInv
  <1>6. QED
    BY <1>4, <1>5

\* The steps with which a command ends.
LEMMA EndsKeep ==
  ASSUME NEW s \in Sessions, EnableInv, StageBootAlone(s) \/ Unhook(s) \/ Cut(s)
  PROVE  EnableInv'
  <1>1. /\ Active(s) /\ record' = record
        /\ Goto(s, "ok") \/ Goto(s, "failed")
    BY DEF StageBootAlone, Unhook, Cut, Step, Active, Ended, device
  <1>2. file' \in [Instances -> [Staged -> Bodies]]
    <2>1. CASE StageBootAlone(s)
      <3>1. PICK i \in Instances : cmd[s].inst = i
        BY <1>1 DEF EnableInv, Arguments
      <3>2. Content(s, "boot.sh") \in Bodies /\ "short" \in Bodies /\ "boot.sh" \in Staged
        BY DEF Content, Bodies, Staged
      <3>3. PICK c \in Bodies : Put(s, "boot.sh", c)
        BY <2>1, <3>2 DEF StageBootAlone
      <3>4. QED
        BY <3>1, <3>2, <3>3, Puts DEF EnableInv
    <2>2. CASE Unhook(s) \/ Cut(s)
      BY <2>2 DEF Unhook, Cut, EnableInv, Typed
    <2>3. QED
      BY <2>1, <2>2
  <1>3. QED
    BY <1>1, <1>2, Ends DEF EnableInv, Typed

\* A command begins when none is active.
LEMMA BeginKeeps ==
  ASSUME NEW s \in Sessions, EnableInv, Serial, Begin(s)
  PROVE  EnableInv'
  <1>1. PICK i \in Instances, o \in {"enable", "disable"}, g \in BOOLEAN :
          cmd' = [cmd EXCEPT ![s] =
                    [pc |-> IF o = "enable" THEN "open up.sh" ELSE "unhook",
                     op |-> o, inst |-> i, gui |-> g /\ o = "enable", disp |-> None]]
    BY DEF Begin
  <1>2. UNCHANGED <<file, record, hook, up>> /\ \A t \in Sessions : ~Active(t)
    BY DEF Begin, device, Busy
  <1>3. /\ cmd' \in [Sessions -> Cmd] /\ \A t \in Sessions : t # s => cmd'[t] = cmd[t]
        /\ cmd'[s].pc = (IF o = "enable" THEN "open up.sh" ELSE "unhook")
        /\ cmd'[s].op = o /\ cmd'[s].inst = i
    BY <1>1 DEF EnableInv, Typed, Cmd, Labels
  <1>4. Arguments(s)' /\ Established(s)'
    BY <1>3 DEF Arguments, Established, Active, Ended, UpStaged, DispRead, UpKnown,
       GuiStaged, BootStaged, Hooked
  <1>5. \A t \in Sessions : t # s => cmd'[t].pc \in Ended
    BY <1>2, <1>3 DEF Active
  <1>6. \A t \in Sessions : t # s => Arguments(t)' /\ Established(t)'
    BY <1>5 DEF Arguments, Established, Active, Ended, UpStaged, DispRead, UpKnown,
       GuiStaged, BootStaged, Hooked
  <1>7. QED
    BY <1>2, <1>3, <1>4, <1>5, <1>6 DEF EnableInv, Typed, Active

\* Other commands come between two of these, and a reboot ends them.
LEMMA OthersKeep ==
  ASSUME EnableInv, Serial, \A s \in Sessions : cmd'[s].pc \in Ended,
         cmd' \in [Sessions -> Cmd],
         file' \in [Instances -> [Staged -> Bodies]],
         record' \in [Instances -> Displays \cup {None}]
  PROVE  EnableInv'
  BY DEF EnableInv, Typed, Arguments, Established, Active, Ended, UpStaged, DispRead,
     UpKnown, GuiStaged, BootStaged, Hooked

LEMMA EnvironmentKeeps ==
  ASSUME EnableInv, Serial,
         \/ \E i \in Instances : GuiStart(i) \/ Down(i) \/ Install(i) \/ Remove(i)
         \/ Reboot
  PROVE  EnableInv'
  <1>1. Typed
    BY DEF EnableInv
  <1>2. CASE Reboot
    <2>1. /\ UNCHANGED <<file, record>>
          /\ cmd' = [s \in Sessions |-> IF Active(s) THEN NoCommand("failed") ELSE cmd[s]]
      BY <1>2 DEF Reboot
    <2>2. NoCommand("failed") \in Cmd /\ NoCommand("failed").pc = "failed"
      BY DEF NoCommand, Cmd, Labels, Ended
    <2>3. cmd' \in [Sessions -> Cmd] /\ \A s \in Sessions : cmd'[s].pc \in Ended
      BY <1>1, <2>1, <2>2 DEF Typed, Active, Ended
    <2>4. QED
      BY <1>1, <2>1, <2>3, OthersKeep DEF Typed
  <1>3. ASSUME NEW i \in Instances, GuiStart(i) \/ Down(i) \/ Install(i) \/ Remove(i)
        PROVE  EnableInv'
    <2>1. cmd' = cmd /\ ~Busy
      BY <1>3 DEF GuiStart, Down, Install, Remove, Quiet
    <2>2. cmd' \in [Sessions -> Cmd] /\ \A s \in Sessions : cmd'[s].pc \in Ended
      BY <1>1, <2>1 DEF Typed, Busy, Active
    <2>3. record' \in [Instances -> Displays \cup {None}]
      BY <1>1, <1>3 DEF Typed, GuiStart, Down, Install, Remove
    <2>4. file' \in [Instances -> [Staged -> Bodies]]
      <3>1. Blank \in [Staged -> Bodies]
        BY DEF Blank, Bodies
      <3>2. QED
        BY <1>1, <1>3, <3>1 DEF Typed, GuiStart, Down, Install, Remove
    <2>5. QED
      BY <2>2, <2>3, <2>4, OthersKeep
  <1>4. QED
    BY <1>2, <1>3

\* The boot and the user add to what is mounted, and change nothing else that is
\* relied on.
LEMMA BootKeeps ==
  ASSUME EnableInv, BootStep \/ Unlock \/ UNCHANGED vars
  PROVE  EnableInv'
  <1>1. UNCHANGED <<cmd, file, record, hook>> /\ up \subseteq up'
    BY DEF BootStep, WaitImage, RunUp, RunGui, Unlock, vars, device
  <1>2. \A s \in Sessions : Arguments(s)' /\ Established(s)'
    BY <1>1 DEF EnableInv, Arguments, Established, Active
  <1>3. QED
    BY <1>1, <1>2 DEF EnableInv, Typed, Active

LEMMA NextKeeps ==
  ASSUME EnableInv, Used, [Next]_vars
  PROVE  EnableInv'
  BY OpenKeeps, WriteKeeps, DisplayKeeps, MovesKeep, EndsKeep, BeginKeeps,
     EnvironmentKeeps, BootKeeps DEF Next, Command, Used

LEMMA InitKeeps == Init => EnableInv
  <1> SUFFICES ASSUME Init PROVE EnableInv
    OBVIOUS
  <1>1. Typed /\ \A s \in Sessions : cmd[s].pc = "failed"
    BY DEF Init, Typed, Cmd, NoCommand, Blank, Bodies, Labels, Ended
  <1>2. QED
    BY <1>1 DEF EnableInv, Arguments, Established, Active, Ended, UpStaged, DispRead,
       UpKnown, GuiStaged, BootStaged, Hooked

\* In used conditions what each step of enable relies on is there.
LEMMA Inductive ==
  ASSUME Used
  PROVE  Spec => []EnableInv
  <1>1. Init => EnableInv
    BY InitKeeps
  <1>2. EnableInv /\ [Next]_vars => EnableInv'
    BY NextKeeps
  <1>3. QED
    BY <1>1, <1>2, PTL DEF Spec

-----------------------------------------------------------------------------
\* Only writing the hook makes it an instance's.
LEMMA HooksLast ==
  ASSUME EnableInv, Used, [Next]_vars, NEW i \in Instances, hook' = i, hook # i
  PROVE  Boots(i)
  <1>1. PICK s \in Sessions : WriteHook(s)
    BY ConstantsAssumption DEF Next, vars, Begin, Command, Cut, OpenFile, WriteFile, ReadDisplay,
       Reading, EnsureUp, AskMagisk, StageBootAlone, OpenHook, Unhook, GuiStart, Down, Install,
       Remove, Reboot, Unlock, BootStep, WaitImage, RunUp, RunGui
  <1>2. cmd[s].inst = i /\ UNCHANGED file /\ cmd[s].pc = "write hook"
    BY <1>1 DEF WriteHook, Used, Step
  <1>3. cmd[s].disp \in Displays /\ Established(s)
    BY <1>2 DEF EnableInv, Arguments, DispRead, GuiStaged, BootStaged
  <1>4. QED
    BY <1>2, <1>3 DEF Boots, Established, UpStaged, DispRead, GuiStaged, BootStaged

\* The hook is pointed at an instance only when everything a boot of it runs is
\* staged, for any number of instances and displays, commands cut anywhere, lost
\* answers, removals and reboots, as long as one command runs at a time and the file
\* system has room (autostart.py:62-124).  What is done later to the files of the
\* instance the hook runs is left open.
THEOREM HookedLast ==
  ASSUME Used
  PROVE  Spec => HookLast
  <1>1. EnableInv /\ [Next]_vars =>
          [\A i \in Instances : hook' = i /\ hook # i => Boots(i)]_vars
    BY HooksLast
  <1>2. Spec => []EnableInv
    BY Inductive
  <1>3. QED
    BY <1>1, <1>2, PTL DEF Spec, HookLast

-----------------------------------------------------------------------------
\* A command reports success with one of two steps, of its own.
LEMMA Reports ==
  ASSUME EnableInv, Used, [Next]_vars, NEW s \in Sessions, Active(s), cmd'[s].pc = "ok"
  PROVE  Unhook(s) \/ WriteFile(s)
  <1>1. Typed /\ Busy /\ Serial /\ cmd[s].pc # "ok"
    BY DEF EnableInv, Busy, Used, Active, Ended
  <1>2. \A t \in Sessions : Active(t) => t = s
    BY DEF EnableInv
  <1>3. ASSUME NEW t \in Sessions, Begin(t) PROVE FALSE
    BY <1>1, <1>3 DEF Begin
  <1>4. ASSUME NEW t \in Sessions, Command(t) \/ Cut(t) PROVE t = s
    <2>1. Active(t)
      BY <1>4 DEF Command, Cut, OpenFile, WriteFile, ReadDisplay, Reading, EnsureUp,
         AskMagisk, StageBootAlone, OpenHook, WriteHook, Unhook, Step, Active, Ended,
         Staged, Opening, Writing
    <2>2. QED
      BY <1>2, <2>1
  <1>5. ASSUME NEW to \in Labels, Goto(s, to) PROVE to = "ok"
    BY <1>1, <1>5, GoesOn
  <1>6. ~Cut(s) /\ ~EnsureUp(s) /\ ~StageBootAlone(s) /\ ~OpenHook(s)
    BY <1>5 DEF Cut, EnsureUp, StageBootAlone, OpenHook, Step, Labels, Ended
  <1>7. ~WriteHook(s)
    BY <1>5 DEF WriteHook, Step, Labels, Ended
  <1>8. ~AskMagisk(s)
    <2>1. ~Goto(s, "open boot.sh") /\ ~Goto(s, "boot.sh alone")
      BY <1>5 DEF Labels
    <2>2. QED
      BY <2>1 DEF AskMagisk, Step
  <1>9. ~OpenFile(s)
    <2>1. \A f \in Staged : Writing(f) \in Labels /\ Writing(f) # "ok"
      BY DEF Writing, Staged, Labels
    <2>2. QED
      BY <1>5, <2>1 DEF OpenFile, Step
  <1>10. ~ReadDisplay(s)
    <2>1. ASSUME NEW d, Reading(s, d) PROVE FALSE
      <3>1. cmd'[s].pc \in {"ensure up", "magisk"}
        BY <1>1, <2>1 DEF Reading, Typed, Cmd
      <3>2. QED
        BY <3>1
    <2>2. QED
      BY <2>1 DEF ReadDisplay
  <1>11. cmd' # cmd
    BY <1>1
  <1>12. ~Reboot
    BY <1>1 DEF Reboot, NoCommand
  <1>13. ~(\E i \in Instances : GuiStart(i) \/ Down(i) \/ Install(i) \/ Remove(i))
    BY <1>11 DEF GuiStart, Down, Install, Remove
  <1>14. ~BootStep /\ ~Unlock /\ ~UNCHANGED vars
    BY <1>11 DEF BootStep, WaitImage, RunUp, RunGui, Unlock, vars
  <1>15. PICK t \in Sessions : Command(t) \/ Cut(t)
    BY <1>3, <1>12, <1>13, <1>14 DEF Next
  <1>16. QED
    BY <1>4, <1>6, <1>7, <1>8, <1>9, <1>10, <1>15 DEF Command

\* What has been reported is so: the last step of enable leaves one display in both
\* files, and disable no hook.
LEMMA ReportsTrue ==
  ASSUME EnableInv, Used, "deaf" \notin Faults, [Next]_vars, NEW s \in Sessions,
         Active(s), cmd'[s].pc = "ok"
  PROVE  IF cmd[s].op = "disable" THEN hook' = "absent"
         ELSE \E i \in Instances :
                /\ i = cmd[s].inst
                /\ hook' = i
                /\ Boots(i)'
                /\ SameDisplay(i)'
                /\ file'[i]["boot.sh"] = IF cmd[s].gui THEN "gui" ELSE "plain"
  <1>1. Typed /\ Arguments(s) /\ Established(s)
    BY DEF EnableInv
  <1>2. CASE Unhook(s)
    BY <1>1, <1>2 DEF Unhook, Step, Arguments
  <1>3. CASE WriteFile(s)
    <2>1. PICK f \in Staged : Step(s, Writing(f), After(s, f)) /\ Put(s, f, Content(s, f))
      BY <1>3 DEF WriteFile, Used
    <2>2. UNCHANGED <<hook, up>>
      BY <1>3 DEF WriteFile, device
    <2>3. After(s, f) \in Labels
      BY <2>1 DEF After, Labels, Ended, Staged
    <2>4. After(s, f) = "ok"
      BY <1>1, <2>1, <2>3, GoesOn DEF Step
    <2>5. f = "start" /\ cmd[s].pc = "write start"
      BY <2>1, <2>4 DEF After, Staged, Step, Writing
    <2>6. PICK i \in Instances : i = cmd[s].inst
      BY <1>1 DEF Arguments
    <2>7. cmd[s].disp \in Displays /\ cmd[s].op # "disable"
      BY <1>1, <2>5 DEF Arguments, DispRead, GuiStaged, BootStaged, Hooked
    <2>8. /\ file[i]["up.sh"] = "whole"
          /\ cmd[s].gui => file[i]["gui-start"] = cmd[s].disp
          /\ file[i]["boot.sh"] = IF cmd[s].gui THEN "gui" ELSE "plain"
          /\ hook = i
      BY <1>1, <2>5, <2>6 DEF Established, UpStaged, DispRead, GuiStaged, BootStaged, Hooked
    <2>9. /\ \A g \in Staged : g # "start" => file'[i][g] = file[i][g]
          /\ file'[i]["start"] = cmd[s].disp
      <3>1. Put(s, "start", cmd[s].disp) /\ cmd[s].disp \in Bodies /\ "start" \in Staged
        BY <2>1, <2>5, <2>7 DEF Content, Bodies
      <3>2. QED
        BY <1>1, <2>6, <3>1, Puts
    <2>10. Boots(i)' /\ SameDisplay(i)'
      BY <2>7, <2>8, <2>9 DEF Boots, SameDisplay, Staged
    <2>11. file'[i]["boot.sh"] = IF cmd[s].gui THEN "gui" ELSE "plain"
      BY <2>8, <2>9 DEF Staged
    <2>12. QED
      BY <2>2, <2>6, <2>7, <2>8, <2>10, <2>11
  <1>4. QED
    BY <1>2, <1>3, Reports

\* A command that reports success did what it says, for any number of instances
\* and displays, commands cut anywhere, removals and reboots, as long as one
\* command runs at a time, the file system has room and answers arrive
\* (autostart.py:40, 156).
THEOREM ReportedTrue ==
  ASSUME Used, "deaf" \notin Faults
  PROVE  Spec => OkIsTrue
  <1>1. EnableInv /\ [Next]_vars =>
          [\A s \in Sessions : Active(s) /\ cmd'[s].pc = "ok" =>
             IF cmd[s].op = "disable" THEN hook' = "absent"
             ELSE \E i \in Instances :
                    /\ i = cmd[s].inst
                    /\ hook' = i
                    /\ Boots(i)'
                    /\ SameDisplay(i)'
                    /\ file'[i]["boot.sh"] = IF cmd[s].gui THEN "gui" ELSE "plain"]_vars
    BY ReportsTrue
  <1>2. Spec => []EnableInv
    BY Inductive
  <1>3. QED
    BY <1>1, <1>2, PTL DEF Spec, OkIsTrue

-----------------------------------------------------------------------------
(* Types.                                                                  *)

\* What a staged file may hold.
Holds(f) == CASE f = "up.sh"     -> {"absent", "short", "whole"}
              [] f = "boot.sh"   -> {"absent", "short", "gui", "plain"}
              [] f = "gui-start" -> {"absent", "short"} \cup Displays
              [] f = "start"     -> {"absent", "short"} \cup Displays

FilesOK == \A i \in Instances, f \in Staged : file[i][f] \in Holds(f)

DeviceOK ==
  /\ magisk \in BOOLEAN /\ unlocked \in BOOLEAN
  /\ up \subseteq image /\ image \subseteq Instances
  /\ desk \in [Instances -> Displays \cup {None}]

HookOK == hook \in Instances \cup {"absent", "short"}

BootOK ==
  /\ boot = [step |-> boot.step, inst |-> boot.inst, gui |-> boot.gui, tries |-> boot.tries,
             due |-> boot.due]
  /\ boot.step \in {"off", "wait", "up", "gui"}
  /\ boot.tries \in 0..MaxTries
  /\ boot.step # "off" => boot.inst \in Instances

\* TypeOK, and what it takes of the commands' arguments.
TypeInv == /\ Typed /\ FilesOK /\ DeviceOK /\ HookOK /\ BootOK
           /\ \A s \in Sessions : Arguments(s)

LEMMA TypeParts ==
  ASSUME TypeInv
  PROVE  TypeOK
  <1>1. ASSUME NEW i \in Instances
        PROVE  /\ DOMAIN file[i] = Staged
               /\ file[i]["up.sh"] \in {"absent", "short", "whole"}
               /\ file[i]["boot.sh"] \in {"absent", "short", "gui", "plain"}
               /\ file[i]["gui-start"] \in {"absent", "short"} \cup Displays
               /\ file[i]["start"] \in {"absent", "short"} \cup Displays
    <2>1. \A f \in Staged : file[i][f] \in Holds(f)
      BY DEF TypeInv, FilesOK
    <2>2. DOMAIN file[i] = Staged
      BY DEF TypeInv, Typed
    <2>3. QED
      BY <2>1, <2>2 DEF Holds, Staged
  <1>2. QED
    BY <1>1 DEF TypeInv, Typed, DeviceOK, HookOK, BootOK, TypeOK

\* The next step of a command has the arguments of the last one.
LEMMA StepArguments ==
  ASSUME TypeInv, NEW s \in Sessions, NEW to \in Labels, Goto(s, to), Active(s),
         to \notin Ended => cmd[s].pc # "unhook" /\ to # "unhook",
         to \in DispRead => cmd[s].pc \in DispRead
  PROVE  cmd' \in [Sessions -> Cmd] /\ \A t \in Sessions : Arguments(t)'
  <1>1. /\ cmd' \in [Sessions -> Cmd] /\ cmd'[s].pc = to
        /\ \A t \in Sessions : t # s => cmd'[t] = cmd[t]
        /\ to \notin Ended => /\ cmd'[s].op = cmd[s].op
                              /\ cmd'[s].inst = cmd[s].inst
                              /\ cmd'[s].disp = cmd[s].disp
    BY GoesOn DEF TypeInv
  <1>2. Arguments(s)'
    BY <1>1 DEF TypeInv, Arguments, Active, Ended, DispRead, UpKnown, GuiStaged, BootStaged, Hooked
  <1>3. \A t \in Sessions : t # s => Arguments(t)'
    BY <1>1 DEF TypeInv, Arguments, Active
  <1>4. QED
    BY <1>1, <1>2, <1>3

\* A file that is written holds what it may, and the others what they did.
LEMMA PutTyped ==
  ASSUME TypeInv, NEW s \in Sessions, Active(s), NEW f \in Staged, NEW c \in Holds(f), Put(s, f, c)
  PROVE  FilesOK' /\ file' \in [Instances -> [Staged -> Bodies]]
  <1>1. c \in Bodies
    BY DEF Holds, Staged, Bodies
  <1>2. file \in [Instances -> [Staged -> Bodies]] /\ cmd[s].inst \in Instances
    BY DEF TypeInv, Typed, Arguments
  <1>3. QED
    BY <1>1, <1>2 DEF Put, TypeInv, FilesOK

LEMMA FileTyped ==
  ASSUME TypeInv, NEW s \in Sessions, NEW f \in Staged, NEW c \in Holds(f), Put(s, f, c),
         NEW to \in Labels, Goto(s, to), Active(s),
         to \notin Ended => cmd[s].pc # "unhook" /\ to # "unhook",
         to \in DispRead => cmd[s].pc \in DispRead,
         UNCHANGED <<magisk, device, hook, boot, unlocked>>
  PROVE  TypeInv'
  <1>1. FilesOK' /\ file' \in [Instances -> [Staged -> Bodies]]
    BY PutTyped
  <1>2. cmd' \in [Sessions -> Cmd] /\ \A t \in Sessions : Arguments(t)'
    BY StepArguments
  <1>3. QED
    BY <1>1, <1>2 DEF TypeInv, Typed, DeviceOK, HookOK, BootOK, device

LEMMA OpenTyped ==
  ASSUME TypeInv, NEW s \in Sessions, OpenFile(s)
  PROVE  TypeInv'
  <1>1. PICK f \in Staged : Step(s, Opening(f), Writing(f)) /\ Put(s, f, "short")
    BY DEF OpenFile
  <1>2. "short" \in Holds(f)
    BY DEF Holds, Staged
  <1>3. /\ cmd[s].pc = Opening(f) /\ Goto(s, Writing(f)) /\ Writing(f) \in Labels /\ Active(s)
        /\ Writing(f) \in DispRead => Opening(f) \in DispRead
        /\ Opening(f) # "unhook" /\ Writing(f) # "unhook"
    BY <1>1 DEF Step, Opening, Writing, Staged, Labels, Active, Ended, DispRead, UpKnown,
       GuiStaged, BootStaged, Hooked
  <1>4. QED
    BY <1>1, <1>2, <1>3, FileTyped DEF OpenFile

LEMMA WriteTyped ==
  ASSUME TypeInv, NEW s \in Sessions, WriteFile(s)
  PROVE  TypeInv'
  <1>1. PICK f \in Staged, full \in BOOLEAN :
          /\ Step(s, Writing(f), IF full /\ f = "start" THEN "failed" ELSE After(s, f))
          /\ Put(s, f, IF full THEN "short" ELSE Content(s, f))
    BY DEF WriteFile
  <1>2. PICK to : /\ to = (IF full /\ f = "start" THEN "failed" ELSE After(s, f))
                  /\ Goto(s, to) /\ cmd[s].pc = Writing(f)
    BY <1>1 DEF Step
  <1>3. /\ to \in Labels /\ Active(s) /\ Writing(f) # "unhook" /\ to # "unhook"
        /\ to \in DispRead => cmd[s].pc \in DispRead
        /\ f \in {"gui-start", "start"} => cmd[s].pc \in DispRead
    BY <1>2 DEF Writing, After, Staged, Labels, Active, Ended, DispRead, UpKnown, GuiStaged,
       BootStaged, Hooked
  <1>4. (IF full THEN "short" ELSE Content(s, f)) \in Holds(f)
    BY <1>3 DEF TypeInv, Arguments, Content, Holds, Staged
  <1>5. QED
    BY <1>1, <1>2, <1>3, <1>4, FileTyped DEF WriteFile

LEMMA AloneTyped ==
  ASSUME TypeInv, NEW s \in Sessions, StageBootAlone(s)
  PROVE  TypeInv'
  <1>1. /\ Active(s) /\ Goto(s, "failed") /\ "failed" \in Labels
        /\ {"failed"} \subseteq Ended /\ "failed" \notin DispRead
    BY DEF StageBootAlone, Step, Active, Ended, Labels, DispRead, UpKnown, GuiStaged,
       BootStaged, Hooked
  <1>2. PICK c \in {Content(s, "boot.sh"), "short"} : Put(s, "boot.sh", c)
    BY DEF StageBootAlone
  <1>3. c \in Holds("boot.sh") /\ "boot.sh" \in Staged
    BY DEF Content, Holds, Staged
  <1>4. QED
    BY <1>1, <1>2, <1>3, FileTyped DEF StageBootAlone

LEMMA ReadTyped ==
  ASSUME TypeInv, NEW s \in Sessions, ReadDisplay(s)
  PROVE  TypeInv'
  <1>1. cmd[s].pc = "display" /\ Active(s) /\ cmd[s].inst \in Instances
    BY DEF ReadDisplay, Reading, Active, Ended, TypeInv, Arguments
  <1>2. PICK d \in Displays : Reading(s, d)
    <2>1. record[cmd[s].inst] \in Displays \cup {None}
      BY <1>1 DEF TypeInv, Typed
    <2>2. QED
      BY <1>1, <2>1, ConstantsAssumption DEF ReadDisplay
  <1>3. /\ cmd' = [cmd EXCEPT ![s].pc = IF cmd[s].gui THEN "ensure up" ELSE "magisk",
                            ![s].disp = d]
        /\ cmd \in [Sessions -> Cmd]
    BY <1>2 DEF TypeInv, Typed, Reading
  <1>4. /\ cmd' \in [Sessions -> Cmd] /\ \A t \in Sessions : t # s => cmd'[t] = cmd[t]
        /\ cmd'[s].pc = IF cmd[s].gui THEN "ensure up" ELSE "magisk"
        /\ cmd'[s].op = cmd[s].op /\ cmd'[s].inst = cmd[s].inst /\ cmd'[s].disp = d
    BY <1>3 DEF Cmd, Labels, Ended
  <1>5. ASSUME NEW t \in Sessions PROVE Arguments(t)'
    BY <1>1, <1>4 DEF TypeInv, Arguments, Active, Ended
  <1>6. QED
    BY <1>2, <1>4, <1>5 DEF Reading, device, TypeInv, Typed, FilesOK, DeviceOK, HookOK, BootOK

LEMMA MoveTyped ==
  ASSUME TypeInv, NEW s \in Sessions,
         EnsureUp(s) \/ AskMagisk(s) \/ OpenHook(s) \/ WriteHook(s) \/ Unhook(s) \/ Cut(s)
  PROVE  TypeInv'
  <1>1. /\ Active(s) /\ UNCHANGED <<file, record, boot>>
        /\ cmd[s].inst \in Instances
    BY DEF EnsureUp, AskMagisk, OpenHook, WriteHook, Unhook, Cut, Step, Active, Ended, device,
       TypeInv, Arguments
  <1>2. PICK to \in {"open gui-start", "failed", "open boot.sh", "boot.sh alone", "write hook",
                     "open start", "ok"} :
          /\ Goto(s, to)
          /\ to \notin {"failed", "ok"} =>
               cmd[s].pc \in {"ensure up", "magisk", "open hook", "write hook"}
    BY DEF EnsureUp, AskMagisk, OpenHook, WriteHook, Unhook, Cut, Step
  <1>3. /\ to \in Labels /\ to # "unhook"
        /\ to \notin Ended => to \notin {"failed", "ok"} /\ cmd[s].pc # "unhook"
        /\ to \in DispRead => cmd[s].pc \in DispRead
    BY <1>2 DEF Labels, Ended, DispRead, UpKnown, GuiStaged, BootStaged, Hooked
  <1>4. cmd' \in [Sessions -> Cmd] /\ \A t \in Sessions : Arguments(t)'
    BY <1>1, <1>2, <1>3, StepArguments
  <1>5. DeviceOK' /\ HookOK'
    BY <1>1 DEF EnsureUp, AskMagisk, OpenHook, WriteHook, Unhook, Cut, TypeInv, DeviceOK, HookOK,
       device
  <1>6. QED
    BY <1>1, <1>4, <1>5 DEF TypeInv, Typed, FilesOK, BootOK

LEMMA BeginTyped ==
  ASSUME TypeInv, NEW s \in Sessions, Begin(s)
  PROVE  TypeInv'
  <1>1. PICK i \in Instances, o \in {"enable", "disable"}, g \in BOOLEAN :
          cmd' = [cmd EXCEPT ![s] =
                    [pc |-> IF o = "enable" THEN "open up.sh" ELSE "unhook",
                     op |-> o, inst |-> i, gui |-> g /\ o = "enable", disp |-> None]]
    BY DEF Begin
  <1>2. /\ cmd' \in [Sessions -> Cmd] /\ \A t \in Sessions : t # s => cmd'[t] = cmd[t]
        /\ cmd'[s].pc = (IF o = "enable" THEN "open up.sh" ELSE "unhook")
        /\ cmd'[s].op = o /\ cmd'[s].inst = i
    BY <1>1 DEF TypeInv, Typed, Cmd, Labels
  <1>3. ASSUME NEW t \in Sessions PROVE Arguments(t)'
    BY <1>2 DEF TypeInv, Arguments, Active, Ended, DispRead, UpKnown, GuiStaged, BootStaged, Hooked
  <1>4. QED
    BY <1>2, <1>3 DEF Begin, device, TypeInv, Typed, FilesOK, DeviceOK, HookOK, BootOK

LEMMA OthersTyped ==
  ASSUME TypeInv, NEW i \in Instances, GuiStart(i) \/ Down(i) \/ Install(i) \/ Remove(i)
  PROVE  TypeInv'
  <1>1. UNCHANGED <<cmd, boot, hook, magisk, unlocked>>
    BY DEF GuiStart, Down, Install, Remove
  <1>2. DeviceOK' /\ record' \in [Instances -> Displays \cup {None}]
    BY DEF GuiStart, Down, Install, Remove, TypeInv, Typed, DeviceOK
  <1>3. FilesOK' /\ file' \in [Instances -> [Staged -> Bodies]]
    <2>1. Blank \in [Staged -> Bodies] /\ \A f \in Staged : Blank[f] \in Holds(f)
      BY DEF Blank, Bodies, Holds, Staged
    <2>2. QED
      BY <2>1 DEF GuiStart, Down, Install, Remove, TypeInv, Typed, FilesOK
  <1>4. \A s \in Sessions : Arguments(s)'
    BY <1>1 DEF TypeInv, Arguments, Active
  <1>5. QED
    BY <1>1, <1>2, <1>3, <1>4 DEF TypeInv, Typed, HookOK, BootOK

LEMMA RebootTyped ==
  ASSUME TypeInv, Reboot
  PROVE  TypeInv'
  <1>1. UNCHANGED <<file, hook, record>> /\ DeviceOK'
    BY DEF Reboot, TypeInv, DeviceOK
  <1>2. cmd' = [s \in Sessions |-> IF Active(s) THEN NoCommand("failed") ELSE cmd[s]]
    BY DEF Reboot
  <1>3. NoCommand("failed") \in Cmd
    BY DEF NoCommand, Cmd, Labels, Ended
  <1>4. cmd' \in [Sessions -> Cmd]
    BY <1>2, <1>3 DEF TypeInv, Typed
  <1>5. ASSUME NEW s \in Sessions PROVE Arguments(s)'
    BY <1>2 DEF NoCommand, TypeInv, Arguments, Active, Ended, DispRead, UpKnown, GuiStaged,
       BootStaged, Hooked
  <1>6. BootOK'
    <2>1. \/ boot' = Idle
          \/ \E g \in BOOLEAN : /\ hook \in Instances
                                /\ boot' = [step |-> "wait", inst |-> hook, tries |-> MaxTries,
                                            gui |-> g, due |-> promise]
      BY DEF Reboot
    <2>2. QED
      BY <2>1, ConstantsAssumption DEF BootOK, Idle
  <1>7. QED
    BY <1>1, <1>4, <1>5, <1>6 DEF TypeInv, Typed, FilesOK, HookOK

LEMMA BootTyped ==
  ASSUME TypeInv, BootStep \/ Unlock \/ UNCHANGED vars
  PROVE  TypeInv'
  <1>1. UNCHANGED <<file, hook, record, cmd, image, magisk>>
    BY DEF BootStep, WaitImage, RunUp, RunGui, Unlock, vars, device
  <1>2. DeviceOK'
    BY DEF BootStep, WaitImage, RunUp, RunGui, Unlock, vars, device, TypeInv, DeviceOK
  <1>3. \/ boot' = Idle \/ boot' = boot
        \/ boot' = [boot EXCEPT !.tries = @ - 1] /\ boot.step = "wait" /\ boot.tries > 0
        \/ boot' = [boot EXCEPT !.step = "up"] /\ boot.step = "wait"
        \/ boot' = [boot EXCEPT !.step = "gui"] /\ boot.step = "up"
    BY DEF BootStep, WaitImage, RunUp, RunGui, Unlock, vars
  <1>4. BootOK'
    BY <1>3, ConstantsAssumption DEF TypeInv, BootOK, Idle
  <1>5. \A s \in Sessions : Arguments(s)'
    BY <1>1 DEF TypeInv, Arguments, Active
  <1>6. QED
    BY <1>1, <1>2, <1>4, <1>5 DEF TypeInv, Typed, FilesOK, HookOK

LEMMA TypeInit == Init => TypeInv
  <1> SUFFICES ASSUME Init PROVE TypeInv
    OBVIOUS
  <1>1. Typed /\ \A s \in Sessions : cmd[s].pc = "failed"
    BY DEF Init, Typed, Cmd, NoCommand, Blank, Bodies, Labels, Ended
  <1>2. FilesOK
    BY DEF Init, FilesOK, Blank, Holds, Staged
  <1>3. DeviceOK /\ HookOK /\ BootOK
    BY ConstantsAssumption DEF Init, DeviceOK, HookOK, BootOK, Idle
  <1>4. QED
    BY <1>1, <1>2, <1>3 DEF TypeInv, Arguments, Active, Ended, DispRead, UpKnown, GuiStaged,
       BootStaged, Hooked

LEMMA TypeNext == TypeInv /\ [Next]_vars => TypeInv'
  BY OpenTyped, WriteTyped, AloneTyped, ReadTyped, MoveTyped, BeginTyped, OthersTyped, RebootTyped,
     BootTyped DEF Next, Command

\* Every reachable state is well typed, whatever commands run at once and are cut, on a
\* full file system, with answers lost: no script is ever staged without a display
\* (autostart.py:64).
THEOREM AutostartTyped == Spec => []TypeOK
  <1>1. TypeInv => TypeOK
    BY TypeParts
  <1>2. QED
    BY <1>1, TypeInit, TypeNext, PTL DEF Spec

-----------------------------------------------------------------------------
(* What a reboot brings about.                                             *)

\* The hook and the files behind a promise that stands: nothing has touched them.
Kept ==
  promise # None =>
    \E i \in Instances :
      /\ promise.inst = i /\ hook = i /\ ~Busy
      /\ promise.plan \in Displays \cup {"plain"}
      /\ file[i]["up.sh"] = "whole"
      /\ IF promise.plan = "plain" THEN file[i]["boot.sh"] = "plain"
         ELSE file[i]["boot.sh"] = "gui" /\ file[i]["gui-start"] = promise.plan

\* A boot under way runs what was promised when the device booted.
Underway ==
  boot.step # "off" =>
    /\ boot.step = "gui" => boot.gui
    /\ boot.due # None => boot.inst = boot.due.inst /\ (boot.gui <=> boot.due.plan # "plain")

PromiseInv == EnableInv /\ TypeInv /\ Kept /\ Underway

\* No step of a command but the last of an enable touches the boot or a promise, and
\* while a promise stands there is no command.
LEMMA CommandsPromise ==
  ASSUME PromiseInv, Used, NEW s \in Sessions, Command(s) \/ Cut(s)
  PROVE  PromiseInv'
  <1>1. EnableInv' /\ TypeInv' /\ Typed /\ Underway'
    BY NextKeeps, TypeNext DEF Next, PromiseInv, EnableInv, Command, Cut, OpenFile, WriteFile, ReadDisplay,
       Reading, EnsureUp, AskMagisk, StageBootAlone, OpenHook, WriteHook, Unhook, Underway
  <1>2. Active(s) /\ Busy
    BY DEF Command, Cut, OpenFile, WriteFile, ReadDisplay, Reading, EnsureUp, AskMagisk,
       StageBootAlone, OpenHook, WriteHook, Unhook, Step, Staged, Opening, Writing, Active, Ended, Busy
  <1>3. promise = None
    BY <1>2 DEF PromiseInv, Kept
  <1>4. CASE ~WriteFile(s)
    <2>1. promise' = promise
      BY <1>4 DEF Command, Cut, OpenFile, ReadDisplay, Reading, EnsureUp, AskMagisk,
         StageBootAlone, OpenHook, WriteHook, Unhook
    <2>2. QED
      BY <1>1, <1>3, <2>1 DEF PromiseInv, Kept
  <1>5. CASE WriteFile(s)
    <2>1. PICK f \in Staged :
            /\ Step(s, Writing(f), After(s, f)) /\ Put(s, f, Content(s, f))
            /\ promise' = IF f = "start"
                            THEN [inst |-> cmd[s].inst,
                                  plan |-> Plan(IF cmd[s].gui THEN cmd[s].disp ELSE None)]
                            ELSE promise
      BY <1>5 DEF WriteFile, Used
    <2>2. CASE f # "start"
      BY <1>1, <1>3, <2>1, <2>2 DEF PromiseInv, Kept
    <2>3. CASE f = "start"
      <3>1. cmd[s].pc = "write start" /\ Goto(s, "ok") /\ hook' = hook
        BY <1>5, <2>1, <2>3 DEF Step, Writing, After, WriteFile
      <3>2. PICK i \in Instances : i = cmd[s].inst
        BY <1>2 DEF PromiseInv, EnableInv, Arguments
      <3>3. /\ file[i]["up.sh"] = "whole" /\ hook = i /\ cmd[s].disp \in Displays
            /\ cmd[s].gui => file[i]["gui-start"] = cmd[s].disp
            /\ file[i]["boot.sh"] = IF cmd[s].gui THEN "gui" ELSE "plain"
        BY <3>1, <3>2 DEF PromiseInv, EnableInv, Arguments, Established, UpStaged, DispRead,
           GuiStaged, BootStaged, Hooked
      <3>4. \A g \in Staged : g # "start" => file'[i][g] = file[i][g]
        BY <1>1, <2>1, <2>3, <3>2, <3>3, Puts DEF Content, Bodies
      <3>5. ~Busy'
        <4>1. cmd'[s].pc \in Ended /\ \A t \in Sessions : t # s => cmd'[t] = cmd[t]
          BY <1>1, <3>1, GoesOn DEF Labels, Ended
        <4>2. QED
          BY <1>2, <4>1 DEF PromiseInv, EnableInv, Busy, Active
      <3>6. /\ promise'.inst = i
            /\ promise'.plan = IF cmd[s].gui THEN cmd[s].disp ELSE "plain"
        BY <2>1, <2>3, <3>2, <3>3, ConstantsAssumption DEF Plan
      <3>7. "plain" \notin Displays
        BY ConstantsAssumption
      <3>8. Kept'
        BY <3>1, <3>3, <3>4, <3>5, <3>6, <3>7 DEF Kept, Staged
      <3>9. QED
        BY <1>1, <3>8 DEF PromiseInv
    <2>4. QED
      BY <2>2, <2>3
  <1>6. QED
    BY <1>4, <1>5

LEMMA BeginPromise ==
  ASSUME PromiseInv, Used, NEW s \in Sessions, Begin(s)
  PROVE  PromiseInv'
  BY NextKeeps, TypeNext DEF Next, PromiseInv, Begin, Kept, Underway

\* Other commands leave the boot files alone; a removal takes the promise with them.
LEMMA OthersPromise ==
  ASSUME PromiseInv, Used, NEW i \in Instances, GuiStart(i) \/ Down(i) \/ Install(i) \/ Remove(i)
  PROVE  PromiseInv'
  <1>1. EnableInv' /\ TypeInv' /\ Typed
    BY NextKeeps, TypeNext DEF Next, PromiseInv, EnableInv
  <1>2. UNCHANGED <<boot, hook, cmd>>
    BY DEF GuiStart, Down, Install, Remove
  <1>3. promise' # None => /\ promise' = promise
                           /\ promise.inst # i \/ file' = file
    BY DEF GuiStart, Down, Install, Remove
  <1>4. \A j \in Instances : j # i => file'[j] = file[j]
    BY <1>1 DEF GuiStart, Down, Install, Remove, Typed
  <1>5. Kept'
    BY <1>2, <1>3, <1>4 DEF PromiseInv, Kept, Busy, Active
  <1>6. QED
    BY <1>1, <1>2, <1>5 DEF PromiseInv, Underway

\* The boot starts with the hook and the body of boot.sh as they are.
LEMMA RebootPromise ==
  ASSUME PromiseInv, Used, Reboot
  PROVE  PromiseInv'
  <1>1. EnableInv' /\ TypeInv' /\ UNCHANGED <<file, hook, promise>>
    BY NextKeeps, TypeNext DEF Next, PromiseInv, Reboot
  <1>2. ~Busy'
    BY DEF Reboot, NoCommand, Busy, Active, Ended, PromiseInv, EnableInv, Typed
  <1>3. Kept'
    BY <1>1, <1>2 DEF PromiseInv, Kept
  <1>4. ASSUME boot' # Idle, promise # None
        PROVE  /\ boot'.step = "wait" /\ boot'.due = promise
               /\ boot'.inst = promise.inst /\ (boot'.gui <=> promise.plan # "plain")
    <2>1. PICK i \in Instances :
            /\ promise.inst = i /\ hook = i
            /\ file[i]["boot.sh"] = IF promise.plan = "plain" THEN "plain" ELSE "gui"
      BY <1>4 DEF PromiseInv, Kept
    <2>2. boot' = [step |-> "wait", inst |-> i, tries |-> MaxTries,
                   gui |-> file[i]["boot.sh"] = "gui", due |-> promise]
      BY <1>4, <2>1 DEF Reboot
    <2>3. QED
      BY <2>1, <2>2
  <1>5. \/ boot' = Idle
        \/ /\ boot'.step = "wait" /\ boot'.due = promise
           /\ \E i, g : boot' = [step |-> "wait", inst |-> i, gui |-> g, tries |-> MaxTries,
                                due |-> promise]
    BY DEF Reboot
  <1>6. Underway'
    BY <1>4, <1>5 DEF Underway, Idle
  <1>7. QED
    BY <1>1, <1>3, <1>6 DEF PromiseInv

\* On its way a boot keeps its instance, its branch and what it is due to do.
LEMMA BootPromise ==
  ASSUME PromiseInv, Used, BootStep \/ Unlock \/ UNCHANGED vars
  PROVE  PromiseInv'
  <1>1. EnableInv' /\ TypeInv' /\ UNCHANGED <<file, hook, promise, cmd>>
    BY NextKeeps, TypeNext
       DEF Next, PromiseInv, BootStep, WaitImage, RunUp, RunGui, Unlock, vars
  <1>2. Kept'
    BY <1>1 DEF PromiseInv, Kept, Busy, Active
  <1>3. \/ boot' = Idle \/ boot' = boot
        \/ boot' = [boot EXCEPT !.tries = @ - 1] /\ boot.step = "wait"
        \/ boot' = [boot EXCEPT !.step = "up"] /\ boot.step = "wait"
        \/ boot' = [boot EXCEPT !.step = "gui"] /\ boot.step = "up" /\ boot.gui
    BY DEF BootStep, WaitImage, RunUp, RunGui, Unlock, vars
  <1>4. Underway'
    BY <1>3 DEF PromiseInv, TypeInv, BootOK, Underway, Idle
  <1>5. QED
    BY <1>1, <1>2, <1>4 DEF PromiseInv

LEMMA PromiseNext ==
  ASSUME PromiseInv, Used, [Next]_vars
  PROVE  PromiseInv'
  BY CommandsPromise, BeginPromise, OthersPromise, RebootPromise, BootPromise DEF Next

LEMMA PromiseInit == Init => PromiseInv
  BY InitKeeps, TypeInit DEF Init, PromiseInv, Kept, Underway, Idle

\* Only the boot's own steps and the next reboot change it.
LEMMA BootMoves ==
  ASSUME [Next]_vars, boot' # boot
  PROVE  Reboot \/ BootStep
  BY DEF Next, vars, Begin, Command, Cut, OpenFile, WriteFile, ReadDisplay, Reading, EnsureUp,
     AskMagisk, StageBootAlone, OpenHook, WriteHook, Unhook, GuiStart, Down, Install, Remove, Unlock

LEMMA Delivers ==
  ASSUME PromiseInv, Used, [Next]_vars
  PROVE  /\ Reboot /\ promise # None => boot'.step = "wait" /\ boot'.inst = promise.inst
         /\ Due /\ boot.step = "wait" /\ unlocked => boot'.step # "off"
         /\ Due /\ boot.step = "up" /\ boot'.step # "up" =>
              /\ boot.inst \in up'
              /\ boot.due.plan # "plain" => boot'.step = "gui"
         /\ Due /\ boot.step = "gui" /\ boot'.step # "gui" /\ boot.inst \in up =>
              desk'[boot.inst] = IF desk[boot.inst] = None THEN boot.due.plan
                                 ELSE desk[boot.inst]
  <1>1. ASSUME Reboot, promise # None
        PROVE  boot'.step = "wait" /\ boot'.inst = promise.inst
    <2>1. PICK i \in Instances :
            /\ promise.inst = i /\ hook = i
            /\ file[i]["boot.sh"] = IF promise.plan = "plain" THEN "plain" ELSE "gui"
      BY <1>1 DEF PromiseInv, Kept
    <2>2. boot' = [step |-> "wait", inst |-> i, tries |-> MaxTries,
                   gui |-> file[i]["boot.sh"] = "gui", due |-> promise]
      BY <1>1, <2>1 DEF Reboot
    <2>3. QED
      BY <2>1, <2>2
  <1>2. ASSUME Due, boot.step # "off"
        PROVE  /\ boot.inst \in Instances /\ boot.inst \in image /\ ~Reboot
               /\ file[boot.inst]["up.sh"] = "whole"
               /\ boot.gui <=> boot.due.plan # "plain"
               /\ boot.due.plan # "plain" =>
                    boot.due.plan \in Displays /\ file[boot.inst]["gui-start"] = boot.due.plan
    BY <1>2 DEF Due, PromiseInv, Kept, Underway, Reboot
  <1>3. ASSUME Due, boot.step = "wait", unlocked PROVE boot'.step # "off"
    <2>1. boot' # boot => WaitImage
      BY <1>2, <1>3, BootMoves DEF BootStep, RunUp, RunGui
    <2>2. boot' # boot => boot' = [boot EXCEPT !.step = "up"]
      BY <1>2, <1>3, <2>1 DEF WaitImage
    <2>3. QED
      BY <1>3, <2>2 DEF PromiseInv, TypeInv, BootOK
  <1>4. ASSUME Due, boot.step = "up", boot'.step # "up"
        PROVE  /\ boot.inst \in up'
               /\ boot.due.plan # "plain" => boot'.step = "gui"
    <2>1. RunUp
      BY <1>2, <1>4, BootMoves DEF BootStep, WaitImage, RunGui
    <2>2. /\ up' = up \cup {boot.inst}
          /\ boot' = IF boot.gui THEN [boot EXCEPT !.step = "gui"] ELSE Idle
      BY <1>2, <1>4, <2>1 DEF RunUp
    <2>3. QED
      BY <1>2, <1>4, <2>2 DEF PromiseInv, TypeInv, BootOK
  <1>5. ASSUME Due, boot.step = "gui", boot'.step # "gui", boot.inst \in up
        PROVE  desk'[boot.inst] = IF desk[boot.inst] = None THEN boot.due.plan
                                  ELSE desk[boot.inst]
    <2>1. RunGui
      BY <1>2, <1>5, BootMoves DEF BootStep, WaitImage, RunUp
    <2>2. boot.due.plan \in Displays /\ file[boot.inst]["gui-start"] = boot.due.plan
      BY <1>2, <1>5 DEF PromiseInv, Underway, Due
    <2>3. desk' = IF desk[boot.inst] = None THEN [desk EXCEPT ![boot.inst] = boot.due.plan]
                  ELSE desk
      BY <1>5, <2>1, <2>2, ConstantsAssumption DEF RunGui
    <2>4. QED
      BY <1>2, <1>5, <2>3 DEF PromiseInv, TypeInv, DeviceOK
  <1>6. QED
    BY <1>1, <1>3, <1>4, <1>5

\* A reboot brings about what the last successful enable promised, for any number of
\* instances and displays, whatever commands, cut ones and removals included, came
\* before it, as long as one command runs at a time and the file system has room
\* (boot.sh:24-74).
THEOREM BootsDeliver ==
  ASSUME Used
  PROVE  Spec => BootDelivers
  <1>1. Init => PromiseInv
    BY PromiseInit
  <1>2. PromiseInv /\ [Next]_vars => PromiseInv'
    BY PromiseNext
  <1>3. PromiseInv /\ [Next]_vars =>
          [/\ Reboot /\ promise # None => boot'.step = "wait" /\ boot'.inst = promise.inst
           /\ Due /\ boot.step = "wait" /\ unlocked => boot'.step # "off"
           /\ Due /\ boot.step = "up" /\ boot'.step # "up" =>
                /\ boot.inst \in up'
                /\ boot.due.plan # "plain" => boot'.step = "gui"
           /\ Due /\ boot.step = "gui" /\ boot'.step # "gui" /\ boot.inst \in up =>
                desk'[boot.inst] = IF desk[boot.inst] = None THEN boot.due.plan
                                   ELSE desk[boot.inst]]_vars
    BY Delivers
  <1>4. QED
    BY <1>1, <1>2, <1>3, PTL DEF Spec, BootDelivers
=============================================================================
