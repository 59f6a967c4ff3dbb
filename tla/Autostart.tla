----------------------------- MODULE Autostart -----------------------------
(***************************************************************************)
(* What `autostart enable` stages on the device, step by step, and what a  *)
(* boot makes of it: up.sh, the desktop start script inside the rootfs,    *)
(* boot.sh, the on-device `start`, and the one Magisk hook that all        *)
(* instances share.                                                        *)
(*                                                                         *)
(* enable reads the recorded display once and writes it into two of these  *)
(* files; each file is written by a script of its own, sent in a round     *)
(* trip of its own.                                                        *)
(***************************************************************************)
EXTENDS Naturals

CONSTANTS
  Instances,
  Sessions,   \* commands being carried out
  Displays,
  Default,    \* gui.DEFAULT_DISPLAY
  None,
  Serial,     \* a command starts only when no other is being carried out
  Faults,     \* what may go wrong, a subset of AllFaults
  MaxTries    \* how often boot.sh looks for the image

\* The connection is lost and the command with it; a file system is full; the
\* answer to a question is lost, and an empty one is taken for it.
AllFaults == {"cut", "full", "deaf"}

ASSUME ConstantsAssumption ==
  /\ Default \in Displays
  /\ None \notin Instances \cup Displays
  /\ {"absent", "short", "plain"} \cap (Instances \cup Displays) = {}
  /\ Serial \in BOOLEAN
  /\ Faults \subseteq AllFaults
  /\ MaxTries \in 1..120

VARIABLES
  magisk,     \* whether /data/adb/service.d exists on this device
  image, up,  \* instances installed, and mounted
  record,     \* [i] : the recorded display
  desk,       \* [i] : the display its desktop runs on
  file,       \* [i][f] : what the staged file f holds
  hook,       \* the Magisk hook: the instance whose boot.sh it runs
  cmd,        \* [s] : the command of session s: its next step, what it is, its
              \* instance, whether --gui was given, and the display it read
  boot,       \* the boot hook being carried out: its step, instance, tries left
  unlocked,   \* the user has unlocked the device since it booted
  promise     \* what the last command to succeed said a reboot would do

device  == <<image, up, record, desk>>
vars    == <<magisk, device, file, hook, cmd, boot, unlocked, promise>>

Staged == {"up.sh", "gui-start", "boot.sh", "start"}
Ended  == {"ok", "failed"}
Active(s) == cmd[s].pc \notin Ended
Busy      == \E s \in Sessions : Active(s)

\* Before a file is written it is truncated; "short" is a file of which only a
\* beginning is there.
Blank == [f \in Staged |-> "absent"]

\* The script that starts the desktop on d, or none of it.
Plan(d) == IF d = None THEN "plain" ELSE d

\* `due` remembers what had been promised when the device booted.
Idle == [step |-> "off", inst |-> None, gui |-> FALSE, tries |-> 0, due |-> None]

NoCommand(pc) == [pc |-> pc, op |-> None, inst |-> None, gui |-> FALSE, disp |-> None]

Init ==
  /\ magisk \in BOOLEAN
  /\ image = Instances
  /\ up = {}
  /\ record = [i \in Instances |-> None]
  /\ desk = [i \in Instances |-> None]
  /\ file = [i \in Instances |-> Blank]
  /\ hook = "absent"
  /\ cmd = [s \in Sessions |-> NoCommand("failed")]
  /\ boot = Idle
  /\ unlocked = TRUE
  /\ promise = None

Goto(s, to) ==
  cmd' = [cmd EXCEPT ![s] = IF to \in Ended THEN NoCommand(to) ELSE [@ EXCEPT !.pc = to]]

Step(s, from, to) == cmd[s].pc = from /\ Goto(s, to)
-----------------------------------------------------------------------------
(***************************************************************************)
(* autostart enable and disable                                            *)
(***************************************************************************)
\* A command on i makes void what was promised before.
Begin(s) ==
  /\ ~Active(s)
  /\ Serial => ~Busy
  /\ \E i \in Instances, o \in {"enable", "disable"}, g \in BOOLEAN :
       cmd' = [cmd EXCEPT ![s] =
                 [pc |-> IF o = "enable" THEN "open up.sh" ELSE "unhook",
                  op |-> o, inst |-> i, gui |-> g /\ o = "enable", disp |-> None]]
  /\ promise' = None
  /\ UNCHANGED <<magisk, device, file, hook, boot, unlocked>>

\* Mutant: the viewer is always sent to the default display.
ContentDefaultUri(s, f) ==
  CASE f = "up.sh"     -> "whole"
    [] f = "gui-start" -> cmd[s].disp
    [] f = "boot.sh"   -> IF cmd[s].gui THEN "gui" ELSE "plain"
    [] f = "start"     -> Default

Content(s, f) ==
  CASE f = "up.sh"     -> "whole"
    [] f = "gui-start" -> cmd[s].disp
    [] f = "boot.sh"   -> IF cmd[s].gui THEN "gui" ELSE "plain"
    [] f = "start"     -> cmd[s].disp

\* gui-start goes through the mount point: with nothing mounted it lands in the
\* bare directory below, which mkdir -p makes, and the rootfs does not get it.
Put(s, f, c) ==
  file' = IF f = "gui-start" /\ cmd[s].inst \notin up
            THEN file
            ELSE [file EXCEPT ![cmd[s].inst][f] = c]

Opening(f) == CASE f = "up.sh"     -> "open up.sh"
                [] f = "gui-start" -> "open gui-start"
                [] f = "boot.sh"   -> "open boot.sh"
                [] f = "start"     -> "open start"

Writing(f) == CASE f = "up.sh"     -> "write up.sh"
                [] f = "gui-start" -> "write gui-start"
                [] f = "boot.sh"   -> "write boot.sh"
                [] f = "start"     -> "write start"

\* cat > "$ALX_DST" truncates the file ...
OpenFile(s) ==
  \E f \in Staged :
    /\ Step(s, Opening(f), Writing(f))
    /\ Put(s, f, "short")
    /\ UNCHANGED <<magisk, device, hook, boot, unlocked, promise>>

\* Mutant: the hook goes in before the boot.sh it runs.
AfterHookFirst(s, f) ==
  CASE f = "up.sh"     -> "display"
    [] f = "gui-start" -> IF magisk THEN "open hook" ELSE "magisk"
    [] f = "boot.sh"   -> "open start"
    [] f = "start"     -> "ok"

After(s, f) ==
  CASE f = "up.sh"     -> "display"
    [] f = "gui-start" -> "magisk"
    [] f = "boot.sh"   -> "open hook"
    [] f = "start"     -> "ok"

\* ... and fills it. Without set -e the status is that of chmod, so a full file
\* system shows only in `start`, the one script that has it.
WriteFile(s) ==
  \E f \in Staged, full \in IF "full" \in Faults THEN BOOLEAN ELSE {FALSE} :
    LET noticed == full /\ f = "start" IN
    /\ Step(s, Writing(f), IF noticed THEN "failed" ELSE After(s, f))
    /\ Put(s, f, IF full THEN "short" ELSE Content(s, f))
    /\ promise' = IF f = "start" /\ ~noticed
                    THEN [inst |-> cmd[s].inst,
                          plan |-> Plan(IF cmd[s].gui THEN cmd[s].disp ELSE None)]
                    ELSE promise
    /\ UNCHANGED <<magisk, device, hook, boot, unlocked>>

Reading(s, d) ==
  /\ cmd[s].pc = "display"
  /\ cmd' = [cmd EXCEPT ![s].pc = IF cmd[s].gui THEN "ensure up" ELSE "magisk",
                        ![s].disp = d]
  /\ UNCHANGED <<magisk, device, file, hook, boot, unlocked, promise>>

\* Mutant: an instance that has recorded no display gets none.
ReadDisplayBare(s) == cmd[s].inst # None /\ Reading(s, record[cmd[s].inst])

\* gui.recorded_display or the default, which an empty answer gives too.
ReadDisplay(s) ==
  \E d \in {IF cmd[s].inst = None THEN None ELSE record[cmd[s].inst]}
           \cup IF "deaf" \in Faults THEN {None} ELSE {} :
    Reading(s, IF d = None THEN Default ELSE d)

\* Mutant: the start script is written without a look at the mount.
EnsureUpNot(s) ==
  /\ Step(s, "ensure up", "open gui-start")
  /\ UNCHANGED <<magisk, device, file, hook, boot, unlocked, promise>>

\* container.is_up and up, which fails without an image.
EnsureUp(s) ==
  /\ cmd[s].pc = "ensure up"
  /\ IF cmd[s].inst \in image
       THEN /\ Goto(s, "open gui-start")
            /\ up' = up \cup {cmd[s].inst}
       ELSE /\ Goto(s, "failed")
            /\ UNCHANGED up
  /\ UNCHANGED <<magisk, image, record, desk, file, hook, boot, unlocked, promise>>

\* has_magisk: an answer that does not come is taken for a target without it.
AskMagisk(s) ==
  \E yes \in {magisk} \cup IF "deaf" \in Faults THEN {FALSE} ELSE {} :
    /\ Step(s, "magisk", IF yes THEN "open boot.sh" ELSE "boot.sh alone")
    /\ UNCHANGED <<magisk, device, file, hook, boot, unlocked, promise>>

\* What a target taken to have no Magisk gets: boot.sh, whole or not, and an error.
StageBootAlone(s) ==
  /\ Step(s, "boot.sh alone", "failed")
  /\ \E c \in {Content(s, "boot.sh")} \cup IF Faults \cap {"cut", "full"} # {} THEN {"short"} ELSE {} :
       Put(s, "boot.sh", c)
  /\ UNCHANGED <<magisk, device, hook, boot, unlocked, promise>>

OpenHook(s) ==
  /\ Step(s, "open hook", "write hook")
  /\ hook' = "short"
  /\ UNCHANGED <<magisk, device, file, boot, unlocked, promise>>

WriteHook(s) ==
  /\ Step(s, "write hook", "open start")
  /\ hook' \in {cmd[s].inst} \cup IF "full" \in Faults THEN {hook} ELSE {}
  /\ UNCHANGED <<magisk, device, file, boot, unlocked, promise>>

\* disable: whatever instance the hook is for. The status of rm is not looked at.
Unhook(s) ==
  /\ Step(s, "unhook", "ok")
  /\ hook' \in {"absent"} \cup IF "deaf" \in Faults THEN {hook} ELSE {}
  /\ UNCHANGED <<magisk, device, file, boot, unlocked, promise>>

Cut(s) ==
  /\ "cut" \in Faults
  /\ Active(s)
  /\ Goto(s, "failed")
  /\ UNCHANGED <<magisk, device, file, hook, boot, unlocked, promise>>
-----------------------------------------------------------------------------
(***************************************************************************)
(* Other commands, each as far as it matters here                          *)
(***************************************************************************)
Quiet == Serial => ~Busy

\* gui start settles on a display, records it, and may or may not get there.
GuiStart(i) ==
  /\ Quiet
  /\ i \in image
  /\ up' = up \cup {i}
  /\ \E d \in Displays :
       /\ record' = [record EXCEPT ![i] = d]
       /\ \E e \in {d, desk[i]} : desk' = [desk EXCEPT ![i] = e]
  /\ UNCHANGED <<magisk, image, file, hook, cmd, boot, unlocked, promise>>

Down(i) ==
  /\ Quiet
  /\ i \in up
  /\ up' = up \ {i}
  /\ desk' = [desk EXCEPT ![i] = None]
  /\ UNCHANGED <<magisk, image, record, file, hook, cmd, boot, unlocked, promise>>

Install(i) ==
  /\ Quiet
  /\ i \notin image
  /\ image' = image \cup {i}
  /\ up' = up \cup {i}
  /\ UNCHANGED <<magisk, record, desk, file, hook, cmd, boot, unlocked, promise>>

\* Everything under the instance's directory goes; the hook is not there. A
\* removal under a running enable is left out.
Remove(i) ==
  /\ ~Busy
  /\ image' = image \ {i}
  /\ up' = up \ {i}
  /\ record' = [record EXCEPT ![i] = None]
  /\ desk' = [desk EXCEPT ![i] = None]
  /\ file' = [file EXCEPT ![i] = Blank]
  /\ promise' = IF promise # None /\ promise.inst = i THEN None ELSE promise
  /\ UNCHANGED <<magisk, hook, cmd, boot, unlocked>>
-----------------------------------------------------------------------------
(***************************************************************************)
(* The boot hook                                                           *)
(***************************************************************************)
\* Magisk runs what is in service.d. A boot.sh that is short may end anywhere.
Reboot ==
  /\ up' = {}
  /\ desk' = [i \in Instances |-> None]
  /\ cmd' = [s \in Sessions |-> IF Active(s) THEN NoCommand("failed") ELSE cmd[s]]
  /\ unlocked' = FALSE
  /\ boot' \in IF hook \in Instances /\ file[hook]["boot.sh"] # "absent"
                 THEN LET body == file[hook]["boot.sh"] IN
                      {[step |-> "wait", inst |-> hook, tries |-> MaxTries, gui |-> g, due |-> promise] :
                         g \in IF body = "short" THEN BOOLEAN ELSE {body = "gui"}}
                      \cup IF body = "short" THEN {Idle} ELSE {}
                 ELSE {Idle}
  /\ UNCHANGED <<magisk, image, record, file, hook, promise>>

Unlock ==
  /\ ~unlocked
  /\ unlocked' = TRUE
  /\ UNCHANGED <<magisk, device, file, hook, cmd, boot, promise>>

\* Mutant: the count is not looked at.
WaitImageForever ==
  /\ boot.step = "wait"
  /\ boot' = IF unlocked /\ boot.inst \in image THEN [boot EXCEPT !.step = "up"] ELSE boot
  /\ UNCHANGED <<magisk, device, file, hook, cmd, unlocked, promise>>

\* /data cannot be read before the user unlocks the device.
WaitImage ==
  /\ boot.step = "wait"
  /\ boot' = IF unlocked /\ boot.inst \in image THEN [boot EXCEPT !.step = "up"]
             ELSE IF boot.tries > 0 THEN [boot EXCEPT !.tries = @ - 1]
             ELSE Idle
  /\ UNCHANGED <<magisk, device, file, hook, cmd, unlocked, promise>>

\* What a short up.sh does depends on where it ends.
RunUp ==
  /\ boot.step = "up"
  /\ LET body == file[boot.inst]["up.sh"] IN
     \E done \in (IF body = "whole" THEN {TRUE} ELSE {FALSE})
                 \cup (IF body = "short" THEN {TRUE} ELSE {}) :
       IF done /\ boot.inst \in image
         THEN /\ up' = up \cup {boot.inst}
              /\ boot' = IF boot.gui THEN [boot EXCEPT !.step = "gui"] ELSE Idle
         ELSE /\ boot' = Idle
              /\ UNCHANGED up
  /\ UNCHANGED <<magisk, image, record, desk, file, hook, cmd, unlocked, promise>>

\* The job boot.sh leaves behind: chroot-exec with the script in the rootfs. A
\* desktop that is alive already is left alone.
RunGui ==
  /\ boot.step = "gui"
  /\ LET body == file[boot.inst]["gui-start"] IN
     \E d \in IF body = "short" THEN Displays \cup {None} ELSE {body} :
       desk' = IF boot.inst \in up /\ d \in Displays /\ desk[boot.inst] = None
                 THEN [desk EXCEPT ![boot.inst] = d]
                 ELSE desk
  /\ boot' = Idle
  /\ UNCHANGED <<magisk, image, up, record, file, hook, cmd, unlocked, promise>>
-----------------------------------------------------------------------------
Command(s) ==
  \/ OpenFile(s) \/ WriteFile(s) \/ ReadDisplay(s) \/ EnsureUp(s) \/ AskMagisk(s)
  \/ StageBootAlone(s) \/ OpenHook(s) \/ WriteHook(s) \/ Unhook(s)

BootStep == WaitImage \/ RunUp \/ RunGui

Next ==
  \/ \E s \in Sessions : Begin(s) \/ Command(s) \/ Cut(s)
  \/ \E i \in Instances : GuiStart(i) \/ Down(i) \/ Install(i) \/ Remove(i)
  \/ Reboot \/ Unlock \/ BootStep

Spec     == Init /\ [][Next]_vars
FairSpec == Spec /\ WF_vars(BootStep)
=============================================================================
