-------------------------- MODULE AutostartProps ---------------------------
(***************************************************************************)
(* What `autostart enable` and the boot hook promise.                      *)
(***************************************************************************)
EXTENDS Autostart

\* The staged files, the hook and the sessions hold what their readers expect:
\* in particular no script is ever staged without a display (autostart.py:64).
TypeOK ==
  /\ magisk \in BOOLEAN /\ unlocked \in BOOLEAN
  /\ up \subseteq image /\ image \subseteq Instances
  /\ record \in [Instances -> Displays \cup {None}]
  /\ desk \in [Instances -> Displays \cup {None}]
  /\ \A i \in Instances :
       /\ DOMAIN file[i] = Staged
       /\ file[i]["up.sh"] \in {"absent", "short", "whole"}
       /\ file[i]["boot.sh"] \in {"absent", "short", "gui", "plain"}
       /\ file[i]["gui-start"] \in {"absent", "short"} \cup Displays
       /\ file[i]["start"] \in {"absent", "short"} \cup Displays
  /\ hook \in Instances \cup {"absent", "short"}
  /\ boot.step \in {"off", "wait", "up", "gui"}
  /\ boot.tries \in 0..MaxTries
  /\ boot.step # "off" => boot.inst \in Instances

\* Everything a boot of i runs is there: boot.sh, up.sh, and the desktop's start
\* script when boot.sh calls it.
Boots(i) ==
  /\ file[i]["boot.sh"] \in {"gui", "plain"}
  /\ file[i]["up.sh"] = "whole"
  /\ file[i]["boot.sh"] = "gui" => file[i]["gui-start"] \in Displays

\* The hook is pointed at an instance only when everything a boot of it runs is
\* staged, whatever earlier runs, cut anywhere, and removals left of its files
\* and of the hook (autostart.py:62-124).  It says nothing of an instance the
\* hook runs already: see BootsStaged.
HookLast == [][\A i \in Instances : hook' = i /\ hook # i => Boots(i)]_vars

\* The viewer that `start` opens looks at the display boot.sh starts.
SameDisplay(i) == file[i]["boot.sh"] = "gui" => file[i]["start"] = file[i]["gui-start"]

\* A command that reports success did what it says: after enable the hook is the
\* instance's, with a whole and consistent set of files of this very run behind
\* it; after disable there is no hook (autostart.py:40, 156).
OkIsTrue ==
  [][\A s \in Sessions : Active(s) /\ cmd'[s].pc = "ok" =>
       IF cmd[s].op = "disable" THEN hook' = "absent"
       ELSE \E i \in Instances :
              /\ i = cmd[s].inst
              /\ hook' = i
              /\ Boots(i)'
              /\ SameDisplay(i)'
              /\ file'[i]["boot.sh"] = IF cmd[s].gui THEN "gui" ELSE "plain"]_vars

\* The boot under way is one that was promised, and nothing was asked since.
Due == /\ boot.due # None /\ promise = boot.due /\ promise' = promise
       /\ boot.inst \in image /\ unlocked'

\* A reboot brings about what the last successful enable promised, whatever other
\* commands, cut ones included, came before it: the hook runs, it waits for the
\* user to unlock the device, mounts the rootfs and puts the desktop on the
\* promised display, unless there is one already (boot.sh:24-74).
BootDelivers ==
  [][/\ Reboot /\ promise # None => boot'.step = "wait" /\ boot'.inst = promise.inst
     /\ Due /\ boot.step = "wait" /\ unlocked => boot'.step # "off"
     /\ Due /\ boot.step = "up" /\ boot'.step # "up" =>
          /\ boot.inst \in up'
          /\ boot.due.plan # "plain" => boot'.step = "gui"
     /\ Due /\ boot.step = "gui" /\ boot'.step # "gui" /\ boot.inst \in up =>
          desk'[boot.inst] = IF desk[boot.inst] = None THEN boot.due.plan ELSE desk[boot.inst]
    ]_vars

\* The boot hook never waits for ever, however long the device stays locked: its
\* look for the image is counted (boot.sh:24-33).
BootEnds == <>[][~Reboot]_vars => []<>(boot.step = "off")

\* What Magisk runs at boot is staged as a whole.  It need not be: an enable
\* repeated for the instance the hook runs truncates its files in place, and
\* may end there; a removal leaves the hook behind (autostart.py:116-124).  Not
\* part of a passing run.
BootsStaged == [][Reboot /\ hook \in Instances => Boots(hook)]_vars

\* What is done to one instance does not change what boots of another
\* (autostart.py:32). It does: there is one hook. Not part of a passing run.
OthersBootKept ==
  [][\A i \in Instances :
       hook = i /\ hook' # i => \E s \in Sessions : Active(s) /\ cmd[s].inst = i]_vars

\* The desktop a boot starts is on the display the host has on record, where
\* `gui stop`, `viewer` and `screenshot` look for it (autostart.py:64). It need
\* not be: the staged display is not updated. Not part of a passing run.
BootedIsRecorded ==
  [][\A i \in Instances :
       boot.step = "gui" /\ desk[i] = None /\ desk'[i] # None /\ record[i] # None
          => desk'[i] = record[i] \/ record' # record]_vars
=============================================================================
