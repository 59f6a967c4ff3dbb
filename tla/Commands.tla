----------------------------- MODULE Commands ------------------------------
(***************************************************************************)
(* The files through which the steps of a command hand things to each      *)
(* other: the staged command of run and of systemd's run_in, systemd's pid *)
(* file, the picture on its way from the rootfs to the host, and the       *)
(* viewer's package in the host's cache.                                   *)
(*                                                                         *)
(* Each step is a round trip to the device of its own, so commands that    *)
(* are carried out at once interleave between any two.                     *)
(***************************************************************************)
EXTENDS Integers

CONSTANTS
  Instances,
  Unnamed,  \* the instance systemd.PIDFILE was computed for
  Calls,    \* commands, each carried out at most once
  Pids,
  Ops,      \* what is asked for, a subset of AllOps
  Alone,    \* no two commands of these are carried out at once
  Viewers,  \* a bound on the calls of gui viewer
  Method,   \* what adb.acquire_root finds on this device
  Others,   \* the processes that come up besides systemd, a subset of Kinds
  Faults,   \* what may go wrong, a subset of AllFaults
  Cuts,     \* a command may be cut at any step
  Fixed,    \* the name androlinux-systemd-cmd.sh
  None,
  Broken    \* a file that was not written to its end

AllOps    == {"run", "shot", "viewer", "runin", "start", "stop", "down"}
Kinds     == {"android", "guest"}
AllFaults == {"stage fails", "stage late", "copy fails", "copy late"}

ASSUME ConstantsAssumption ==
  /\ Unnamed \in Instances
  /\ Ops \subseteq AllOps /\ Alone \subseteq AllOps /\ Viewers \subseteq Calls
  /\ Method \in {"adbd", "su"}
  /\ Others \subseteq Kinds
  /\ Faults \subseteq AllFaults
  /\ Cuts \in BOOLEAN
  /\ Fixed \notin Calls /\ None \notin Calls \cup Pids \cup Instances /\ Broken \notin Calls

VARIABLES
  up,        \* instances whose rootfs is mounted
  tmp,       \* [i][f] : whose command the file f of the rootfs's /tmp holds
  staged,    \* whose picture androlinux-pull.bin holds
  late,      \* writes of scripts whose caller has given up on them
  procs,     \* the processes of the device that matter
  pidfile,   \* [i] : systemd.pid
  part,      \* the inode that avnc.part names
  dest,      \* the inode that avnc.apk names
  apk,       \* [n] : inode n, which call n created: who opened it last, is it whole
  installed, \* what adb install was given last
  cmd        \* [c] : the next step of c, its arguments and what it came to

device  == <<up, tmp, staged, late>>
systemd == <<procs, pidfile>>
cache   == <<part, dest, apk, installed>>
vars    == <<device, systemd, cache, cmd>>

Names   == Calls \cup {Fixed}
Process == [pid : Pids, inst : Instances \cup {None}, init : BOOLEAN]

Ended     == {"ok", "failed"}
Active(c) == cmd[c].pc \notin Ended \cup {"new"}

Init ==
  /\ up = {}
  /\ tmp = [i \in Instances |-> [f \in Names |-> None]]
  /\ staged = None /\ late = {}
  /\ procs = {} /\ pidfile = [i \in Instances |-> None]
  /\ part = None /\ dest = None /\ installed = None
  /\ apk = [n \in Calls |-> [by |-> None, whole |-> FALSE]]
  /\ cmd = [c \in Calls |-> [pc |-> "new", op |-> None, inst |-> None, pid |-> None,
                             ran |-> None, inside |-> FALSE, got |-> None, fd |-> None]]

Goto(c, to)       == cmd' = [cmd EXCEPT ![c].pc = to]
Step(c, from, to) == cmd[c].pc = from /\ Goto(c, to)
-----------------------------------------------------------------------------
(***************************************************************************)
(* Commands                                                                *)
(***************************************************************************)
Needs(o) == CASE o = "viewer" -> "look" [] o = "start" -> "check" [] OTHER -> "stage"

Begin(c) ==
  /\ cmd[c].pc = "new"
  /\ \E o \in Ops, i \in Instances :
       /\ o = "viewer" => c \in Viewers
       /\ o \in Alone => \A d \in Calls : Active(d) => cmd[d].op \notin Alone
       /\ cmd' = [cmd EXCEPT ![c].op = o, ![c].inst = i,
                    ![c].pc = IF o = "down" THEN "down"
                              ELSE IF o \in {"stop", "runin"} THEN "target"
                              ELSE IF i \in up THEN Needs(o) ELSE "bring up"]
  /\ UNCHANGED <<device, systemd, cache>>

\* is_up said no; up itself is in Rootfs.
BringUp(c) ==
  /\ \E done \in BOOLEAN :
       /\ Step(c, "bring up", IF done THEN Needs(cmd[c].op) ELSE "failed")
       /\ up' = IF done THEN up \cup {cmd[c].inst} ELSE up
  /\ UNCHANGED <<tmp, staged, late, systemd, cache>>

\* A teardown ends everything rooted in the rootfs (Rootfs has its steps).
Down(c) ==
  /\ Step(c, "down", "ok")
  /\ up' = up \ {cmd[c].inst}
  /\ procs' = {p \in procs : p.inst # cmd[c].inst}
  /\ UNCHANGED <<tmp, staged, late, pidfile, cache>>
-----------------------------------------------------------------------------
(***************************************************************************)
(* run: stage, execute, remove                                             *)
(***************************************************************************)
\* Mutant: one name for all.
FixedName(c) == Fixed

\* A uuid.
Name(c) == c

\* Under `set -e` a write that fails fails the script; one that outlasts its
\* timeout fails the command and still takes effect. The file is not removed.
Stage(c) ==
  /\ LET i == cmd[c].inst
         f == Name(c) IN
     \/ /\ i \in up
        /\ Step(c, "stage", "execute")
        /\ tmp' = [tmp EXCEPT ![i][f] = c]
        /\ UNCHANGED late
     \/ /\ "stage fails" \in Faults \/ i \notin up
        /\ Step(c, "stage", "failed")
        /\ \E left \in IF i \in up THEN {tmp[i][f], Broken} ELSE {tmp[i][f]} :
             tmp' = [tmp EXCEPT ![i][f] = left]
        /\ UNCHANGED late
     \/ /\ "stage late" \in Faults /\ i \in up
        /\ Step(c, "stage", "failed")
        /\ late' = late \cup {[inst |-> i, name |-> f, by |-> c]}
        /\ UNCHANGED tmp
  /\ UNCHANGED <<up, staged, systemd, cache>>

\* The command's status is run's. After a teardown there is nothing to execute.
Execute(c) ==
  /\ cmd[c].pc = "execute"
  /\ LET i == cmd[c].inst IN
     IF i \in up /\ tmp[i][Name(c)] # None
       THEN \E status \in Ended :
              cmd' = [cmd EXCEPT ![c].ran = tmp[i][Name(c)],
                        ![c].pc = IF status = "ok" THEN "remove" ELSE "remove failed"]
       ELSE Goto(c, "remove failed")
  /\ UNCHANGED <<device, systemd, cache>>

\* What follows the command of a screenshot depends on what adb pull runs as.
AfterRun(c) ==
  IF cmd[c].op = "run" THEN "ok" ELSE IF Method = "su" THEN "copy" ELSE "pull"

Remove(c) ==
  /\ \/ Step(c, "remove", AfterRun(c))
     \/ Step(c, "remove failed", "failed")
  /\ tmp' = IF cmd[c].inst \in up THEN [tmp EXCEPT ![cmd[c].inst][Name(c)] = None] ELSE tmp
  /\ UNCHANGED <<up, staged, late, systemd, cache>>
-----------------------------------------------------------------------------
(***************************************************************************)
(* screenshot: _pull_from_rootfs                                           *)
(***************************************************************************)
\* Mutant: without `set -e` the status is that of chmod.
CopyUnchecked(c) ==
  /\ Step(c, "copy", "pull")
  /\ \/ staged' = c
     \/ "copy fails" \in Faults /\ UNCHANGED staged
  /\ UNCHANGED <<up, tmp, late, systemd, cache>>

\* To a path adbd can read, under a name that is the same for every screenshot.
Copy(c) ==
  /\ \/ /\ cmd[c].inst \in up
        /\ Step(c, "copy", "pull")
        /\ staged' = c
        /\ UNCHANGED late
     \/ /\ "copy fails" \in Faults \/ cmd[c].inst \notin up
        /\ Step(c, "copy", "failed")
        /\ staged' \in IF cmd[c].inst \in up THEN {staged, Broken} ELSE {staged}
        /\ UNCHANGED late
     \/ /\ "copy late" \in Faults /\ cmd[c].inst \in up
        /\ Step(c, "copy", "failed")
        /\ late' = late \cup {[inst |-> None, name |-> None, by |-> c]}
        /\ UNCHANGED staged
  /\ UNCHANGED <<up, tmp, systemd, cache>>

\* The capture's own name is unique (mktemp); the copy's is not. A pull may fail.
Pull(c) ==
  /\ cmd[c].pc = "pull"
  /\ LET file == IF Method = "su" THEN staged ELSE IF cmd[c].inst \in up THEN c ELSE None IN
     \E got \in {file, None} :
       cmd' = [cmd EXCEPT ![c].got = got,
                 ![c].pc = IF Method = "su" THEN "unstage" ELSE IF got = None THEN "failed" ELSE "ok"]
  /\ UNCHANGED <<device, systemd, cache>>

Unstage(c) ==
  /\ Step(c, "unstage", IF cmd[c].got = None THEN "failed" ELSE "ok")
  /\ staged' = None
  /\ UNCHANGED <<up, tmp, late, systemd, cache>>

\* A script that outlasted its timeout gets to its end.
LateWrite ==
  /\ \E w \in late :
       /\ late' = late \ {w}
       /\ IF w.name = None THEN staged' = w.by /\ UNCHANGED tmp
          ELSE /\ tmp' = IF w.inst \in up THEN [tmp EXCEPT ![w.inst][w.name] = w.by] ELSE tmp
               /\ UNCHANGED staged
  /\ UNCHANGED <<up, systemd, cache, cmd>>
-----------------------------------------------------------------------------
(***************************************************************************)
(* systemd: pid, start, stop, run_in                                       *)
(***************************************************************************)
Rooted(i) == {p.pid : p \in {q \in procs : q.inst = i}}
Inits(i)  == {p.pid : p \in {q \in procs : q.inst = i /\ q.init}}
Free      == Pids \ {p.pid : p \in procs}

\* pid(): PIDFILE is computed when the module is loaded, MOUNT when it is called.
Recorded(i) == IF pidfile[Unnamed] \in Rooted(i) THEN pidfile[Unnamed] ELSE None

\* systemd-start.sh, whose pid file is the instance's. Without a pid namespace, or
\* without systemd in the rootfs, it ends here. Its umount of the rootfs's /proc
\* is left out: no file of this module is behind it.
CheckRunning(c) ==
  /\ cmd[c].pc = "check"
  /\ LET i == cmd[c].inst IN
     IF pidfile[i] \in Rooted(i)
       THEN Goto(c, "report") /\ UNCHANGED pidfile
       ELSE /\ \E possible \in BOOLEAN : Goto(c, IF possible THEN "launch" ELSE "failed")
            /\ pidfile' = [pidfile EXCEPT ![i] = None]
  /\ UNCHANGED <<device, procs, cache>>

LaunchInit(c) ==
  /\ Step(c, "launch", "find")
  /\ \/ cmd[c].inst \in up
        /\ \E p \in Free : procs' = procs \cup {[pid |-> p, inst |-> cmd[c].inst, init |-> TRUE]}
     \/ UNCHANGED procs
  /\ UNCHANGED <<device, pidfile, cache>>

\* The first that is called systemd and is rooted here.
FindInit(c) ==
  /\ cmd[c].pc = "find"
  /\ LET i == cmd[c].inst IN
     IF Inits(i) = {} THEN Goto(c, "failed") /\ UNCHANGED pidfile
     ELSE /\ \E p \in Inits(i) : pidfile' = [pidfile EXCEPT ![i] = p]
          /\ Goto(c, "report")
  /\ UNCHANGED <<device, procs, cache>>

Report(c) ==
  /\ Step(c, "report", IF Recorded(cmd[c].inst) # None THEN "ok" ELSE "failed")
  /\ UNCHANGED <<device, systemd, cache>>

\* The first thing stop and run_in do.
Target(c) ==
  /\ cmd[c].pc = "target"
  /\ LET p == Recorded(cmd[c].inst) IN
     cmd' = [cmd EXCEPT ![c].pid = p,
               ![c].pc = IF cmd[c].op = "stop" THEN IF p = None THEN "ok" ELSE "kill"
                         ELSE IF p = None THEN "failed" ELSE "stage in"]
  /\ UNCHANGED <<device, systemd, cache>>

\* SIGRTMIN+3, 20 seconds, SIGKILL.
KillInit(c) ==
  /\ Step(c, "kill", "ok")
  /\ procs' = {p \in procs : p.pid # cmd[c].pid}
  /\ pidfile' = [pidfile EXCEPT ![Unnamed] = None]
  /\ UNCHANGED <<device, cache>>

\* No `set -e`: as long as there is a file to chmod, the script succeeds, if only
\* the file of an earlier command that could not be opened.
StageIn(c) ==
  /\ cmd[c].pc = "stage in"
  /\ LET i   == cmd[c].inst
         old == tmp[i][Fixed] IN
     \E left \in IF i \notin up THEN {old}
                ELSE IF "stage fails" \in Faults THEN {c, Broken, old} ELSE {c} :
       /\ Goto(c, IF i \in up /\ left # None THEN "nsenter" ELSE "failed")
       /\ tmp' = [tmp EXCEPT ![i][Fixed] = left]
  /\ UNCHANGED <<up, staged, late, systemd, cache>>

\* The namespaces of whatever has the pid by now.
Nsenter(c) ==
  /\ cmd[c].pc = "nsenter"
  /\ LET i == cmd[c].inst IN
     IF i \in up /\ \E p \in procs : p.pid = cmd[c].pid
       THEN \E status \in Ended :
              cmd' = [cmd EXCEPT ![c].pc = status, ![c].ran = tmp[i][Fixed],
                        ![c].inside = cmd[c].pid \in Inits(i)]
       ELSE Goto(c, "failed")
  /\ UNCHANGED <<device, systemd, cache>>

\* Pids are reused.
Spawn ==
  /\ \E k \in Others, p \in Free :
       \/ k = "android" /\ procs' = procs \cup {[pid |-> p, inst |-> None, init |-> FALSE]}
       \/ k = "guest" /\ \E i \in up : procs' = procs \cup {[pid |-> p, inst |-> i, init |-> FALSE]}
  /\ UNCHANGED <<device, pidfile, cache, cmd>>

\* A process ends by itself, systemd too.
Exit ==
  /\ \E p \in procs : procs' = procs \ {p}
  /\ UNCHANGED <<device, pidfile, cache, cmd>>
-----------------------------------------------------------------------------
(***************************************************************************)
(* viewer: _fetch_viewer_apk and adb install                               *)
(***************************************************************************)
Whole(n) == n # None /\ apk[n].whole

\* Not installed, or --reinstall.
Look(c) ==
  /\ \E again \in BOOLEAN :
       Step(c, "look", IF installed # None /\ ~again THEN "ok"
                       ELSE IF Whole(dest) THEN "verify" ELSE "open")
  /\ UNCHANGED <<device, systemd, cache>>

\* open(tmp, "wb") truncates the file of another download that is under way.
Open(c) ==
  /\ cmd[c].pc = "open"
  /\ \E n \in IF part = None THEN {c} ELSE {part} :
       /\ part' = n
       /\ apk' = [apk EXCEPT ![n] = [by |-> c, whole |-> FALSE]]
       /\ cmd' = [cmd EXCEPT ![c].pc = "fetch", ![c].fd = n]
  /\ UNCHANGED <<device, systemd, dest, installed>>

\* The bytes arrive, all of them or not; or the connection fails, and .part is
\* removed, whosever it is.
Fetch(c) ==
  /\ \/ /\ Step(c, "fetch", "hash")
        /\ \E all \in BOOLEAN :
             apk' = IF all /\ apk[cmd[c].fd].by = c THEN [apk EXCEPT ![cmd[c].fd].whole = TRUE] ELSE apk
        /\ UNCHANGED part
     \/ /\ Step(c, "fetch", "failed")
        /\ part' = None
        /\ UNCHANGED apk
  /\ UNCHANGED <<device, systemd, dest, installed>>

\* A mismatch removes the file; one that is gone is an error of its own.
Hash(c) ==
  /\ Step(c, "hash", IF Whole(part) THEN "replace" ELSE "failed")
  /\ part' = IF Whole(part) THEN part ELSE None
  /\ UNCHANGED <<device, systemd, dest, apk, installed>>

\* Mutant: a copy rather than a rename.
ReplaceCopies(c) ==
  /\ Step(c, "replace", IF part # None THEN "verify" ELSE "failed")
  /\ dest' = IF part # None THEN part ELSE dest
  /\ UNCHANGED <<device, systemd, part, apk, installed>>

Replace(c) ==
  /\ Step(c, "replace", IF part # None THEN "verify" ELSE "failed")
  /\ dest' = IF part # None THEN part ELSE dest
  /\ part' = None
  /\ UNCHANGED <<device, systemd, apk, installed>>

\* Mutant: what was verified in the cache is not verified again.
VerifyNot(c) ==
  /\ Step(c, "verify", "install")
  /\ UNCHANGED <<device, systemd, cache>>

\* viewer hashes the cached file once more before it installs it.
Verify(c) ==
  /\ Step(c, "verify", IF Whole(dest) THEN "install" ELSE "failed")
  /\ UNCHANGED <<device, systemd, cache>>

Install(c) ==
  /\ \/ /\ Step(c, "install", "ok")
        /\ installed' = IF Whole(dest) THEN "whole" ELSE "broken"
     \/ /\ Step(c, "install", "failed")
        /\ UNCHANGED installed
  /\ UNCHANGED <<device, systemd, part, dest, apk>>
-----------------------------------------------------------------------------
Cut(c) ==
  /\ Cuts
  /\ Active(c)
  /\ Goto(c, "failed")
  /\ UNCHANGED <<device, systemd, cache>>

\* Steps that need no device.
OnHost == {"open", "fetch", "hash", "replace", "verify"}

Reboot ==
  /\ up' = {} /\ procs' = {} /\ late' = {}
  /\ cmd' = [c \in Calls |-> IF Active(c) /\ cmd[c].pc \notin OnHost
                               THEN [cmd[c] EXCEPT !.pc = "failed"] ELSE cmd[c]]
  /\ UNCHANGED <<tmp, staged, pidfile, cache>>

Command(c) ==
  \/ BringUp(c) \/ Down(c)
  \/ Stage(c) \/ Execute(c) \/ Remove(c) \/ Copy(c) \/ Pull(c) \/ Unstage(c)
  \/ CheckRunning(c) \/ LaunchInit(c) \/ FindInit(c) \/ Report(c)
  \/ Target(c) \/ KillInit(c) \/ StageIn(c) \/ Nsenter(c)
  \/ Look(c) \/ Open(c) \/ Fetch(c) \/ Hash(c) \/ Replace(c) \/ Verify(c) \/ Install(c)

Next ==
  \/ \E c \in Calls : Begin(c) \/ Command(c) \/ Cut(c)
  \/ LateWrite \/ Spawn \/ Exit \/ Reboot

Spec == Init /\ [][Next]_vars
=============================================================================
