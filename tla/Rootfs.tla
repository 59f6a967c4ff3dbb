------------------------------- MODULE Rootfs -------------------------------
(***************************************************************************)
(* The life of a rootfs on the device: the image file, the loop devices    *)
(* and mounts it is brought up with, the processes inside, and the host    *)
(* commands (container.py) whose scripts (up.sh, down.sh, resize.sh,       *)
(* remove.sh, the head of install.sh) act on them.                         *)
(*                                                                         *)
(* A session is one command being carried out.  Nothing in the code locks  *)
(* an instance: sessions interleave between any two steps of their scripts *)
(* unless Serial says that the operator waits for each command to end.     *)
(***************************************************************************)
EXTENDS Naturals, Sequences, FiniteSets

CONSTANTS
  Instances,   \* the instances under /data/androlinux
  Unnamed,     \* the unnamed instance, whose directory holds all the others
  Sessions,    \* command executions
  Procs,       \* process ids that may be inside a rootfs
  Loops,       \* the loop devices of the kernel
  None,
  Ops,         \* the commands that are issued, a subset of AllOps
  DirReach,    \* [i] : instances whose directory path starts with i's
  MntReach,    \* [i] : instances whose mount point path starts with i's
  Binds,       \* which of hw and cgroup this kernel has to expose
  Serial,      \* a command starts only when no other is being carried out
  Stragglers,  \* a process may fork during a teardown, or outlive its kill -9
  Cuts,        \* a script may end after any step: step failed, adb cut off
  Reboots      \* the device may reboot

AllOps == {"up", "install", "enter", "down", "resize", "remove", "purge"}

ASSUME ConstantsAssumption ==
  /\ Ops \subseteq AllOps
  /\ Binds \subseteq {"hw", "cgroup"}
  /\ {Serial, Stragglers, Cuts, Reboots} \subseteq BOOLEAN
  /\ DirReach \in [Instances -> SUBSET Instances]
  /\ MntReach \in [Instances -> SUBSET Instances]
  /\ \A i \in Instances : i \in DirReach[i] /\ i \in MntReach[i]
  /\ Unnamed \in Instances => DirReach[Unnamed] = Instances
  /\ None \notin Instances \cup Loops \cup AllOps

VARIABLES
  image,    \* [i] : the image file; "raw" has no filesystem, "grown" a short one
  helper,   \* instances whose chroot-exec has been written
  stack,    \* [i] : copies mounted on i's mount point, topmost first
  backing,  \* [l] : the instance whose image the loop device l is attached to
  auto,     \* loop devices that are detached when their last user goes
  root,     \* [p] : the loop device whose filesystem process p is rooted in
  op,       \* [s] : the command of session s
  inst,     \* [s] : its instance
  pc,       \* [s] : its next step, or how its last command ended
  pids,     \* [s] : the process ids its kill loop goes through
  todo,     \* [s] : the mount points its umount loop goes through
  dev,      \* [s] : the device its `mount -o loop` attached
  alone     \* history: sessions nothing disturbed since their command began

device   == <<stack, backing, auto, root>>
scratch  == <<pids, todo, dev>>
files    == <<image, helper>>
vars     == <<files, device, op, inst, pc, scratch, alone>>

-----------------------------------------------------------------------------
(* Mounts, loop devices and processes.                                     *)

\* What up.sh mounts below the image.  hw stands for a bound device directory.
KernelFs == {"proc", "sys", "run", "dev", "pts", "shm", "hw", "cgroup"}

\* Length of each path below the mount point, the key the teardown sorts by.
PathLength == [cgroup |-> 14, pts |-> 8, shm |-> 8, hw |-> 8, proc |-> 5,
               sys |-> 4, run |-> 4, dev |-> 4, root |-> 0]

Subtree(k) == CASE k = "dev" -> {"dev", "pts", "shm", "hw"}
                [] k = "sys" -> {"sys", "cgroup"}
                [] OTHER     -> {k}

Layer == [loop : Loops, kfs : SUBSET KernelFs]

Mounted(i)      == stack[i] # <<>>
Top(i)          == Head(stack[i])
LoopsAt(i)      == {stack[i][n].loop : n \in DOMAIN stack[i]}
Listed(i, k)    == \E n \in DOMAIN stack[i] : k \in stack[i][n].kfs
MountedLoops    == UNION {LoopsAt(i) : i \in Instances}
Holders(l)      == {p \in Procs : root[p] = l}
Live(l)         == l \in MountedLoops \/ Holders(l) # {}

SetTop(i, kfs) ==
  stack' = [stack EXCEPT ![i] = <<[loop |-> Top(i).loop, kfs |-> kfs]>> \o Tail(@)]

\* The filesystem on each device of gone has lost its last user.  A device
\* marked auto is freed with it; of the others "umount usually detaches it".
Settle(gone) ==
  \E kept \in SUBSET (gone \ auto) :
    /\ backing' = [l \in Loops |-> IF l \in gone \ kept THEN None ELSE backing[l]]
    /\ auto' = auto \ gone

-----------------------------------------------------------------------------
(* Sessions.                                                               *)

Ended     == {"idle", "ok", "failed"}
Active(s) == pc[s] \notin Ended
Teardown  == {"kill", "snapshot", "umount", "detach"}

Labels == Ended \cup Teardown \cup KernelFs \cup
  {"isup", "image", "mke2fs", "mounted", "attach", "mount", "prep", "chroot",
   "list", "delete", "check", "truncate", "e2fsck", "resize2fs"}

FirstStep == [up |-> "image", install |-> "image", enter |-> "isup",
              resize |-> "isup", down |-> "list", remove |-> "list",
              purge |-> "list"]

Goto(s, label) ==
  /\ pc' = [pc EXCEPT ![s] = label]
  /\ UNCHANGED <<op, inst>>

\* The script has ended; the session forgets everything but the verdict.
Finish(s, verdict) ==
  /\ pc'   = [pc   EXCEPT ![s] = verdict]
  /\ op'   = [op   EXCEPT ![s] = None]
  /\ inst' = [inst EXCEPT ![s] = None]

Forget(s) ==
  /\ pids' = [pids EXCEPT ![s] = {}]
  /\ todo' = [todo EXCEPT ![s] = {}]
  /\ dev'  = [dev  EXCEPT ![s] = None]

Init ==
  /\ image   \in [Instances -> {"absent", "ok"}]
  /\ helper  = {}
  /\ stack   = [i \in Instances |-> <<>>]
  /\ backing = [l \in Loops |-> None]
  /\ auto    = {}
  /\ root    = [p \in Procs |-> None]
  /\ op      = [s \in Sessions |-> None]
  /\ inst    = [s \in Sessions |-> None]
  /\ pc      = [s \in Sessions |-> "idle"]
  /\ pids    = [s \in Sessions |-> {}]
  /\ todo    = [s \in Sessions |-> {}]
  /\ dev     = [s \in Sessions |-> None]
  /\ alone   = {}

Start(s, o, i) ==
  /\ ~Active(s)
  /\ Serial => \A t \in Sessions : ~Active(t)
  /\ op'   = [op   EXCEPT ![s] = o]
  /\ inst' = [inst EXCEPT ![s] = i]
  /\ pc'   = [pc   EXCEPT ![s] = FirstStep[o]]
  /\ alone' = IF \E t \in Sessions : Active(t) THEN {} ELSE {s}
  /\ UNCHANGED <<files, device, scratch>>

\* container.is_up: run and enter bring the rootfs up when it is not, resize
\* takes it down when it is.  A round trip of its own, and one without an
\* answer reads as not up.
IsUp(s) ==
  /\ pc[s] = "isup"
  /\ \E up \in {Mounted(inst[s]), FALSE} :
       IF op[s] = "enter" THEN Goto(s, IF up THEN "chroot" ELSE "image")
                          ELSE Goto(s, IF up THEN "list" ELSE "check")
  /\ UNCHANGED <<files, device, scratch, alone>>

-----------------------------------------------------------------------------
(* up.sh, and the head of install.sh.                                      *)

NeedImage(s) ==
  /\ pc[s] = "image"
  /\ op[s] # "install"
  /\ IF image[inst[s]] = "absent" THEN Finish(s, "failed") ELSE Goto(s, "mounted")
  /\ UNCHANGED <<files, device, scratch, alone>>

\* Mutant: the image is created afresh.
CreateImageAnew(s) ==
  /\ pc[s] = "image"
  /\ op[s] = "install"
  /\ image' = [image EXCEPT ![inst[s]] = "raw"]
  /\ Goto(s, "mke2fs")
  /\ UNCHANGED <<helper, device, scratch, alone>>

\* install.sh creates the file and formats it, in two steps, or reuses it.
CreateImage(s) ==
  /\ pc[s] = "image"
  /\ op[s] = "install"
  /\ IF image[inst[s]] = "absent"
       THEN /\ image' = [image EXCEPT ![inst[s]] = "raw"]
            /\ Goto(s, "mke2fs")
       ELSE /\ Goto(s, "mounted")
            /\ UNCHANGED image
  /\ UNCHANGED <<helper, device, scratch, alone>>

Format(s) ==
  /\ pc[s] = "mke2fs"
  /\ image' = [image EXCEPT ![inst[s]] = "ok"]
  /\ Goto(s, "mounted")
  /\ UNCHANGED <<helper, device, scratch, alone>>

\* Mutant: the mount table is not consulted.
MountAnyway(s) ==
  /\ pc[s] = "mounted"
  /\ Goto(s, "attach")
  /\ UNCHANGED <<files, device, scratch, alone>>

CheckMounted(s) ==
  /\ pc[s] = "mounted"
  /\ IF ~Mounted(inst[s])     THEN Goto(s, "attach")
     ELSE IF op[s] = "install" THEN Finish(s, "ok")
     ELSE Goto(s, "proc")
  /\ UNCHANGED <<files, device, scratch, alone>>

\* Mutant: the device that was attached is not handed on to mount.
AttachForgets(s) ==
  /\ pc[s] = "attach"
  /\ image[inst[s]] # "absent"
  /\ \E l \in Loops :
       /\ backing[l] = None
       /\ backing' = [backing EXCEPT ![l] = inst[s]]
  /\ Goto(s, "mount")
  /\ UNCHANGED <<files, stack, auto, root, scratch, alone>>

\* `mount -o loop`: attach a free device to the image, then mount the device.
Attach(s) ==
  /\ pc[s] = "attach"
  /\ image[inst[s]] # "absent"
  /\ \E l \in Loops :
       /\ backing[l] = None
       /\ backing' = [backing EXCEPT ![l] = inst[s]]
       /\ dev' = [dev EXCEPT ![s] = l]
  /\ Goto(s, "mount")
  /\ UNCHANGED <<files, stack, auto, root, pids, todo, alone>>

AttachFails(s) ==
  /\ pc[s] = "attach"
  /\ image[inst[s]] = "absent" \/ \A l \in Loops : backing[l] # None
  /\ Finish(s, "failed")
  /\ UNCHANGED <<files, device, scratch, alone>>

Mountable(l) == backing[l] # None /\ image[backing[l]] # "raw"

Mount(s) ==
  /\ pc[s] = "mount"
  /\ Mountable(dev[s])
  /\ stack' = [stack EXCEPT ![inst[s]] = <<[loop |-> dev[s], kfs |-> {}]>> \o @]
  /\ IF op[s] = "install" THEN Finish(s, "ok") ELSE Goto(s, "proc")
  /\ dev' = [dev EXCEPT ![s] = None]
  /\ UNCHANGED <<files, backing, auto, root, pids, todo, alone>>

\* The device was taken away in between, or holds no filesystem.
MountFails(s) ==
  /\ pc[s] = "mount"
  /\ ~Mountable(dev[s])
  /\ Finish(s, "failed")
  /\ dev' = [dev EXCEPT ![s] = None]
  /\ UNCHANGED <<files, device, pids, todo, alone>>

\* Mutant: the script that mounts /dev goes on to shm.
NextMountNoPts == [proc |-> "sys", sys |-> "run", run |-> "dev", dev |-> "shm",
                   pts |-> "shm", shm |-> "hw", hw |-> "cgroup", cgroup |-> "prep"]

NextMount == [proc |-> "sys", sys |-> "run", run |-> "dev", dev |-> "pts",
              pts |-> "shm", shm |-> "hw", hw |-> "cgroup", cgroup |-> "prep"]

\* `mounted X || mount X` for proc, sys and run; the /dev block, whose devpts
\* and shm are mounted only by the script that mounted /dev itself.
MountKernelFs(s) ==
  LET k == pc[s]  i == inst[s] IN
  /\ k \in {"proc", "sys", "run", "dev", "pts", "shm"}
  /\ IF k \in {"proc", "sys", "run", "dev"} /\ Listed(i, k)
       THEN /\ Goto(s, IF k = "dev" THEN "hw" ELSE NextMount[k])
            /\ UNCHANGED stack
     ELSE IF Mounted(i) /\ (k \in {"pts", "shm"} => "dev" \in Top(i).kfs)
       THEN /\ SetTop(i, Top(i).kfs \cup {k})
            /\ Goto(s, NextMount[k])
       ELSE /\ Finish(s, "failed")      \* no such directory to mount on
            /\ UNCHANGED stack
  /\ UNCHANGED <<files, backing, auto, root, scratch, alone>>

\* expose_dev and the cgroup bind: absent nodes and failed binds are reported
\* and passed over.
Bind(s) ==
  LET k == pc[s]  i == inst[s] IN
  /\ k \in {"hw", "cgroup"}
  /\ \/ /\ k \in Binds
        /\ Mounted(i)
        /\ ~Listed(i, k)
        /\ (IF k = "hw" THEN "dev" ELSE "sys") \in Top(i).kfs
        /\ SetTop(i, Top(i).kfs \cup {k})
     \/ UNCHANGED stack
  /\ Goto(s, NextMount[k])
  /\ UNCHANGED <<files, backing, auto, root, scratch, alone>>

\* chroot-exec roots a process in whatever is on top of the mount point now.
Rooted(i) == \E p \in Procs : /\ root[p] = None
                              /\ root' = [root EXCEPT ![p] = Top(i).loop]

\* chroot-exec is written, session-prep is written into the rootfs and run; it
\* leaves the system bus running there, and sshd if it was enabled.
Prepare(s) ==
  /\ pc[s] = "prep"
  /\ helper' = helper \cup {inst[s]}
  /\ IF Mounted(inst[s])
       THEN /\ UNCHANGED root \/ Rooted(inst[s])
            /\ IF op[s] = "enter" THEN Goto(s, "chroot") ELSE Finish(s, "ok")
       ELSE Finish(s, "failed") /\ UNCHANGED root
  /\ UNCHANGED <<image, stack, backing, auto, scratch, alone>>

\* container.run and container.enter, through chroot-exec.
Chroot(s) ==
  /\ pc[s] = "chroot"
  /\ Mounted(inst[s]) /\ inst[s] \in helper
  /\ Rooted(inst[s])
  /\ Finish(s, "ok")
  /\ UNCHANGED <<files, stack, backing, auto, scratch, alone>>

\* Nothing to enter, or no process id left (a bound of the model).
ChrootFails(s) ==
  /\ pc[s] = "chroot"
  /\ \/ ~Mounted(inst[s]) \/ inst[s] \notin helper
     \/ \A p \in Procs : root[p] # None
  /\ Finish(s, "failed")
  /\ UNCHANGED <<files, device, scratch, alone>>

-----------------------------------------------------------------------------
(* down.sh and remove.sh.                                                  *)

\* What a teardown reaches: whose processes it kills, whose mounts it
\* unmounts, whose loop devices it detaches, whose files it deletes.
KillScope(o, i) == IF o = "purge" THEN Instances
                   ELSE IF o = "remove" THEN DirReach[i] ELSE MntReach[i]

UmountScope(o, i) == IF o = "purge" \/ (o = "remove" /\ i = Unnamed)
                     THEN Instances ELSE {i}

\* Mutant: remove trusts umount to detach.
DetachScopeDown(o, i) == IF o \in {"remove", "purge"} THEN {} ELSE Instances

DetachScope(o, i) == IF o \in {"remove", "purge"} THEN UmountScope(o, i)
                     ELSE Instances
DeleteScope(o, i) == IF o = "purge" THEN Instances ELSE {i}

\* There is no directory to remove.  It may outlive its image, and one that is
\* mounted on cannot be gone.
NothingThere(s) ==
  /\ pc[s] = "list"
  /\ op[s] \in {"remove", "purge"}
  /\ \A i \in UmountScope(op[s], inst[s]) : image[i] = "absent" /\ ~Mounted(i)
  /\ Finish(s, "ok")
  /\ UNCHANGED <<files, device, scratch, alone>>

\* `ls /proc`: the process ids are listed once ...
ListPids(s) ==
  /\ pc[s] = "list"
  /\ pids' = [pids EXCEPT ![s] = {p \in Procs : root[p] # None}]
  /\ Goto(s, "kill")
  /\ UNCHANGED <<files, device, todo, dev, alone>>

\* Mutant: the loop leaves at the first process it kills.
KillFirst(s) ==
  LET hit == {p \in pids[s] : \E i \in KillScope(op[s], inst[s]) :
                                 root[p] \in LoopsAt(i)} IN
  /\ pc[s] = "kill"
  /\ IF hit = {} THEN UNCHANGED root
                 ELSE \E p \in hit : root' = [root EXCEPT ![p] = None]
  /\ pids' = [pids EXCEPT ![s] = {}]
  /\ Goto(s, "snapshot")
  /\ UNCHANGED <<files, stack, backing, auto, todo, dev, alone>>

\* ... and each whose root link is below the mount point is killed.  The link
\* of a process in a copy that is no longer mounted does not name it.
Kill(s) ==
  LET hit == {p \in pids[s] : \E i \in KillScope(op[s], inst[s]) :
                                 root[p] \in LoopsAt(i)} IN
  /\ pc[s] = "kill"
  /\ \E slow \in SUBSET hit :
       /\ slow # {} => Stragglers
       /\ root' = [p \in Procs |-> IF p \in hit \ slow THEN None ELSE root[p]]
       /\ alone' = IF slow = {} THEN alone ELSE {}
  /\ pids' = [pids EXCEPT ![s] = {}]
  /\ Goto(s, "snapshot")
  /\ UNCHANGED <<files, stack, backing, auto, todo, dev>>

\* Mutant: the mount points are listed once each (sort -u).
SnapshotUnique(s) ==
  LET scope == UmountScope(op[s], inst[s]) IN
  /\ pc[s] = "snapshot"
  /\ todo' = [todo EXCEPT ![s] =
       {t \in scope \X KernelFs \X {0} : Listed(t[1], t[2])}
         \cup {<<i, "root", 1>> : i \in {j \in scope : Mounted(j)}}]
  /\ Goto(s, "umount")
  /\ UNCHANGED <<files, device, pids, dev, alone>>

\* The awk line over /proc/mounts.  A mount point stacked n times is listed
\* n times.
Snapshot(s) ==
  LET scope == UmountScope(op[s], inst[s]) IN
  /\ pc[s] = "snapshot"
  /\ todo' = [todo EXCEPT ![s] =
       {t \in scope \X KernelFs \X {0} : Listed(t[1], t[2])}
         \cup UNION {{<<i, "root", n>> : n \in DOMAIN stack[i]} : i \in scope}]
  /\ Goto(s, "umount")
  /\ UNCHANGED <<files, device, pids, dev, alone>>

Deepest(s) == {t \in todo[s] : \A u \in todo[s] :
                 u[1] = t[1] => PathLength[u[2]] <= PathLength[t[2]]}

\* umount, or umount -l when it is busy, acts on what the path now names.
UmountSub(s) ==
  /\ pc[s] = "umount"
  /\ \E t \in Deepest(s) :
       /\ t[2] # "root"
       /\ todo' = [todo EXCEPT ![s] = @ \ {t}]
       /\ IF Mounted(t[1]) /\ t[2] \in Top(t[1]).kfs
            THEN SetTop(t[1], Top(t[1]).kfs \ Subtree(t[2]))
            ELSE UNCHANGED stack                    \* "FAILED to unmount"
  /\ UNCHANGED <<files, backing, auto, root, op, inst, pc, pids, dev, alone>>

\* Mutant: a busy root is left mounted, without what was mounted below it.
UmountRootNotLazy(s) ==
  /\ pc[s] = "umount"
  /\ \E t \in Deepest(s) :
       /\ t[2] = "root"
       /\ todo' = [todo EXCEPT ![s] = @ \ {t}]
       /\ IF Mounted(t[1]) /\ Holders(Top(t[1]).loop) = {}
            THEN /\ stack' = [stack EXCEPT ![t[1]] = Tail(@)]
                 /\ Settle({l \in {Top(t[1]).loop} : l \notin MountedLoops'})
            ELSE UNCHANGED <<stack, backing, auto>>
  /\ UNCHANGED <<files, root, op, inst, pc, pids, dev, alone>>

\* A busy root is detached lazily: it leaves the table and lives on as long as
\* a process is rooted in it.
UmountRoot(s) ==
  /\ pc[s] = "umount"
  /\ \E t \in Deepest(s) :
       /\ t[2] = "root"
       /\ todo' = [todo EXCEPT ![s] = @ \ {t}]
       /\ IF Mounted(t[1])
            THEN /\ stack' = [stack EXCEPT ![t[1]] = Tail(@)]
                 /\ Settle({l \in {Top(t[1]).loop} : l \notin MountedLoops' /\ Holders(l) = {}})
            ELSE UNCHANGED <<stack, backing, auto>>
  /\ UNCHANGED <<files, root, op, inst, pc, pids, dev, alone>>

Unmounted(s) ==
  /\ pc[s] = "umount"
  /\ todo[s] = {}
  /\ Goto(s, "detach")
  /\ UNCHANGED <<files, device, scratch, alone>>

\* losetup -d: a device in use is only marked, and goes with its last user.
Detach(s) ==
  LET ours == {l \in Loops : backing[l] \in DetachScope(op[s], inst[s])} IN
  /\ pc[s] = "detach"
  /\ backing' = [l \in Loops |-> IF l \in ours /\ ~Live(l) THEN None ELSE backing[l]]
  /\ auto' = (auto \cup {l \in ours : Live(l)}) \ {l \in ours : ~Live(l)}
  /\ CASE op[s] \in {"remove", "purge"} -> Goto(s, "delete")
       [] op[s] = "resize"              -> Goto(s, "check")
       [] OTHER                         -> Finish(s, "ok")
  /\ UNCHANGED <<files, stack, root, scratch, alone>>

Delete(s) ==
  /\ pc[s] = "delete"
  /\ image' = [i \in Instances |->
                 IF i \in DeleteScope(op[s], inst[s]) THEN "absent" ELSE image[i]]
  /\ helper' = helper \ DeleteScope(op[s], inst[s])
  /\ Finish(s, "ok")
  /\ UNCHANGED <<device, scratch, alone>>

-----------------------------------------------------------------------------
(* resize.sh.  Sizes are left out: a request is larger or it is refused.   *)

\* Mutant: resize.sh trusts the down that ran before it.
CheckImageOnly(s) ==
  /\ pc[s] = "check"
  /\ IF image[inst[s]] # "absent" THEN Goto(s, "truncate") ELSE Finish(s, "failed")
  /\ UNCHANGED <<files, device, scratch, alone>>

CheckOffline(s) ==
  /\ pc[s] = "check"
  /\ \/ /\ image[inst[s]] # "absent"
        /\ ~Mounted(inst[s])
        /\ Goto(s, "truncate")
     \/ Finish(s, "failed")
  /\ UNCHANGED <<files, device, scratch, alone>>

\* truncate grows the file, and would create it.
Grow(s) ==
  /\ pc[s] = "truncate"
  /\ image' = [image EXCEPT ![inst[s]] = IF @ \in {"ok", "grown"} THEN "grown" ELSE "raw"]
  /\ Goto(s, "e2fsck")
  /\ UNCHANGED <<helper, device, scratch, alone>>

Fsck(s) ==
  /\ pc[s] = "e2fsck"
  /\ \/ image[inst[s]] \in {"ok", "grown"} /\ Goto(s, "resize2fs")
     \/ Finish(s, "failed")
  /\ UNCHANGED <<files, device, scratch, alone>>

GrowFs(s) ==
  /\ pc[s] = "resize2fs"
  /\ IF image[inst[s]] \in {"ok", "grown"}
       THEN image' = [image EXCEPT ![inst[s]] = "ok"] /\ Finish(s, "ok")
       ELSE Finish(s, "failed") /\ UNCHANGED image
  /\ UNCHANGED <<helper, device, scratch, alone>>

-----------------------------------------------------------------------------
(* What the scripts do not do themselves.                                  *)

Fork(p, q) ==
  /\ root[p] # None
  /\ root[q] = None
  /\ Stragglers \/ \A s \in Sessions : pc[s] \notin Teardown
  /\ root' = [root EXCEPT ![q] = root[p]]
  /\ alone' = IF \E s \in Sessions : pc[s] \in Teardown THEN {} ELSE alone
  /\ UNCHANGED <<files, stack, backing, auto, op, inst, pc, scratch>>

Exit(p) ==
  /\ root[p] # None
  /\ root' = [root EXCEPT ![p] = None]
  /\ Settle({l \in {root[p]} : l \notin MountedLoops /\ Holders(l) = {p}})
  /\ UNCHANGED <<files, stack, op, inst, pc, scratch, alone>>

\* A step fails under `set -e`, or the connection is cut.  resize ignores how
\* its down ended and goes on to resize.sh.
Cut(s) ==
  /\ Cuts
  /\ Active(s)
  /\ IF op[s] = "resize" /\ pc[s] \in Teardown \cup {"list"}
       THEN Goto(s, "check") ELSE Finish(s, "failed")
  /\ Forget(s)
  /\ UNCHANGED <<files, device, alone>>

Reboot ==
  /\ Reboots
  /\ stack'   = [i \in Instances |-> <<>>]
  /\ backing' = [l \in Loops |-> None]
  /\ auto'    = {}
  /\ root'    = [p \in Procs |-> None]
  /\ pc'      = [s \in Sessions |-> IF Active(s) THEN "failed" ELSE pc[s]]
  /\ op'      = [s \in Sessions |-> None]
  /\ inst'    = [s \in Sessions |-> None]
  /\ pids'    = [s \in Sessions |-> {}]
  /\ todo'    = [s \in Sessions |-> {}]
  /\ dev'     = [s \in Sessions |-> None]
  /\ alone'   = {}
  /\ UNCHANGED files

Up(s) == \/ NeedImage(s) \/ CreateImage(s) \/ Format(s) \/ CheckMounted(s)
         \/ Attach(s) \/ AttachFails(s) \/ Mount(s) \/ MountFails(s)
         \/ MountKernelFs(s) \/ Bind(s) \/ Prepare(s)
TakeDown(s) == \/ NothingThere(s) \/ ListPids(s) \/ Kill(s) \/ Snapshot(s)
               \/ UmountSub(s) \/ UmountRoot(s) \/ Unmounted(s) \/ Detach(s)
               \/ Delete(s)
Resize(s) == CheckOffline(s) \/ Grow(s) \/ Fsck(s) \/ GrowFs(s)
Step(s) == IsUp(s) \/ Up(s) \/ Chroot(s) \/ ChrootFails(s) \/ TakeDown(s) \/ Resize(s)

Next ==
  \/ \E s \in Sessions : \/ \E o \in Ops, i \in Instances : Start(s, o, i)
                         \/ Step(s)
                         \/ Cut(s)
  \/ \E p, q \in Procs : Fork(p, q)
  \/ \E p \in Procs : Exit(p)
  \/ Reboot

Spec == Init /\ [][Next]_vars
=============================================================================
