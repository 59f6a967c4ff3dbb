---------------------------- MODULE RootfsProps ----------------------------
(***************************************************************************)
(* What the commands of container.py promise about a rootfs, stated over   *)
(* the state of module Rootfs.                                             *)
(***************************************************************************)
EXTENDS Rootfs

KernelOK ==
  /\ image \in [Instances -> {"absent", "raw", "ok", "grown"}]
  /\ helper \in SUBSET Instances
  /\ stack \in [Instances -> Seq(Layer)]
  /\ backing \in [Loops -> Instances \cup {None}]
  /\ auto \in SUBSET Loops
  /\ root \in [Procs -> Loops \cup {None}]

ScratchOK ==
  /\ pids \in [Sessions -> SUBSET Procs]
  /\ todo \in [Sessions -> SUBSET (Instances \X (KernelFs \cup {"root"}) \X Nat)]
  /\ dev \in [Sessions -> Loops \cup {None}]
  /\ alone \in SUBSET Sessions

ControlOK ==
  /\ op \in [Sessions -> AllOps \cup {None}]
  /\ inst \in [Sessions -> Instances \cup {None}]
  /\ pc \in [Sessions -> Labels]
  /\ \A s \in Sessions :
       /\ Active(s) => op[s] \in AllOps /\ inst[s] \in Instances
       /\ pc[s] = "mount" => dev[s] \in Loops

\* The type invariant; a session being carried out has a command, an instance
\* and, where its script is about to mount one, a device.
TypeOK == KernelOK /\ ScratchOK /\ ControlOK

-----------------------------------------------------------------------------

\* An image is never live through two devices at once: two ext4 instances over
\* one file destroy it.  down.sh orders its unmounts so that the next `up`
\* does not mount "a second copy of the same image".
NoSecondCopy ==
  \A l, m \in Loops :
    Live(l) /\ Live(m) /\ backing[l] = backing[m] => l = m

\* e2fsck and resize2fs rewrite an image only while no filesystem is live on
\* it: resize.sh "must be offline".
ResizeOffline ==
  \A s \in Sessions : pc[s] \in {"e2fsck", "resize2fs"} =>
    \A l \in Loops : Live(l) => backing[l] # inst[s]

\* When an image file goes, no loop device is attached to it any more: its
\* blocks would stay allocated until the next reboot (remove.sh:5-8).
RemoveReclaims ==
  [][\A i \in Instances : image[i] # "absent" /\ image'[i] = "absent" =>
       \A l \in Loops : backing[l] # i]_vars

\* A command ended well in this step.
Succeeds(s, o) == op[s] = o /\ pc[s] # "ok" /\ pc'[s] = "ok"

Complete(i) == Mounted(i) /\ {"proc", "sys", "run", "dev", "pts", "shm"} \subseteq Top(i).kfs

\* An up that reports success has given the rootfs every kernel interface a
\* distro expects, whatever it found already in place ("idempotent").
UpComplete ==
  [][\A s \in Sessions : Succeeds(s, "up") => Complete(inst[s])]_vars

\* A process is put into a rootfs only when it is complete: is_up looks at the
\* mount point alone before it takes the short way.
EnterComplete ==
  [][\A s \in Sessions : Succeeds(s, "enter") => Complete(inst[s])]_vars

\* An enter that nothing disturbed gets its shell: the installer ends with
\* "done -- 'androlinux enter' opens a shell inside it" (cli.py:65).  The installer
\* leaves the rootfs mounted, is_up is true, and no up has written chroot-exec
\* (container.py:189).  Not part of a passing run.
EnterOpens ==
  [][\A s \in Sessions :
       pc[s] = "chroot" /\ pc'[s] = "failed" /\ (\E p \in Procs : root[p] = None) =>
         s \notin alone \cap alone']_vars

\* A down that nothing disturbed leaves nothing behind, whatever earlier
\* commands did and however they ended: no mount, and no device attached but
\* those that processes of a lazily detached copy still hold, which go with
\* them.
DownReleases ==
  [][\A s \in Sessions : Succeeds(s, "down") /\ s \in alone =>
       /\ stack'[inst[s]] = <<>>
       /\ \A l \in Loops : backing'[l] = inst[s] => Holders(l) # {} /\ l \in auto']_vars

\* The devices that an image is live on are its users: together the commands
\* keep the promise of module ExclusiveImage.
Promise == INSTANCE ExclusiveImage WITH
  Images  <- Instances,
  Devices <- Loops,
  file    <- image,
  users   <- [i \in Instances |-> {l \in Loops : Live(l) /\ backing[l] = i}]

ImageExclusive == Promise!Spec

-----------------------------------------------------------------------------
(* Why the promises hold when commands are serial and killed processes die *)
(* at once.  The parts say what each step of a script may rely on.         *)

OneActive == \A s, t \in Sessions : Active(s) /\ Active(t) => s = t

\* At most one copy on a mount point, and it is a copy of the right image.
OneLayer == \A i \in Instances : stack[i] # <<>> =>
              Len(stack[i]) = 1 /\ backing[stack[i][1].loop] = i

\* No process is left in a copy that is not mounted.
NoneDetached == \A p \in Procs : root[p] # None => root[p] \in MountedLoops

Scope(s) == UmountScope(op[s], inst[s])

\* A script about to mount finds nothing mounted, and mounts its own image.
AtMount(s) ==
  /\ pc[s] \in {"attach", "mount"} => stack[inst[s]] = <<>>
  /\ pc[s] = "mount" => backing[dev[s]] = inst[s]

\* A teardown kills every process it must, so that no unmount is lazy and
\* every mount point it listed is gone before it detaches and deletes.
AtTeardown(s) ==
  /\ pc[s] = "kill" => \A p \in Procs : root[p] # None => p \in pids[s]
  /\ pc[s] \in {"snapshot", "umount"} =>
       \A i \in Scope(s), p \in Procs : root[p] \notin LoopsAt(i)
  /\ pc[s] = "umount" =>
       /\ \A t \in todo[s] : t[1] \in Scope(s)
       /\ \A i \in Scope(s) : stack[i] # <<>> => <<i, "root", 1>> \in todo[s]
  /\ pc[s] \in {"detach", "delete"} => \A i \in Scope(s) : stack[i] = <<>>
  /\ pc[s] = "delete" =>
       op[s] \in {"remove", "purge"} /\ \A l \in Loops : backing[l] \notin Scope(s)

\* Nothing is mounted while resize.sh works.
AtResize(s) ==
  pc[s] \in {"truncate", "e2fsck", "resize2fs"} => stack[inst[s]] = <<>>

SessionInv(s) == AtMount(s) /\ AtTeardown(s) /\ AtResize(s)

\* The inductive invariant of serial use.
SerialInv ==
  /\ TypeOK
  /\ OneActive
  /\ OneLayer
  /\ NoneDetached
  /\ \A s \in Sessions : SessionInv(s)

-----------------------------------------------------------------------------
(* What one instance may do to another.                                    *)

\* Short of a reboot, a mount is taken off an instance only by a command on that
\* instance, or on all of them: removing the unnamed instance is "leaving any
\* named instances alone" (remove.sh:73).  Its directory holds theirs, and what is
\* mounted under it is unmounted (remove.sh:39).  Not part of a passing run.
OthersMountsKept ==
  [][~Reboot => \A i \in Instances : Len(stack'[i]) < Len(stack[i]) =>
       \E s \in Sessions : pc[s] = "umount" /\ (inst[s] = i \/ op[s] = "purge")]_vars

\* A process is killed only by a command on the instance it runs in, or on all
\* of them: "each rootfs is an independent instance" (README.md:437).  The pattern
\* of remove also matches a longer name (remove.sh:31).  Not part of a passing run.
OthersProcessesKept ==
  [][\A s \in Sessions, p \in Procs :
       pc[s] = "kill" /\ pc'[s] = "snapshot" /\ root[p] # root'[p] =>
         op[s] = "purge" \/ root[p] \in LoopsAt(inst[s])]_vars

\* A loop device is detached only by a command on its own image, or by the
\* last process leaving it: down reclaims those "left pointing at our image".
\* Not part of a passing run.
OthersDevicesKept ==
  [][\A l \in Loops, s \in Sessions :
       pc[s] = "detach" /\ pc'[s] # "detach" /\ backing[l] # None /\ backing'[l] = None
         => backing[l] = inst[s]]_vars
=============================================================================
