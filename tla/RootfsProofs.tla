---------------------------- MODULE RootfsProofs ----------------------------
(***************************************************************************)
(* Proofs about module Rootfs, for every set of instances, sessions,       *)
(* processes and loop devices.                                             *)
(***************************************************************************)
EXTENDS RootfsProps, SequenceTheorems, FiniteSetTheorems, TLAPS

-----------------------------------------------------------------------------
(* Type correctness.                                                       *)

\* Moving a session on keeps the control state typed.
LEMMA ControlGoto ==
  ASSUME NEW s \in Sessions, NEW l \in Labels, ControlOK, Active(s),
         Goto(s, l), l # "mount",
         \A t \in Sessions : t # s => dev'[t] = dev[t]
  PROVE  ControlOK'
  BY DEF ControlOK, Goto, Active

\* So does ending it.
LEMMA ControlFinish ==
  ASSUME NEW s \in Sessions, NEW v \in Ended, ControlOK, Finish(s, v),
         \A t \in Sessions : t # s => dev'[t] = dev[t]
  PROVE  ControlOK'
  <1>1. v \in Labels /\ v # "mount"
    BY DEF Labels, Ended
  <1>2. QED
    BY <1>1 DEF ControlOK, Finish, Active

\* A session that is at a step of a script is active, and its instance known.
LEMMA AtStep ==
  ASSUME NEW s \in Sessions, ControlOK, pc[s] \notin Ended
  PROVE  Active(s) /\ op[s] \in AllOps /\ inst[s] \in Instances
  BY DEF ControlOK, Active

\* What the labels are, fact by fact.
LEMMA LabelsAre ==
  /\ \A l \in {"isup", "image", "mke2fs", "mounted", "attach", "mount", "prep",
               "chroot", "list", "delete", "check", "truncate", "e2fsck",
               "resize2fs"} : l \in Labels /\ l \notin Ended
  /\ \A l \in Teardown : l \in Labels /\ l \notin Ended /\ l # "mount"
  /\ \A l \in KernelFs : l \in Labels /\ l \notin Ended /\ l # "mount"
  /\ \A k \in KernelFs : NextMount[k] \in Labels /\ NextMount[k] # "mount"
  BY DEF Labels, Ended, Teardown, KernelFs, NextMount

\* Freeing devices keeps them typed.
LEMMA SettleOK ==
  ASSUME NEW gone, KernelOK, Settle(gone)
  PROVE  backing' \in [Loops -> Instances \cup {None}] /\ auto' \in SUBSET Loops
  BY DEF KernelOK, Settle

\* Changing what is mounted below a copy keeps the stack typed.
LEMMA SetTopOK ==
  ASSUME NEW i \in Instances, NEW kfs \in SUBSET KernelFs, KernelOK, Mounted(i),
         SetTop(i, kfs)
  PROVE  stack' \in [Instances -> Seq(Layer)]
  <1>1. stack[i] \in Seq(Layer) /\ stack[i] # <<>>
    BY DEF KernelOK, Mounted
  <1>2. Top(i) \in Layer /\ Tail(stack[i]) \in Seq(Layer)
    BY <1>1 DEF Top
  <1>3. [loop |-> Top(i).loop, kfs |-> kfs] \in Layer
    BY <1>2 DEF Layer
  <1>4. <<[loop |-> Top(i).loop, kfs |-> kfs]>> \o Tail(stack[i]) \in Seq(Layer)
    BY <1>2, <1>3
  <1>5. QED
    BY <1>4 DEF SetTop, KernelOK

\* The topmost copy has a device and a set of kernel filesystems.
LEMMA TopKfs ==
  ASSUME NEW i \in Instances, KernelOK, Mounted(i)
  PROVE  Top(i).kfs \in SUBSET KernelFs /\ Top(i).loop \in Loops
  <1>1. stack[i] \in Seq(Layer) /\ stack[i] # <<>>
    BY DEF KernelOK, Mounted
  <1>2. Top(i) \in Layer
    BY <1>1 DEF Top
  <1>3. QED
    BY <1>2 DEF Layer

\* The steps that only decide where to go next.
Decide(s) == \/ IsUp(s) \/ NeedImage(s) \/ CheckMounted(s) \/ AttachFails(s)
             \/ ChrootFails(s) \/ NothingThere(s) \/ Unmounted(s)
             \/ CheckOffline(s) \/ Fsck(s)

\* Those steps change the control state alone.
LEMMA DecideTyped ==
  ASSUME NEW s \in Sessions, TypeOK, Decide(s)
  PROVE  TypeOK'
  <1>1. UNCHANGED <<files, device, scratch, alone>>
    BY DEF Decide, IsUp, NeedImage, CheckMounted, AttachFails, ChrootFails,
           NothingThere, Unmounted, CheckOffline, Fsck
  <1>2. KernelOK' /\ ScratchOK'
    BY <1>1 DEF TypeOK, KernelOK, ScratchOK, files, device, scratch
  <1>3. dev' = dev
    BY <1>1 DEF scratch
  <1>4. pc[s] \in {"isup", "image", "mounted", "attach", "chroot", "list",
                   "umount", "check", "e2fsck"}
    BY DEF Decide, IsUp, NeedImage, CheckMounted, AttachFails, ChrootFails,
           NothingThere, Unmounted, CheckOffline, Fsck
  <1>5. Active(s) /\ ControlOK
    BY <1>4 DEF TypeOK, Active, Ended
  <1>6. \/ \E v \in Ended : Finish(s, v)
        \/ \E l \in Labels : Goto(s, l) /\ l # "mount"
    BY LabelsAre DEF Decide, IsUp, NeedImage, CheckMounted, AttachFails, ChrootFails,
           NothingThere, Unmounted, CheckOffline, Fsck, Ended, Teardown, KernelFs
  <1>7. ControlOK'
    BY <1>3, <1>5, <1>6, ControlGoto, ControlFinish
  <1>8. QED
    BY <1>2, <1>7 DEF TypeOK

\* The steps that change files.
LEMMA FileSteps ==
  ASSUME NEW s \in Sessions, TypeOK,
         CreateImage(s) \/ Format(s) \/ Grow(s) \/ GrowFs(s) \/ Delete(s)
  PROVE  TypeOK'
  <1> USE DEF CreateImage, Format, Grow, GrowFs, Delete
  <1>1. UNCHANGED <<device, scratch, alone>>
    OBVIOUS
  <1>2. pc[s] \in {"image", "mke2fs", "truncate", "resize2fs", "delete"}
    OBVIOUS
  <1>3. Active(s) /\ ControlOK /\ inst[s] \in Instances
    BY <1>2 DEF TypeOK, ControlOK, Active, Ended
  <1>4. image' \in [Instances -> {"absent", "raw", "ok", "grown"}] /\ helper' \in SUBSET Instances
    BY <1>3 DEF TypeOK, KernelOK, files
  <1>5. KernelOK' /\ ScratchOK'
    BY <1>1, <1>4 DEF TypeOK, KernelOK, ScratchOK, device, scratch
  <1>6. \/ \E v \in Ended : Finish(s, v)
        \/ \E l \in Labels : Goto(s, l) /\ l # "mount"
    BY LabelsAre DEF Ended
  <1>7. ControlOK'
    BY <1>1, <1>3, <1>6, ControlGoto, ControlFinish DEF scratch
  <1>8. QED
    BY <1>5, <1>7 DEF TypeOK

\* Attaching and mounting, and failing to.
LEMMA MountTyped ==
  ASSUME NEW s \in Sessions, TypeOK, Attach(s) \/ Mount(s) \/ MountFails(s)
  PROVE  TypeOK'
  <1>1. Active(s) /\ ControlOK /\ inst[s] \in Instances
    BY DEF TypeOK, ControlOK, Active, Ended, Attach, Mount, MountFails
  <1>2. CASE Attach(s)
    <2>1. PICK l \in Loops : /\ backing' = [backing EXCEPT ![l] = inst[s]]
                             /\ dev' = [dev EXCEPT ![s] = l]
      BY <1>2 DEF Attach
    <2>2. KernelOK' /\ ScratchOK'
      BY <1>1, <1>2, <2>1 DEF Attach, TypeOK, KernelOK, ScratchOK, files
    <2>3. ControlOK'
      BY <1>1, <1>2, <2>1, LabelsAre DEF Attach, TypeOK, ControlOK, ScratchOK, Goto, Active
    <2>4. QED
      BY <2>2, <2>3 DEF TypeOK
  <1>3. CASE Mount(s)
    <2>1. dev[s] \in Loops
      BY <1>3 DEF TypeOK, ControlOK, Mount
    <2>2. [loop |-> dev[s], kfs |-> {}] \in Layer
      BY <2>1 DEF Layer
    <2>3. <<[loop |-> dev[s], kfs |-> {}]>> \o stack[inst[s]] \in Seq(Layer)
      BY <1>1, <2>2 DEF TypeOK, KernelOK
    <2>4. KernelOK' /\ ScratchOK'
      BY <1>3, <2>3 DEF Mount, TypeOK, KernelOK, ScratchOK, files
    <2>5. \/ \E v \in Ended : Finish(s, v)
          \/ \E l \in Labels : Goto(s, l) /\ l # "mount"
      BY <1>3, LabelsAre DEF Mount, Ended, KernelFs
    <2>6. \A t \in Sessions : t # s => dev'[t] = dev[t]
      BY <1>3 DEF Mount, TypeOK, ScratchOK
    <2>7. ControlOK'
      BY <1>1, <2>5, <2>6, ControlGoto, ControlFinish
    <2>8. QED
      BY <2>4, <2>7 DEF TypeOK
  <1>4. CASE MountFails(s)
    <2>1. KernelOK' /\ ScratchOK'
      BY <1>4 DEF MountFails, TypeOK, KernelOK, ScratchOK, files, device
    <2>2. \A t \in Sessions : t # s => dev'[t] = dev[t]
      BY <1>4 DEF MountFails, TypeOK, ScratchOK
    <2>3. ControlOK'
      BY <1>1, <1>4, <2>2, ControlFinish DEF MountFails, Ended
    <2>4. QED
      BY <2>1, <2>3 DEF TypeOK
  <1>5. QED
    BY <1>2, <1>3, <1>4

\* Mounting below the image.
LEMMA BelowTyped ==
  ASSUME NEW s \in Sessions, TypeOK, MountKernelFs(s) \/ Bind(s)
  PROVE  TypeOK'
  <1>1. pc[s] \in KernelFs
    BY DEF MountKernelFs, Bind, KernelFs
  <1>2. Active(s) /\ ControlOK /\ inst[s] \in Instances
    BY <1>1, LabelsAre DEF TypeOK, ControlOK, Active
  <1>3. \/ UNCHANGED stack
        \/ /\ Mounted(inst[s])
           /\ SetTop(inst[s], Top(inst[s]).kfs \cup {pc[s]})
    BY DEF MountKernelFs, Bind
  <1>4. stack' \in [Instances -> Seq(Layer)]
    <2>1. CASE UNCHANGED stack
      BY <2>1 DEF TypeOK, KernelOK
    <2>2. CASE Mounted(inst[s]) /\ SetTop(inst[s], Top(inst[s]).kfs \cup {pc[s]})
      <3>1. Top(inst[s]).kfs \cup {pc[s]} \in SUBSET KernelFs
        BY <1>1, <1>2, <2>2, TopKfs DEF TypeOK
      <3>2. QED
        BY <1>2, <2>2, <3>1, SetTopOK DEF TypeOK
    <2>3. QED
      BY <1>3, <2>1, <2>2
  <1>5. KernelOK' /\ ScratchOK' /\ dev' = dev
    BY <1>4 DEF MountKernelFs, Bind, TypeOK, KernelOK, ScratchOK, files, scratch
  <1>6. \/ \E v \in Ended : Finish(s, v)
        \/ \E l \in Labels : Goto(s, l) /\ l # "mount"
    BY <1>1, LabelsAre DEF MountKernelFs, Bind, Ended, KernelFs
  <1>7. ControlOK'
    BY <1>2, <1>5, <1>6, ControlGoto, ControlFinish
  <1>8. QED
    BY <1>5, <1>7 DEF TypeOK

\* The steps that root a process.
RootStep(s) == Prepare(s) \/ Chroot(s)

\* They leave the state typed.
LEMMA RootTyped ==
  ASSUME NEW s \in Sessions, TypeOK, RootStep(s)
  PROVE  TypeOK'
  <1> USE DEF RootStep, Prepare, Chroot
  <1>1. Active(s) /\ ControlOK /\ inst[s] \in Instances
    BY DEF TypeOK, ControlOK, Active, Ended
  <1>2. root' \in [Procs -> Loops \cup {None}]
    <2>1. ASSUME Mounted(inst[s]), Rooted(inst[s])
          PROVE  root' \in [Procs -> Loops \cup {None}]
      BY <2>1, <1>1, TopKfs DEF TypeOK, KernelOK, Rooted
    <2>2. QED
      BY <2>1 DEF TypeOK, KernelOK
  <1>3. KernelOK' /\ ScratchOK' /\ dev' = dev
    BY <1>1, <1>2 DEF TypeOK, KernelOK, ScratchOK, files, scratch
  <1>4. (\E v \in Ended : Finish(s, v)) \/ Goto(s, "chroot")
    BY DEF Ended
  <1>5. ControlOK'
    BY <1>1, <1>3, <1>4, LabelsAre, ControlFinish, ControlGoto
  <1>6. QED
    BY <1>3, <1>5 DEF TypeOK

\* The steps of a teardown that list and kill.
LEMMA ScanTyped ==
  ASSUME NEW s \in Sessions, TypeOK, ListPids(s) \/ Kill(s) \/ Snapshot(s)
  PROVE  TypeOK'
  <1> USE DEF ListPids, Kill, Snapshot
  <1>1. pc[s] \in {"list", "kill", "snapshot"}
    OBVIOUS
  <1>2. Active(s) /\ ControlOK /\ inst[s] \in Instances /\ op[s] \in AllOps
    BY <1>1 DEF TypeOK, ControlOK, Active, Ended
  <1>3. KernelOK'
    BY DEF TypeOK, KernelOK, files, device
  <1>4. dev' = dev /\ alone' \in SUBSET Sessions /\ pids' \in [Sessions -> SUBSET Procs]
    BY DEF TypeOK, ScratchOK, scratch
  <1>5. todo' \in [Sessions -> SUBSET (Instances \X (KernelFs \cup {"root"}) \X Nat)]
    <2>1. CASE ListPids(s) \/ Kill(s)
      BY <2>1 DEF TypeOK, ScratchOK
    <2>2. CASE Snapshot(s)
      <3> DEFINE scope == UmountScope(op[s], inst[s])
                 new == {t \in scope \X KernelFs \X {0} : Listed(t[1], t[2])}
                          \cup UNION {{<<i, "root", n>> : n \in DOMAIN stack[i]} : i \in scope}
      <3>1. scope \subseteq Instances
        BY <1>2 DEF UmountScope
      <3>2. \A i \in Instances : DOMAIN stack[i] \subseteq Nat
        BY DEF TypeOK, KernelOK
      <3>3. new \subseteq Instances \X (KernelFs \cup {"root"}) \X Nat
        BY <3>1, <3>2
      <3>4. todo' = [todo EXCEPT ![s] = new]
        BY <2>2
      <3>5. QED
        BY <3>3, <3>4 DEF TypeOK, ScratchOK
    <2>3. QED
      BY <2>1, <2>2
  <1>6. ControlOK'
    BY <1>2, <1>4, LabelsAre, ControlGoto DEF Teardown
  <1>7. QED
    BY <1>3, <1>4, <1>5, <1>6 DEF TypeOK, ScratchOK

\* The unmounts.
LEMMA UmountTyped ==
  ASSUME NEW s \in Sessions, TypeOK, UmountSub(s) \/ UmountRoot(s)
  PROVE  TypeOK'
  <1>1. PICK t \in Deepest(s) : todo' = [todo EXCEPT ![s] = @ \ {t}]
    BY DEF UmountSub, UmountRoot
  <1>2. ScratchOK' /\ ControlOK'
    BY <1>1 DEF UmountSub, UmountRoot, TypeOK, ScratchOK, ControlOK, Active
  <1>3. \A u \in Deepest(s) : u[1] \in Instances
    BY DEF Deepest, TypeOK, ScratchOK
  <1>4. CASE UmountSub(s)
    <2>1. \/ UNCHANGED stack
          \/ \E u \in Deepest(s) :
               Mounted(u[1]) /\ SetTop(u[1], Top(u[1]).kfs \ Subtree(u[2]))
      BY <1>4 DEF UmountSub
    <2>2. stack' \in [Instances -> Seq(Layer)]
      <3>1. CASE UNCHANGED stack
        BY <3>1 DEF TypeOK, KernelOK
      <3>2. ASSUME NEW u \in Deepest(s), Mounted(u[1]),
                   SetTop(u[1], Top(u[1]).kfs \ Subtree(u[2]))
            PROVE  stack' \in [Instances -> Seq(Layer)]
        <4>1. Top(u[1]).kfs \ Subtree(u[2]) \in SUBSET KernelFs
          BY <1>3, <3>2, TopKfs DEF TypeOK
        <4>2. QED
          BY <1>3, <3>2, <4>1, SetTopOK DEF TypeOK
      <3>3. QED
        BY <2>1, <3>1, <3>2
    <2>3. KernelOK'
      BY <1>4, <2>2 DEF UmountSub, TypeOK, KernelOK, files
    <2>4. QED
      BY <1>2, <2>3 DEF TypeOK
  <1>5. CASE UmountRoot(s)
    <2>1. PICK u \in Deepest(s) :
            IF Mounted(u[1])
              THEN /\ stack' = [stack EXCEPT ![u[1]] = Tail(@)]
                   /\ \E gone : Settle(gone)
              ELSE UNCHANGED <<stack, backing, auto>>
      BY <1>5 DEF UmountRoot
    <2>2. stack' \in [Instances -> Seq(Layer)]
      <3>1. ASSUME NEW i \in Instances, Mounted(i), stack' = [stack EXCEPT ![i] = Tail(@)]
            PROVE  stack' \in [Instances -> Seq(Layer)]
        <4>1. stack[i] \in Seq(Layer) /\ stack[i] # <<>>
          BY <3>1 DEF Mounted, TypeOK, KernelOK
        <4>2. Tail(stack[i]) \in Seq(Layer)
          BY <4>1
        <4>3. QED
          BY <3>1, <4>2 DEF TypeOK, KernelOK
      <3>2. QED
        BY <1>3, <2>1, <3>1 DEF TypeOK, KernelOK
    <2>3. backing' \in [Loops -> Instances \cup {None}] /\ auto' \in SUBSET Loops
      BY <2>1, SettleOK DEF TypeOK, KernelOK
    <2>4. KernelOK'
      BY <1>5, <2>2, <2>3 DEF UmountRoot, TypeOK, KernelOK, files
    <2>5. QED
      BY <1>2, <2>4 DEF TypeOK
  <1>6. QED
    BY <1>4, <1>5

\* Detaching loop devices.
LEMMA DetachTyped ==
  ASSUME NEW s \in Sessions, TypeOK, Detach(s)
  PROVE  TypeOK'
  <1>1. Active(s) /\ ControlOK
    BY DEF TypeOK, Active, Ended, Detach
  <1>2. KernelOK' /\ ScratchOK' /\ dev' = dev
    BY DEF Detach, TypeOK, KernelOK, ScratchOK, files, scratch
  <1>3. \/ \E v \in Ended : Finish(s, v)
        \/ \E l \in Labels : Goto(s, l) /\ l # "mount"
    BY LabelsAre DEF Detach, Ended
  <1>4. ControlOK'
    BY <1>1, <1>2, <1>3, ControlGoto, ControlFinish
  <1>5. QED
    BY <1>2, <1>4 DEF TypeOK

\* Every step of a script leaves the state typed ...
LEMMA StepTyped ==
  ASSUME NEW s \in Sessions, TypeOK, Step(s)
  PROVE  TypeOK'
  BY DecideTyped, FileSteps, MountTyped, BelowTyped, RootTyped, ScanTyped,
     UmountTyped, DetachTyped DEF Step, Up, TakeDown, Resize, Decide, RootStep

\* ... and so does starting one,
LEMMA StartTyped ==
  ASSUME NEW s \in Sessions, NEW o \in Ops, NEW i \in Instances, TypeOK, Start(s, o, i)
  PROVE  TypeOK'
  <1>1. KernelOK' /\ ScratchOK'
    BY DEF Start, TypeOK, KernelOK, ScratchOK, files, device, scratch
  <1>2. o \in AllOps
    BY ConstantsAssumption
  <1>3. FirstStep[o] \in Labels /\ FirstStep[o] # "mount"
    BY <1>2, LabelsAre DEF AllOps, FirstStep
  <1>4. ControlOK'
    BY <1>2, <1>3 DEF Start, TypeOK, ControlOK, Active, scratch
  <1>5. QED
    BY <1>1, <1>4 DEF TypeOK

\* what processes and the device do by themselves,
LEMMA EnvironmentTyped ==
  ASSUME TypeOK,
         \/ \E p, q \in Procs : Fork(p, q)
         \/ \E p \in Procs : Exit(p)
         \/ Reboot
  PROVE  TypeOK'
  <1>1. ASSUME NEW p \in Procs, NEW q \in Procs, Fork(p, q) PROVE TypeOK'
    BY <1>1 DEF Fork, TypeOK, KernelOK, ScratchOK, ControlOK, Active, files, scratch
  <1>2. ASSUME NEW p \in Procs, Exit(p) PROVE TypeOK'
    <2>1. backing' \in [Loops -> Instances \cup {None}] /\ auto' \in SUBSET Loops
      BY <1>2, SettleOK DEF Exit, TypeOK
    <2>2. QED
      BY <1>2, <2>1 DEF Exit, TypeOK, KernelOK, ScratchOK, ControlOK, Active, files, scratch
  <1>3. ASSUME Reboot PROVE TypeOK'
    <2>1. KernelOK' /\ ScratchOK'
      BY <1>3 DEF Reboot, TypeOK, KernelOK, ScratchOK, files
    <2>2. \A s \in Sessions : pc'[s] \in Ended /\ pc'[s] \in Labels /\ pc'[s] # "mount"
      BY <1>3 DEF Reboot, TypeOK, ControlOK, Active, Ended, Labels
    <2>3. ControlOK'
      BY <1>3, <2>2 DEF Reboot, ControlOK, Active
    <2>4. QED
      BY <2>1, <2>3 DEF TypeOK
  <1>4. QED
    BY <1>1, <1>2, <1>3

\* and a script that ends early.
LEMMA CutTyped ==
  ASSUME NEW s \in Sessions, TypeOK, Cut(s)
  PROVE  TypeOK'
  <1>1. KernelOK' /\ ScratchOK'
    BY DEF Cut, Forget, TypeOK, KernelOK, ScratchOK, files, device
  <1>2. \A t \in Sessions : t # s => dev'[t] = dev[t]
    BY DEF Cut, Forget, TypeOK, ScratchOK
  <1>3. \/ Finish(s, "failed")
        \/ Goto(s, "check")
    BY DEF Cut
  <1>4. ControlOK'
    BY <1>2, <1>3, LabelsAre, ControlGoto, ControlFinish DEF Cut, TypeOK, Ended
  <1>5. QED
    BY <1>1, <1>4 DEF TypeOK

\* The initial states are typed.
LEMMA InitTyped == Init => TypeOK
  BY DEF Init, TypeOK, KernelOK, ScratchOK, ControlOK, Active, Ended, Labels

\* TypeOK is inductive.
LEMMA NextTyped == TypeOK /\ [Next]_vars => TypeOK'
  <1> SUFFICES ASSUME TypeOK, [Next]_vars PROVE TypeOK'
    OBVIOUS
  <1>1. CASE Next
    BY <1>1, StepTyped, StartTyped, CutTyped, EnvironmentTyped DEF Next
  <1>2. CASE UNCHANGED vars
    BY <1>2 DEF vars, files, device, scratch, TypeOK, KernelOK, ScratchOK, ControlOK, Active
  <1>3. QED
    BY <1>1, <1>2

\* Every reachable state is well typed, for any number of instances, sessions,
\* processes and devices: in particular a script at work always has an
\* instance, and `mount` is never reached without a device.
THEOREM TypeCorrect == Spec => []TypeOK
  <1>1. Init => TypeOK
    BY InitTyped
  <1>2. TypeOK /\ [Next]_vars => TypeOK'
    BY NextTyped
  <1>3. QED
    BY <1>1, <1>2, PTL DEF Spec

-----------------------------------------------------------------------------
(* Serial use: one command at a time, and killed processes die at once.    *)

\* Only the session at work is held to anything.
LEMMA Focus ==
  ASSUME NEW s \in Sessions, SerialInv, Active(s), TypeOK',
         \A t \in Sessions : t # s => pc'[t] = pc[t],
         OneLayer', NoneDetached', SessionInv(s)'
  PROVE  SerialInv'
  <1>1. \A t \in Sessions : t # s => pc'[t] \in Ended
    BY DEF SerialInv, OneActive, Active
  <1>2. OneActive'
    BY <1>1 DEF OneActive, Active
  <1>3. \A t \in Sessions : t # s => SessionInv(t)'
    BY <1>1 DEF SessionInv, AtMount, AtTeardown, AtResize, Ended
  <1>4. QED
    BY <1>2, <1>3 DEF SerialInv

\* The steps at which SessionInv says something.
Held == {"attach", "mount", "kill", "snapshot", "umount", "detach", "delete",
         "truncate", "e2fsck", "resize2fs"}

\* At the other steps nothing is relied on.
LEMMA Unheld ==
  ASSUME NEW s \in Sessions, pc[s] \notin Held
  PROVE  SessionInv(s)
  BY DEF Held, SessionInv, AtMount, AtTeardown, AtResize

\* Where Goto leads.
LEMMA GotoPc ==
  ASSUME NEW s \in Sessions, NEW l, TypeOK, Goto(s, l)
  PROVE  pc'[s] = l /\ op' = op /\ inst' = inst /\ \A t \in Sessions : t # s => pc'[t] = pc[t]
  BY DEF Goto, TypeOK, ControlOK

\* Where Finish leads.
LEMMA FinishPc ==
  ASSUME NEW s \in Sessions, NEW v, TypeOK, Finish(s, v)
  PROVE  pc'[s] = v /\ \A t \in Sessions : t # s => pc'[t] = pc[t]
  BY DEF Finish, TypeOK, ControlOK

\* With one copy at most, what is on a mount point is its topmost copy.
LEMMA CopyAt ==
  ASSUME NEW i \in Instances, TypeOK, OneLayer
  PROVE  /\ stack[i] = <<>> => LoopsAt(i) = {}
         /\ stack[i] # <<>> => /\ LoopsAt(i) = {Top(i).loop}
                              /\ Top(i).loop \in Loops
                              /\ backing[Top(i).loop] = i
                              /\ Tail(stack[i]) = <<>>
  <1>1. CASE stack[i] = <<>>
    BY <1>1 DEF LoopsAt
  <1>2. CASE stack[i] # <<>>
    <2>1. stack[i] \in Seq(Layer) /\ Len(stack[i]) = 1 /\ backing[stack[i][1].loop] = i
      BY <1>2 DEF TypeOK, KernelOK, OneLayer
    <2>2. DOMAIN stack[i] = {1} /\ Top(i) = stack[i][1] /\ stack[i][1] \in Layer
      BY <2>1, <1>2 DEF Top
    <2>3. Tail(stack[i]) = <<>>
      <3>1. Tail(stack[i]) \in Seq(Layer) /\ Len(Tail(stack[i])) = 0
        BY <1>2, <2>1
      <3>2. QED
        BY <3>1, EmptySeq
    <2>4. LoopsAt(i) = {Top(i).loop}
      BY <2>2 DEF LoopsAt
    <2>5. QED
      BY <1>2, <2>1, <2>2, <2>3, <2>4 DEF Layer
  <1>3. QED
    BY <1>1, <1>2

\* Steps that leave mounts, devices and processes alone.
LEMMA QuietStep ==
  ASSUME NEW s \in Sessions, SerialInv, TypeOK',
         \/ Decide(s) \/ CreateImage(s) \/ Format(s) \/ Grow(s) \/ GrowFs(s)
         \/ Delete(s) \/ MountFails(s)
  PROVE  SerialInv'
  <1> USE DEF Decide, IsUp, NeedImage, CheckMounted, AttachFails, ChrootFails,
              NothingThere, Unmounted, CheckOffline, Fsck, CreateImage, Format,
              Grow, GrowFs, Delete, MountFails
  <1>1. UNCHANGED device
    OBVIOUS
  <1>2. pc[s] \notin Ended
    BY DEF Ended
  <1>3. \/ \E v \in Ended : Finish(s, v)
        \/ \E l \in Labels \ Held : Goto(s, l)
        \/ pc[s] = "mounted" /\ stack[inst[s]] = <<>> /\ Goto(s, "attach")
        \/ pc[s] = "umount" /\ todo[s] = {} /\ Goto(s, "detach")
        \/ pc[s] = "check" /\ stack[inst[s]] = <<>> /\ Goto(s, "truncate")
        \/ pc[s] = "truncate" /\ Goto(s, "e2fsck")
        \/ pc[s] = "e2fsck" /\ Goto(s, "resize2fs")
    BY DEF Ended, Held, Labels, KernelFs, Mounted
  <1>4. SessionInv(s) /\ TypeOK
    BY DEF SerialInv
  <1>5. SessionInv(s)' /\ \A t \in Sessions : t # s => pc'[t] = pc[t]
    <2>1. ASSUME NEW v \in Ended, Finish(s, v)
          PROVE  SessionInv(s)' /\ \A t \in Sessions : t # s => pc'[t] = pc[t]
      BY <2>1, <1>4, FinishPc DEF Ended, SessionInv, AtMount, AtTeardown, AtResize
    <2>2. ASSUME NEW l \in Labels \ Held, Goto(s, l)
          PROVE  SessionInv(s)' /\ \A t \in Sessions : t # s => pc'[t] = pc[t]
      BY <2>2, <1>4, GotoPc DEF Held, SessionInv, AtMount, AtTeardown, AtResize
    <2>3. ASSUME pc[s] = "umount", todo[s] = {}, Goto(s, "detach")
          PROVE  SessionInv(s)' /\ \A t \in Sessions : t # s => pc'[t] = pc[t]
      BY <2>3, <1>1, <1>4, GotoPc DEF SessionInv, AtMount, AtTeardown, AtResize, Scope, device
    <2>4. ASSUME NEW l \in {"attach", "truncate", "e2fsck", "resize2fs"}, Goto(s, l),
                 stack[inst[s]] = <<>>
          PROVE  SessionInv(s)' /\ \A t \in Sessions : t # s => pc'[t] = pc[t]
      BY <2>4, <1>1, <1>4, GotoPc DEF SessionInv, AtMount, AtTeardown, AtResize, device
    <2>5. pc[s] \in {"truncate", "e2fsck"} => stack[inst[s]] = <<>>
      BY <1>4 DEF SessionInv, AtResize
    <2>6. QED
      BY ONLY <1>3, <2>1, <2>2, <2>3, <2>4, <2>5
  <1>6. OneLayer' /\ NoneDetached'
    BY ONLY <1>1, SerialInv DEF device, SerialInv, OneLayer, NoneDetached, MountedLoops, LoopsAt
  <1>7. QED
    BY ONLY <1>2, <1>5, <1>6, SerialInv, TypeOK', Focus DEF Active

\* Changing what is mounted below a copy leaves the copies where they are.
LEMMA SetTopKeeps ==
  ASSUME NEW i \in Instances, NEW kfs \in SUBSET KernelFs, TypeOK, OneLayer,
         Mounted(i), SetTop(i, kfs), backing' = backing
  PROVE  /\ OneLayer'
         /\ \A j \in Instances : /\ LoopsAt(j)' = LoopsAt(j)
                                 /\ stack'[j] = <<>> <=> stack[j] = <<>>
  <1> DEFINE layer == [loop |-> Top(i).loop, kfs |-> kfs]
  <1>1. Tail(stack[i]) = <<>> /\ Top(i).loop \in Loops /\ backing[Top(i).loop] = i
        /\ LoopsAt(i) = {Top(i).loop}
    BY CopyAt DEF Mounted
  <1>2. layer \in Layer
    BY <1>1 DEF Layer
  <1>3. <<layer>> \o <<>> = <<layer>>
    BY <1>2
  <1>4. stack' = [stack EXCEPT ![i] = <<layer>>]
    BY <1>1, <1>3 DEF SetTop
  <1>5. stack'[i] = <<layer>> /\ \A j \in Instances : j # i => stack'[j] = stack[j]
    BY <1>4 DEF TypeOK, KernelOK
  <1>6. LoopsAt(i)' = {Top(i).loop}
    BY <1>5 DEF LoopsAt
  <1>7. Len(<<layer>>) = 1 /\ <<layer>>[1].loop = Top(i).loop /\ <<layer>> # <<>>
    OBVIOUS
  <1> HIDE DEF layer
  <1>8. ASSUME NEW j \in Instances, stack'[j] # <<>>
        PROVE  Len(stack'[j]) = 1 /\ backing'[stack'[j][1].loop] = j
    <2>1. CASE j = i
      BY <1>1, <1>5, <1>7, <2>1
    <2>2. CASE j # i
      BY <1>5, <1>8, <2>2 DEF OneLayer
    <2>3. QED
      BY <2>1, <2>2
  <1>9. ASSUME NEW j \in Instances
        PROVE  LoopsAt(j)' = LoopsAt(j) /\ (stack'[j] = <<>> <=> stack[j] = <<>>)
    <2>1. CASE j = i
      BY <1>1, <1>5, <1>6, <1>7, <2>1 DEF Mounted
    <2>2. CASE j # i
      BY <1>5, <2>2 DEF LoopsAt
    <2>3. QED
      BY <2>1, <2>2
  <1>10. QED
    BY <1>8, <1>9 DEF OneLayer

\* Nothing of what a session may rely on changes if the copies stay in place.
LEMMA BelowStep ==
  ASSUME NEW s \in Sessions, SerialInv, TypeOK', MountKernelFs(s) \/ Bind(s)
  PROVE  SerialInv'
  <1>1. pc[s] \in KernelFs /\ UNCHANGED <<backing, root>>
    BY DEF MountKernelFs, Bind, KernelFs
  <1>2. Active(s) /\ inst[s] \in Instances /\ TypeOK /\ OneLayer
    BY <1>1, LabelsAre DEF SerialInv, TypeOK, ControlOK, Active
  <1>3. \/ UNCHANGED stack
        \/ /\ Mounted(inst[s])
           /\ SetTop(inst[s], Top(inst[s]).kfs \cup {pc[s]})
    BY DEF MountKernelFs, Bind
  <1>4. OneLayer' /\ \A j \in Instances : LoopsAt(j)' = LoopsAt(j)
    <2>1. CASE UNCHANGED stack
      BY <2>1, <1>1, <1>2 DEF OneLayer, LoopsAt
    <2>2. CASE Mounted(inst[s]) /\ SetTop(inst[s], Top(inst[s]).kfs \cup {pc[s]})
      <3>1. Top(inst[s]).kfs \cup {pc[s]} \in SUBSET KernelFs
        BY <1>1, <1>2, <2>2, TopKfs DEF TypeOK
      <3>2. QED
        BY <1>1, <1>2, <2>2, <3>1, SetTopKeeps
    <2>3. QED
      BY <1>3, <2>1, <2>2
  <1>5. NoneDetached'
    BY <1>1, <1>4 DEF SerialInv, NoneDetached, MountedLoops
  <1>6. \/ \E v \in Ended : Finish(s, v)
        \/ \E l \in KernelFs \cup {"prep"} : Goto(s, l)
    BY <1>1 DEF MountKernelFs, Bind, Ended, KernelFs, NextMount
  <1>7. pc'[s] \notin Held /\ \A t \in Sessions : t # s => pc'[t] = pc[t]
    BY <1>2, <1>6, FinishPc, GotoPc DEF Held, Ended, KernelFs
  <1>8. SessionInv(s)'
    BY <1>7 DEF Held, SessionInv, AtMount, AtTeardown, AtResize
  <1>9. QED
    BY <1>2, <1>4, <1>5, <1>7, <1>8, Focus

\* A copy is attached and mounted where there was none.
LEMMA MountStep ==
  ASSUME NEW s \in Sessions, SerialInv, TypeOK', Attach(s) \/ Mount(s)
  PROVE  SerialInv'
  <1>1. Active(s) /\ inst[s] \in Instances /\ TypeOK /\ OneLayer /\ SessionInv(s)
    BY DEF SerialInv, TypeOK, ControlOK, Active, Ended, Attach, Mount
  <1>2. stack[inst[s]] = <<>>
    BY <1>1 DEF SessionInv, AtMount, Attach, Mount
  <1>3. CASE Attach(s)
    <2>1. PICK l \in Loops : /\ backing[l] = None
                             /\ backing' = [backing EXCEPT ![l] = inst[s]]
                             /\ dev' = [dev EXCEPT ![s] = l]
      BY <1>3 DEF Attach
    <2>2. pc'[s] = "mount" /\ inst' = inst /\ \A t \in Sessions : t # s => pc'[t] = pc[t]
      BY <1>1, <1>3, GotoPc DEF Attach
    <2>3. OneLayer'
      <3>1. ASSUME NEW i \in Instances, stack[i] # <<>>
            PROVE  Len(stack[i]) = 1 /\ backing'[stack[i][1].loop] = i
        <4>1. stack[i][1].loop \in Loops /\ backing[stack[i][1].loop] = i /\ Len(stack[i]) = 1
          BY <1>1, <3>1, CopyAt DEF Top, OneLayer
        <4>2. stack[i][1].loop # l
          BY <2>1, <4>1, ConstantsAssumption
        <4>3. QED
          BY <2>1, <4>1, <4>2 DEF TypeOK, KernelOK
      <3>2. stack' = stack
        BY <1>3 DEF Attach
      <3>3. QED
        BY <3>1, <3>2 DEF OneLayer
    <2>4. NoneDetached'
      BY <1>3 DEF Attach, SerialInv, NoneDetached, MountedLoops, LoopsAt
    <2>5. backing'[dev'[s]] = inst[s]
      BY <1>1, <2>1 DEF TypeOK, KernelOK, ScratchOK
    <2>6. SessionInv(s)'
      BY <1>2, <1>3, <2>2, <2>5 DEF Attach, SessionInv, AtMount, AtTeardown, AtResize
    <2>7. QED
      BY <1>1, <2>2, <2>3, <2>4, <2>6, Focus
  <1>4. CASE Mount(s)
    <2> DEFINE layer == [loop |-> dev[s], kfs |-> {}]
    <2>1. dev[s] \in Loops /\ backing[dev[s]] = inst[s]
      BY <1>1, <1>4 DEF TypeOK, ControlOK, SessionInv, AtMount, Mount
    <2>2. <<layer>> \o <<>> = <<layer>>
      OBVIOUS
    <2>3. stack'[inst[s]] = <<layer>> /\ \A j \in Instances : j # inst[s] => stack'[j] = stack[j]
      BY <1>1, <1>2, <1>4, <2>2 DEF Mount, TypeOK, KernelOK
    <2>4. OneLayer'
      BY <1>1, <1>4, <2>1, <2>3 DEF Mount, OneLayer
    <2>5. \A j \in Instances : LoopsAt(j) \subseteq LoopsAt(j)'
      BY <1>1, <1>2, <2>3, CopyAt DEF LoopsAt
    <2>6. NoneDetached'
      BY <1>4, <2>5 DEF Mount, SerialInv, NoneDetached, MountedLoops
    <2>7. \/ \E v \in Ended : Finish(s, v)
          \/ Goto(s, "proc")
      BY <1>4 DEF Mount, Ended
    <2>8. pc'[s] \notin Held /\ \A t \in Sessions : t # s => pc'[t] = pc[t]
      BY <1>1, <2>7, FinishPc, GotoPc DEF Held, Ended
    <2>9. SessionInv(s)'
      BY <2>8 DEF Held, SessionInv, AtMount, AtTeardown, AtResize
    <2>10. QED
      BY <1>1, <2>4, <2>6, <2>8, <2>9, Focus
  <1>5. QED
    BY <1>3, <1>4

\* A process is rooted in a copy that is mounted.
LEMMA RootedStep ==
  ASSUME NEW s \in Sessions, SerialInv, TypeOK', RootStep(s)
  PROVE  SerialInv'
  <1> USE DEF RootStep, Prepare, Chroot
  <1>1. Active(s) /\ inst[s] \in Instances /\ TypeOK /\ OneLayer
    BY DEF SerialInv, TypeOK, ControlOK, Active, Ended
  <1>2. UNCHANGED <<stack, backing>>
    OBVIOUS
  <1>3. NoneDetached'
    <2>1. MountedLoops' = MountedLoops /\ NoneDetached
      BY <1>2 DEF MountedLoops, LoopsAt, SerialInv
    <2>2. CASE UNCHANGED root
      BY ONLY <2>1, <2>2 DEF NoneDetached
    <2>3. CASE Mounted(inst[s]) /\ Rooted(inst[s])
      <3>1. Top(inst[s]).loop \in MountedLoops
        BY <1>1, <2>3, CopyAt DEF Mounted, MountedLoops
      <3>2. QED
        BY <2>1, <2>3, <3>1, <1>1 DEF NoneDetached, Rooted, TypeOK, KernelOK
    <2>4. QED
      BY <2>2, <2>3
  <1>4. OneLayer'
    BY <1>1, <1>2 DEF OneLayer
  <1>5. pc'[s] \in {"ok", "failed", "chroot"} /\ \A t \in Sessions : t # s => pc'[t] = pc[t]
    BY <1>1, FinishPc, GotoPc
  <1>6. SessionInv(s)'
    BY <1>5 DEF SessionInv, AtMount, AtTeardown, AtResize
  <1>7. QED
    BY <1>1, <1>3, <1>4, <1>5, <1>6, Focus

\* A teardown unmounts instances, and only those whose processes it kills.
LEMMA ScopeOK ==
  ASSUME NEW o \in AllOps, NEW i \in Instances
  PROVE  /\ UmountScope(o, i) \subseteq Instances
         /\ UmountScope(o, i) \subseteq KillScope(o, i)
  BY ConstantsAssumption DEF UmountScope, KillScope

\* ls, then kill -9: every process that was listed in a copy within reach is
\* gone, and with nothing forking in between that is every process in it.
LEMMA KillStep ==
  ASSUME NEW s \in Sessions, SerialInv, TypeOK', ~Stragglers, ListPids(s) \/ Kill(s)
  PROVE  SerialInv'
  <1>1. /\ Active(s) /\ inst[s] \in Instances /\ op[s] \in AllOps
        /\ TypeOK /\ OneLayer /\ NoneDetached /\ SessionInv(s)
    BY DEF SerialInv, TypeOK, ControlOK, Active, Ended, ListPids, Kill
  <1>2. CASE ListPids(s)
    <2>1. pc'[s] = "kill" /\ \A t \in Sessions : t # s => pc'[t] = pc[t]
      BY <1>1, <1>2, GotoPc DEF ListPids
    <2>2. \A p \in Procs : root'[p] # None => p \in pids'[s]
      BY <1>1, <1>2 DEF ListPids, device, TypeOK, ScratchOK
    <2>3. OneLayer' /\ NoneDetached'
      BY <1>1, <1>2 DEF ListPids, device, OneLayer, NoneDetached, MountedLoops, LoopsAt
    <2>4. SessionInv(s)'
      BY <2>1, <2>2 DEF SessionInv, AtMount, AtTeardown, AtResize
    <2>5. QED
      BY <1>1, <2>1, <2>3, <2>4, Focus
  <1>3. CASE Kill(s)
    <2> DEFINE hit == {p \in pids[s] : \E i \in KillScope(op[s], inst[s]) :
                                        root[p] \in LoopsAt(i)}
    <2>1. /\ pc'[s] = "snapshot" /\ op' = op /\ inst' = inst
          /\ \A t \in Sessions : t # s => pc'[t] = pc[t]
      BY <1>1, <1>3, GotoPc DEF Kill
    <2>2. /\ root' = [p \in Procs |-> IF p \in hit THEN None ELSE root[p]]
          /\ UNCHANGED <<stack, backing>>
      BY <1>3 DEF Kill
    <2>3. OneLayer' /\ NoneDetached'
      BY <1>1, <2>2 DEF OneLayer, NoneDetached, MountedLoops, LoopsAt
    <2>4. ASSUME NEW i \in Scope(s), NEW p \in Procs, root'[p] \in LoopsAt(i)
          PROVE  FALSE
      <3>1. i \in Instances /\ i \in KillScope(op[s], inst[s])
        BY <1>1, ScopeOK DEF Scope
      <3>2. LoopsAt(i) \subseteq Loops
        BY <1>1, <3>1, CopyAt
      <3>3. root'[p] # None
        BY <2>4, <3>2, ConstantsAssumption
      <3>4. root'[p] = root[p] /\ p \notin hit
        BY <2>2, <3>3
      <3>5. p \in pids[s]
        BY <1>1, <1>3, <3>3, <3>4 DEF Kill, SessionInv, AtTeardown
      <3>6. QED
        BY <2>4, <3>1, <3>4, <3>5
    <2>5. SessionInv(s)'
      BY <2>1, <2>2, <2>4 DEF SessionInv, AtMount, AtTeardown, AtResize, Scope, LoopsAt
    <2>6. QED
      BY <1>1, <2>1, <2>3, <2>5, Focus
  <1>4. QED
    BY <1>2, <1>3

\* The root of every copy in scope is put on the list.
LEMMA SnapshotStep ==
  ASSUME NEW s \in Sessions, SerialInv, TypeOK', Snapshot(s)
  PROVE  SerialInv'
  <1>1. /\ Active(s) /\ inst[s] \in Instances /\ op[s] \in AllOps
        /\ TypeOK /\ OneLayer /\ NoneDetached /\ SessionInv(s)
    BY DEF SerialInv, TypeOK, ControlOK, Active, Ended, Snapshot
  <1>2. /\ pc'[s] = "umount" /\ op' = op /\ inst' = inst
        /\ \A t \in Sessions : t # s => pc'[t] = pc[t]
    BY <1>1, GotoPc DEF Snapshot
  <1>3. UNCHANGED <<stack, backing, root>>
    BY DEF Snapshot, device
  <1>4. OneLayer' /\ NoneDetached'
    BY <1>1, <1>3 DEF OneLayer, NoneDetached, MountedLoops, LoopsAt
  <1>5. todo'[s] = {t \in Scope(s) \X KernelFs \X {0} : Listed(t[1], t[2])}
           \cup UNION {{<<i, "root", n>> : n \in DOMAIN stack[i]} : i \in Scope(s)}
    BY <1>1 DEF Snapshot, Scope, TypeOK, ScratchOK
  <1>6. \A t \in todo'[s] : t[1] \in Scope(s)
    BY <1>5
  <1>7. ASSUME NEW i \in Scope(s), stack[i] # <<>>
        PROVE  <<i, "root", 1>> \in todo'[s]
    <2>1. i \in Instances
      BY <1>1, ScopeOK DEF Scope
    <2>2. Len(stack[i]) = 1 /\ stack[i] \in Seq(Layer)
      BY <1>1, <1>7, <2>1 DEF OneLayer, TypeOK, KernelOK
    <2>3. 1 \in DOMAIN stack[i]
      BY <2>2
    <2>4. QED
      BY <1>5, <2>3
  <1>8. \A i \in Scope(s), p \in Procs : root[p] \notin LoopsAt(i)
    BY <1>1 DEF Snapshot, SessionInv, AtTeardown
  <1>9. SessionInv(s)'
    BY <1>2, <1>3, <1>6, <1>7, <1>8 DEF SessionInv, AtMount, AtTeardown, AtResize, Scope, LoopsAt
  <1>10. QED
    BY <1>1, <1>2, <1>4, <1>9, Focus

\* An unmount does not move its session on.
LEMMA UmountPc ==
  ASSUME NEW s \in Sessions, SerialInv, UmountSub(s) \/ UmountRoot(s)
  PROVE  /\ Active(s) /\ inst[s] \in Instances /\ op[s] \in AllOps
         /\ TypeOK /\ OneLayer /\ NoneDetached /\ SessionInv(s)
         /\ pc[s] = "umount" /\ UNCHANGED <<op, inst, pc, root>>
         /\ Scope(s) \subseteq Instances
         /\ \A t \in todo[s] : t[1] \in Scope(s)
         /\ \A i \in Scope(s), p \in Procs : root[p] \notin LoopsAt(i)
         /\ \A i \in Scope(s) : stack[i] # <<>> => <<i, "root", 1>> \in todo[s]
  <1>1. /\ pc[s] = "umount" /\ TypeOK /\ OneLayer /\ NoneDetached /\ SessionInv(s)
        /\ UNCHANGED <<op, inst, pc, root>>
    BY DEF SerialInv, UmountSub, UmountRoot
  <1>2. Active(s) /\ inst[s] \in Instances /\ op[s] \in AllOps
    BY <1>1 DEF TypeOK, ControlOK, Active, Ended
  <1>3. QED
    BY <1>1, <1>2, ScopeOK DEF SessionInv, AtTeardown, Scope

\* Unmounting below a copy leaves the copy.
LEMMA UmountSubStep ==
  ASSUME NEW s \in Sessions, SerialInv, TypeOK', UmountSub(s)
  PROVE  SerialInv'
  <1>1. /\ Active(s) /\ TypeOK /\ OneLayer /\ NoneDetached
        /\ pc[s] = "umount" /\ UNCHANGED <<op, inst, pc, root>>
        /\ Scope(s) \subseteq Instances
        /\ \A t \in todo[s] : t[1] \in Scope(s)
        /\ \A i \in Scope(s), p \in Procs : root[p] \notin LoopsAt(i)
        /\ \A i \in Scope(s) : stack[i] # <<>> => <<i, "root", 1>> \in todo[s]
    BY UmountPc
  <1>2. PICK t \in Deepest(s) :
          /\ t[2] # "root"
          /\ todo' = [todo EXCEPT ![s] = @ \ {t}]
          /\ IF Mounted(t[1]) /\ t[2] \in Top(t[1]).kfs
               THEN SetTop(t[1], Top(t[1]).kfs \ Subtree(t[2]))
               ELSE UNCHANGED stack
    BY DEF UmountSub
  <1>3. t \in todo[s] /\ t[1] \in Instances
    BY <1>1, <1>2 DEF Deepest
  <1>4. backing' = backing
    BY DEF UmountSub
  <1>5. OneLayer' /\ \A j \in Instances : /\ LoopsAt(j)' = LoopsAt(j)
                                          /\ stack'[j] = <<>> <=> stack[j] = <<>>
    <2>1. CASE UNCHANGED stack
      BY <1>1, <1>4, <2>1 DEF OneLayer, LoopsAt
    <2>2. CASE Mounted(t[1]) /\ SetTop(t[1], Top(t[1]).kfs \ Subtree(t[2]))
      <3>1. Top(t[1]).kfs \ Subtree(t[2]) \in SUBSET KernelFs
        BY <1>1, <1>3, <2>2, TopKfs DEF TypeOK
      <3>2. QED
        BY <1>1, <1>3, <1>4, <2>2, <3>1, SetTopKeeps
    <2>3. QED
      BY <1>2, <2>1, <2>2
  <1>6. NoneDetached'
    BY <1>1, <1>5 DEF NoneDetached, MountedLoops
  <1>7. todo'[s] = todo[s] \ {t}
    BY <1>1, <1>2 DEF TypeOK, ScratchOK
  <1>8. ASSUME NEW i \in Scope(s), stack'[i] # <<>> PROVE <<i, "root", 1>> \in todo'[s]
    <2>1. <<i, "root", 1>> \in todo[s]
      BY <1>1, <1>5, <1>8
    <2>2. <<i, "root", 1>> # t
      BY <1>2
    <2>3. QED
      BY <1>7, <2>1, <2>2
  <1>9. SessionInv(s)'
    <2>1. Scope(s)' = Scope(s)
      BY <1>1 DEF Scope
    <2>2. \A i \in Scope(s), p \in Procs : root'[p] \notin LoopsAt(i)'
      BY <1>1, <1>5
    <2>3. \A u \in todo'[s] : u[1] \in Scope(s)
      BY <1>1, <1>7
    <2>4. AtTeardown(s)'
      BY <1>1, <1>8, <2>1, <2>2, <2>3 DEF AtTeardown
    <2>5. QED
      BY <1>1, <2>4 DEF SessionInv, AtMount, AtResize
  <1>10. QED
    BY <1>1, <1>5, <1>6, <1>9, Focus

\* The copy is unmounted when nobody is left in it: it goes at once, with the
\* device it was on, and no other copy is touched.
LEMMA UmountRootStep ==
  ASSUME NEW s \in Sessions, SerialInv, TypeOK', UmountRoot(s)
  PROVE  SerialInv'
  <1>1. /\ Active(s) /\ TypeOK /\ OneLayer /\ NoneDetached
        /\ pc[s] = "umount" /\ UNCHANGED <<op, inst, pc, root>>
        /\ Scope(s) \subseteq Instances
        /\ \A t \in todo[s] : t[1] \in Scope(s)
        /\ \A i \in Scope(s), p \in Procs : root[p] \notin LoopsAt(i)
        /\ \A i \in Scope(s) : stack[i] # <<>> => <<i, "root", 1>> \in todo[s]
    BY UmountPc
  <1>2. PICK t \in Deepest(s) :
          /\ todo' = [todo EXCEPT ![s] = @ \ {t}]
          /\ IF Mounted(t[1])
               THEN /\ stack' = [stack EXCEPT ![t[1]] = Tail(@)]
                    /\ Settle({l \in {Top(t[1]).loop} : l \notin MountedLoops' /\ Holders(l) = {}})
               ELSE UNCHANGED <<stack, backing, auto>>
    BY DEF UmountRoot
  <1> DEFINE i == t[1]
  <1>3. t \in todo[s] /\ i \in Instances /\ i \in Scope(s)
    BY <1>1, <1>2 DEF Deepest
  <1>4. /\ stack'[i] = <<>>
        /\ \A j \in Instances : j # i => /\ stack'[j] = stack[j]
                                         /\ \A l \in LoopsAt(j) : backing'[l] = backing[l]
    <2>1. CASE ~Mounted(i)
      BY <1>2, <2>1 DEF Mounted
    <2>2. CASE Mounted(i)
      <3>1. Tail(stack[i]) = <<>> /\ Top(i).loop \in Loops /\ backing[Top(i).loop] = i
        BY <1>1, <1>3, <2>2, CopyAt DEF Mounted
      <3>2. stack' = [stack EXCEPT ![i] = <<>>]
        BY <1>2, <2>2, <3>1
      <3>3. stack'[i] = <<>> /\ \A j \in Instances : j # i => stack'[j] = stack[j]
        BY <1>1, <1>3, <3>2 DEF TypeOK, KernelOK
      <3>4. \A l \in Loops : l # Top(i).loop => backing'[l] = backing[l]
        BY <1>2, <2>2 DEF Settle
      <3>5. \A j \in Instances : \A l \in LoopsAt(j) : l \in Loops /\ backing[l] = j
        BY <1>1, CopyAt
      <3>6. QED
        BY <3>1, <3>3, <3>4, <3>5
    <2>3. QED
      BY <2>1, <2>2
  <1>5. /\ LoopsAt(i)' = {}
        /\ \A j \in Instances : j # i => LoopsAt(j)' = LoopsAt(j)
    BY <1>4 DEF LoopsAt
  <1>6. OneLayer'
    <2>1. ASSUME NEW j \in Instances, stack'[j] # <<>>
          PROVE  Len(stack'[j]) = 1 /\ backing'[stack'[j][1].loop] = j
      <3>1. j # i /\ stack[j] # <<>> /\ stack'[j] = stack[j]
        BY <1>4, <2>1
      <3>2. Len(stack[j]) = 1 /\ backing[stack[j][1].loop] = j /\ stack[j] \in Seq(Layer)
        BY <1>1, <3>1 DEF OneLayer, TypeOK, KernelOK
      <3>3. stack[j][1].loop \in LoopsAt(j)
        BY <3>2 DEF LoopsAt
      <3>4. QED
        BY <1>4, <3>1, <3>2, <3>3
    <2>2. QED
      BY <2>1 DEF OneLayer
  <1>7. NoneDetached'
    <2>1. ASSUME NEW p \in Procs, root'[p] # None PROVE root'[p] \in MountedLoops'
      <3>1. root'[p] = root[p] /\ root[p] \in MountedLoops
        BY <1>1, <2>1 DEF NoneDetached
      <3>2. PICK j \in Instances : root[p] \in LoopsAt(j)
        BY <3>1 DEF MountedLoops
      <3>3. j # i
        BY <1>1, <1>3, <3>2
      <3>4. root[p] \in LoopsAt(j)'
        BY <1>5, <3>2, <3>3
      <3>5. QED
        BY <3>1, <3>4 DEF MountedLoops
    <2>2. QED
      BY <2>1 DEF NoneDetached
  <1>8. todo'[s] = todo[s] \ {t}
    BY <1>1, <1>2 DEF TypeOK, ScratchOK
  <1>9. ASSUME NEW j \in Scope(s), stack'[j] # <<>> PROVE <<j, "root", 1>> \in todo'[s]
    <2>1. j # i
      BY <1>4, <1>9
    <2>2. <<j, "root", 1>> \in todo[s]
      BY <1>1, <1>4, <1>9, <2>1
    <2>3. <<j, "root", 1>>[1] = j
      OBVIOUS
    <2>4. QED
      BY <1>8, <2>1, <2>2, <2>3
  <1>10. SessionInv(s)'
    <2>1. Scope(s)' = Scope(s)
      BY <1>1 DEF Scope
    <2>2. \A j \in Scope(s), p \in Procs : root'[p] \notin LoopsAt(j)'
      BY <1>1, <1>5
    <2>3. \A u \in todo'[s] : u[1] \in Scope(s)
      BY <1>1, <1>8
    <2>4. AtTeardown(s)'
      BY <1>1, <1>9, <2>1, <2>2, <2>3 DEF AtTeardown
    <2>5. QED
      BY <1>1, <2>4 DEF SessionInv, AtMount, AtResize
  <1>11. QED
    BY <1>1, <1>6, <1>7, <1>10, Focus

\* With its copies unmounted and empty, a removed image loses its devices.
LEMMA DetachStep ==
  ASSUME NEW s \in Sessions, SerialInv, TypeOK', Detach(s)
  PROVE  SerialInv'
  <1>1. /\ Active(s) /\ inst[s] \in Instances /\ op[s] \in AllOps
        /\ TypeOK /\ OneLayer /\ NoneDetached
        /\ Scope(s) \subseteq Instances
        /\ \A i \in Scope(s) : stack[i] = <<>>
    <2>1. pc[s] = "detach" /\ TypeOK /\ SessionInv(s)
      BY DEF SerialInv, Detach
    <2>2. Active(s) /\ inst[s] \in Instances /\ op[s] \in AllOps
      BY <2>1 DEF TypeOK, ControlOK, Active, Ended
    <2>3. QED
      BY <2>1, <2>2, ScopeOK DEF SerialInv, SessionInv, AtTeardown, Scope
  <1> DEFINE ours == {l \in Loops : backing[l] \in DetachScope(op[s], inst[s])}
  <1>2. /\ backing' = [l \in Loops |-> IF l \in ours /\ ~Live(l) THEN None ELSE backing[l]]
        /\ UNCHANGED <<stack, root>>
    BY DEF Detach
  <1>3. \A i \in Instances : LoopsAt(i)' = LoopsAt(i)
    BY <1>2 DEF LoopsAt
  <1>4. \A i \in Instances : \A l \in LoopsAt(i) : l \in Loops /\ Live(l) /\ backing[l] = i
    BY <1>1, CopyAt DEF Live, MountedLoops
  <1>5. OneLayer'
    <2>1. ASSUME NEW i \in Instances, stack[i] # <<>>
          PROVE  Len(stack[i]) = 1 /\ backing'[stack[i][1].loop] = i
      <3>1. Len(stack[i]) = 1 /\ backing[stack[i][1].loop] = i /\ stack[i] \in Seq(Layer)
        BY <1>1, <2>1 DEF OneLayer, TypeOK, KernelOK
      <3>2. stack[i][1].loop \in LoopsAt(i)
        BY <3>1 DEF LoopsAt
      <3>3. QED
        BY <1>2, <1>4, <3>1, <3>2
    <2>2. QED
      BY <1>2, <2>1 DEF OneLayer
  <1>6. NoneDetached'
    BY <1>1, <1>2, <1>3 DEF NoneDetached, MountedLoops
  <1>7. CASE op[s] \in {"remove", "purge"}
    <2>1. /\ pc'[s] = "delete" /\ op' = op /\ inst' = inst
          /\ \A t \in Sessions : t # s => pc'[t] = pc[t]
      BY <1>1, <1>7, GotoPc DEF Detach
    <2>2. DetachScope(op[s], inst[s]) = Scope(s)
      BY <1>7 DEF DetachScope, Scope
    <2>3. ASSUME NEW l \in Loops, backing'[l] \in Scope(s) PROVE FALSE
      <3>1. backing'[l] = backing[l] /\ l \in ours
        BY <1>1, <1>2, <2>2, <2>3, ConstantsAssumption
      <3>2. Live(l)
        BY <1>1, <1>2, <2>3, <3>1, ConstantsAssumption
      <3>3. l \in MountedLoops
        BY <1>1, <3>2, ConstantsAssumption DEF Live, Holders, NoneDetached
      <3>4. PICK i \in Instances : l \in LoopsAt(i)
        BY <3>3 DEF MountedLoops
      <3>5. i \in Scope(s)
        BY <1>4, <2>3, <3>1, <3>4
      <3>6. QED
        BY <1>1, <3>4, <3>5, CopyAt
    <2>4. SessionInv(s)'
      BY <1>1, <1>2, <1>7, <2>1, <2>3 DEF SessionInv, AtMount, AtTeardown, AtResize, Scope
    <2>5. QED
      BY <1>1, <1>5, <1>6, <2>1, <2>4, Focus
  <1>8. CASE op[s] \notin {"remove", "purge"}
    <2>1. Goto(s, "check") \/ Finish(s, "ok")
      BY <1>8 DEF Detach
    <2>2. pc'[s] \notin Held /\ \A t \in Sessions : t # s => pc'[t] = pc[t]
      BY <1>1, <2>1, FinishPc, GotoPc DEF Held
    <2>3. SessionInv(s)'
      BY <2>2 DEF Held, SessionInv, AtMount, AtTeardown, AtResize
    <2>4. QED
      BY <1>1, <1>5, <1>6, <2>2, <2>3, Focus
  <1>9. QED
    BY <1>7, <1>8

\* Every step of a script keeps the invariant ...
LEMMA StepSerial ==
  ASSUME NEW s \in Sessions, SerialInv, TypeOK', ~Stragglers, Step(s)
  PROVE  SerialInv'
  BY QuietStep, BelowStep, MountStep, RootedStep, KillStep, SnapshotStep,
     UmountSubStep, UmountRootStep, DetachStep
     DEF Step, Up, TakeDown, Resize, Decide, RootStep

\* ... and so does starting one when none is at work,
LEMMA StartSerial ==
  ASSUME NEW s \in Sessions, NEW o \in Ops, NEW i \in Instances,
         SerialInv, TypeOK', Serial, Start(s, o, i)
  PROVE  SerialInv'
  <1>1. o \in AllOps /\ TypeOK /\ OneLayer /\ NoneDetached
    BY ConstantsAssumption DEF SerialInv
  <1>2. UNCHANGED <<stack, backing, root>>
    BY DEF Start, device
  <1>3. pc'[s] = FirstStep[o] /\ \A t \in Sessions : t # s => pc'[t] = pc[t] /\ pc[t] \in Ended
    BY <1>1 DEF Start, TypeOK, ControlOK, Active
  <1>4. FirstStep[o] \notin Held
    BY <1>1 DEF AllOps, FirstStep, Held
  <1>5. \A t \in Sessions : pc'[t] \notin Held
    BY <1>3, <1>4 DEF Ended, Held
  <1>6. OneActive' /\ \A t \in Sessions : SessionInv(t)'
    BY <1>3, <1>5 DEF OneActive, Active, Held, SessionInv, AtMount, AtTeardown, AtResize
  <1>7. OneLayer' /\ NoneDetached'
    BY <1>1, <1>2 DEF OneLayer, NoneDetached, MountedLoops, LoopsAt
  <1>8. QED
    BY <1>6, <1>7 DEF SerialInv

\* a script that ends early,
LEMMA CutSerial ==
  ASSUME NEW s \in Sessions, SerialInv, TypeOK', Cut(s)
  PROVE  SerialInv'
  <1>1. Active(s) /\ TypeOK /\ OneLayer /\ NoneDetached
    BY DEF SerialInv, Cut
  <1>2. UNCHANGED <<stack, backing, root>>
    BY DEF Cut, device
  <1>3. pc'[s] \notin Held /\ \A t \in Sessions : t # s => pc'[t] = pc[t]
    BY <1>1, FinishPc, GotoPc DEF Cut, Held
  <1>4. SessionInv(s)'
    BY <1>3 DEF Held, SessionInv, AtMount, AtTeardown, AtResize
  <1>5. OneLayer' /\ NoneDetached'
    BY <1>1, <1>2 DEF OneLayer, NoneDetached, MountedLoops, LoopsAt
  <1>6. QED
    BY <1>1, <1>3, <1>4, <1>5, Focus

\* A process that forks stays in the copy it is in, and does not fork while a
\* teardown is at work on it.
LEMMA ForkSerial ==
  ASSUME NEW p \in Procs, NEW q \in Procs, SerialInv, TypeOK', ~Stragglers, Fork(p, q)
  PROVE  SerialInv'
  <1>1. UNCHANGED <<stack, backing, op, inst, pc, todo, dev>> /\ TypeOK
    BY DEF Fork, scratch, SerialInv
  <1>2. \A s \in Sessions : pc[s] \notin Teardown
    BY DEF Fork
  <1>3. \A r \in Procs : root'[r] \in {root[r], root[p]}
    BY <1>1 DEF Fork, TypeOK, KernelOK
  <1>4. OneActive' /\ OneLayer'
    BY <1>1 DEF SerialInv, OneActive, Active, OneLayer
  <1>5. NoneDetached'
    BY <1>1, <1>3 DEF Fork, SerialInv, NoneDetached, MountedLoops, LoopsAt
  <1>6. \A s \in Sessions : SessionInv(s)'
    BY <1>1, <1>2 DEF Teardown, SerialInv, SessionInv, AtMount, AtTeardown, AtResize, Scope
  <1>7. QED
    BY <1>4, <1>5, <1>6 DEF SerialInv

\* The copy an exiting process was in is mounted: nothing goes with it.
LEMMA ExitSerial ==
  ASSUME NEW p \in Procs, SerialInv, TypeOK', Exit(p)
  PROVE  SerialInv'
  <1>1. UNCHANGED <<stack, op, inst, pc, pids, todo, dev>> /\ TypeOK
    BY DEF Exit, scratch, SerialInv
  <1>2. root[p] \in MountedLoops
    BY DEF Exit, SerialInv, NoneDetached
  <1>3. Settle({})
    <2>1. {l \in {root[p]} : l \notin MountedLoops /\ Holders(l) = {p}} = {}
      BY <1>2
    <2>2. QED
      BY <2>1 DEF Exit
  <1>4. backing' = backing
    BY <1>1, <1>3 DEF Settle, TypeOK, KernelOK
  <1>5. \A r \in Procs : root'[r] \in {root[r], None}
    BY <1>1 DEF Exit, TypeOK, KernelOK
  <1>6. OneActive' /\ OneLayer'
    BY <1>1, <1>4 DEF SerialInv, OneActive, Active, OneLayer
  <1>7. NoneDetached'
    BY <1>1, <1>5 DEF SerialInv, NoneDetached, MountedLoops, LoopsAt
  <1>8. ASSUME NEW s \in Sessions PROVE SessionInv(s)'
    <2>1. SessionInv(s)
      BY DEF SerialInv
    <2>2. pc[s] \in {"snapshot", "umount"} => Scope(s) \subseteq Instances
      BY <1>1, ScopeOK DEF TypeOK, ControlOK, Active, Ended, Scope
    <2>3. ASSUME pc[s] \in {"snapshot", "umount"}, NEW i \in Scope(s), NEW r \in Procs
          PROVE  root'[r] \notin LoopsAt(i)
      <3>1. i \in Instances /\ LoopsAt(i) \subseteq Loops
        BY <1>1, <2>2, <2>3, CopyAt DEF SerialInv
      <3>2. root[r] \notin LoopsAt(i)
        BY <2>1, <2>3 DEF SessionInv, AtTeardown
      <3>3. QED
        BY <1>5, <3>1, <3>2, ConstantsAssumption
    <2>4. AtTeardown(s)'
      BY <1>1, <1>4, <1>5, <2>1, <2>3 DEF SessionInv, AtTeardown, Scope, LoopsAt
    <2>5. QED
      BY <1>1, <1>4, <2>1, <2>4 DEF SessionInv, AtMount, AtResize
  <1>9. QED
    BY <1>6, <1>7, <1>8 DEF SerialInv

\* and a reboot.
LEMMA RebootSerial ==
  ASSUME SerialInv, TypeOK', Reboot
  PROVE  SerialInv'
  <1>1. \A s \in Sessions : pc'[s] \in Ended
    BY DEF Reboot, Active, Ended
  <1>2. OneActive' /\ \A s \in Sessions : SessionInv(s)'
    BY <1>1 DEF OneActive, Active, Ended, SessionInv, AtMount, AtTeardown, AtResize
  <1>3. OneLayer' /\ NoneDetached'
    BY DEF Reboot, OneLayer, NoneDetached
  <1>4. QED
    BY <1>2, <1>3 DEF SerialInv

\* It holds at first.
LEMMA InitSerial == Init => SerialInv
  <1> SUFFICES ASSUME Init PROVE SerialInv
    OBVIOUS
  <1>1. TypeOK
    BY InitTyped
  <1>2. \A s \in Sessions : pc[s] \in Ended
    BY DEF Init, Ended
  <1>3. OneActive /\ \A s \in Sessions : SessionInv(s)
    BY <1>2 DEF OneActive, Active, Ended, SessionInv, AtMount, AtTeardown, AtResize
  <1>4. OneLayer /\ NoneDetached
    BY DEF Init, OneLayer, NoneDetached
  <1>5. QED
    BY <1>1, <1>3, <1>4 DEF SerialInv

\* SerialInv is inductive.
LEMMA NextSerial ==
  ASSUME Serial, ~Stragglers, SerialInv, [Next]_vars
  PROVE  SerialInv'
  <1>1. TypeOK'
    BY NextTyped DEF SerialInv
  <1>2. CASE Next
    BY <1>1, <1>2, StepSerial, StartSerial, CutSerial, ForkSerial, ExitSerial,
       RebootSerial DEF Next
  <1>3. CASE UNCHANGED vars
    <2>1. UNCHANGED <<stack, backing, root, op, inst, pc, pids, todo, dev>>
      BY <1>3 DEF vars, device, scratch
    <2>2. OneActive' /\ OneLayer' /\ NoneDetached'
      BY <2>1 DEF SerialInv, OneActive, Active, OneLayer, NoneDetached, MountedLoops, LoopsAt
    <2>3. \A s \in Sessions : SessionInv(s)'
      BY <2>1 DEF SerialInv, SessionInv, AtMount, AtTeardown, AtResize, Scope, LoopsAt
    <2>4. QED
      BY <1>1, <2>2, <2>3 DEF SerialInv
  <1>4. QED
    BY <1>2, <1>3

\* What the invariant is for.
LEMMA SerialMeans ==
  ASSUME SerialInv
  PROVE  NoSecondCopy /\ ResizeOffline
  <1>1. TypeOK /\ OneLayer /\ NoneDetached
    BY DEF SerialInv
  <1>2. \A l \in Loops : Live(l) => l \in MountedLoops
    BY <1>1, ConstantsAssumption DEF Live, Holders, NoneDetached
  <1>3. ASSUME NEW l \in Loops, Live(l)
        PROVE  \E i \in Instances : stack[i] # <<>> /\ backing[l] = i /\ l = Top(i).loop
    <2>1. PICK i \in Instances : l \in LoopsAt(i)
      BY <1>2, <1>3 DEF MountedLoops
    <2>2. QED
      BY <1>1, <2>1, CopyAt
  <1>4. NoSecondCopy
    BY <1>3 DEF NoSecondCopy
  <1>5. ResizeOffline
    BY <1>3 DEF ResizeOffline, SerialInv, SessionInv, AtResize
  <1>6. QED
    BY <1>4, <1>5

\* As long as commands are issued one after the other and killed processes die
\* at once, SerialInv holds in every reachable state, through cut scripts and
\* reboots too.
THEOREM SerialCorrect ==
  ASSUME Serial, ~Stragglers
  PROVE  Spec => []SerialInv
  <1>1. Init => SerialInv
    BY InitSerial
  <1>2. SerialInv /\ [Next]_vars => SerialInv'
    BY NextSerial
  <1>3. QED
    BY <1>1, <1>2, PTL DEF Spec

\* Used that way, container.py never has two filesystems live over one image.
THEOREM SerialOneCopy ==
  ASSUME Serial, ~Stragglers
  PROVE  Spec => []NoSecondCopy
  <1>1. Spec => []SerialInv
    BY SerialCorrect
  <1>2. SerialInv => NoSecondCopy
    BY SerialMeans
  <1>3. QED
    BY <1>1, <1>2, PTL

\* Used that way, e2fsck and resize2fs never work on an image in use.
THEOREM SerialResize ==
  ASSUME Serial, ~Stragglers
  PROVE  Spec => []ResizeOffline
  <1>1. Spec => []SerialInv
    BY SerialCorrect
  <1>2. SerialInv => ResizeOffline
    BY SerialMeans
  <1>3. QED
    BY <1>1, <1>2, PTL

\* A file goes only in the last step of a remove, and by then its devices are
\* gone.
LEMMA DeleteReclaims ==
  ASSUME SerialInv, [Next]_vars, NEW i \in Instances, NEW l \in Loops,
         image[i] # "absent", image'[i] = "absent"
  PROVE  backing[l] # i
  <1>1. image \in [Instances -> {"absent", "raw", "ok", "grown"}]
    BY DEF SerialInv, TypeOK, KernelOK
  <1>2. ASSUME NEW s \in Sessions, Step(s) PROVE Delete(s)
    <2>1. UNCHANGED image \/ CreateImage(s) \/ Format(s) \/ Grow(s) \/ GrowFs(s) \/ Delete(s)
      BY <1>2 DEF Step, Up, TakeDown, Resize, IsUp, NeedImage, CheckMounted, Attach,
           AttachFails, Mount, MountFails, MountKernelFs, Bind, Prepare, Chroot,
           ChrootFails, NothingThere, ListPids, Kill, Snapshot, UmountSub, UmountRoot,
           Unmounted, Detach, CheckOffline, Fsck, files
    <2>2. ~(CreateImage(s) \/ Format(s) \/ Grow(s) \/ GrowFs(s))
      BY <1>1 DEF CreateImage, Format, Grow, GrowFs
    <2>3. QED
      BY <2>1, <2>2
  <1>3. PICK s \in Sessions : Delete(s)
    BY <1>2 DEF Next, Start, Cut, Fork, Exit, Reboot, vars, files
  <1>4. SessionInv(s) /\ op[s] \in {"remove", "purge"}
    BY <1>3 DEF Delete, SerialInv, SessionInv, AtTeardown
  <1>5. i \in DeleteScope(op[s], inst[s])
    BY <1>3 DEF Delete
  <1>6. i \in Scope(s)
    BY <1>4, <1>5 DEF DeleteScope, Scope, UmountScope
  <1>7. QED
    BY <1>3, <1>4, <1>6 DEF Delete, SessionInv, AtTeardown

\* Used that way, a remove gives the image's blocks back: no loop device is
\* attached to a file that is deleted.
THEOREM SerialReclaims ==
  ASSUME Serial, ~Stragglers
  PROVE  Spec => RemoveReclaims
  <1>1. SerialInv /\ [Next]_vars =>
          [\A i \in Instances : image[i] # "absent" /\ image'[i] = "absent" =>
             \A l \in Loops : backing[l] # i]_vars
    BY DeleteReclaims
  <1>2. Spec => []SerialInv
    BY SerialCorrect
  <1>3. QED
    BY <1>1, <1>2, PTL DEF Spec, RemoveReclaims

-----------------------------------------------------------------------------
(* Serial use keeps the promise of module ExclusiveImage.                  *)

\* The users of an image, as ImageExclusive counts them, ...
Users == [i \in Instances |-> {l \in Loops : Live(l) /\ backing[l] = i}]

\* ... are in serial use the copies in the mount table.
Copies == [i \in Instances |-> LoopsAt(i)]

Agree == Users = Copies

\* The promise, about copies.
Table == INSTANCE ExclusiveImage WITH
  Images  <- Instances,
  Devices <- Loops,
  file    <- image,
  users   <- Copies

\* A file that is absent is attached to nothing, one without a filesystem is not
\* mounted, and mke2fs is run on the file just created.
FileInv ==
  /\ \A i \in Instances : image[i] = "absent" => \A l \in Loops : backing[l] # i
  /\ \A i \in Instances : image[i] = "raw" => stack[i] = <<>>
  /\ \A s \in Sessions : pc[s] = "mke2fs" => image[inst[s]] = "raw"

ServedInv == SerialInv /\ FileInv

\* The two ways to count users agree.
LEMMA UsersAreCopies == SerialInv => Agree
  <1> SUFFICES ASSUME SerialInv PROVE Users = Copies
    BY DEF Agree
  <1>1. TypeOK /\ OneLayer /\ NoneDetached
    BY DEF SerialInv
  <1>2. \A l \in Loops : Live(l) <=> l \in MountedLoops
    BY <1>1, ConstantsAssumption DEF Live, Holders, NoneDetached
  <1>3. \A j \in Instances : \A l \in LoopsAt(j) : l \in Loops /\ backing[l] = j
    BY <1>1, CopyAt
  <1>4. ASSUME NEW i \in Instances
        PROVE  {l \in Loops : Live(l) /\ backing[l] = i} = LoopsAt(i)
    BY <1>2, <1>3 DEF MountedLoops
  <1>5. QED
    BY <1>4 DEF Users, Copies

\* What has no copy in the table has no user in the promise, and the other way.
LEMMA NoCopies ==
  ASSUME SerialInv, NEW i \in Instances
  PROVE  Copies[i] = {} <=> stack[i] = <<>>
  BY CopyAt DEF SerialInv, Copies

\* A file that is not there, or has no filesystem, is in nobody's use.
LEMMA NothingUsed ==
  ASSUME ServedInv, NEW i \in Instances, image[i] \in {"absent", "raw"}
  PROVE  stack[i] = <<>>
  BY CopyAt DEF ServedInv, SerialInv, FileInv, TypeOK, OneLayer

\* The script at work is the only one, and comes to mke2fs by creating the file.
LEMMA OnlyCreates ==
  ASSUME NEW s \in Sessions, SerialInv, Step(s) \/ Cut(s), ~CreateImage(s)
  PROVE  \A t \in Sessions : pc'[t] # "mke2fs"
  <1>1. TypeOK /\ Active(s)
    BY DEF SerialInv, Step, Up, TakeDown, Resize, IsUp, NeedImage, CreateImage, Format,
       CheckMounted, Attach, AttachFails, Mount, MountFails, MountKernelFs, Bind, Prepare,
       Chroot, ChrootFails, NothingThere, ListPids, Kill, Snapshot, UmountSub, UmountRoot,
       Unmounted, Detach, Delete, CheckOffline, Grow, Fsck, GrowFs, Cut, Active, Ended
  <1>2. \/ \E v \in Ended : Finish(s, v)
        \/ \E l \in Labels \ {"mke2fs"} : Goto(s, l)
        \/ pc' = pc /\ pc[s] = "umount"
    <2>1. CASE Up(s)
      BY <2>1, LabelsAre DEF Up, NeedImage, Format, CheckMounted, Attach, AttachFails,
         Mount, MountFails, MountKernelFs, Bind, Prepare, Ended, Labels, KernelFs, NextMount
    <2>2. CASE TakeDown(s)
      BY <2>2 DEF TakeDown, NothingThere, ListPids, Kill, Snapshot, UmountSub, UmountRoot,
         Unmounted, Detach, Delete, Ended, Labels, Teardown
    <2>3. CASE Resize(s) \/ IsUp(s) \/ Chroot(s) \/ ChrootFails(s) \/ Cut(s)
      BY <2>3 DEF Resize, IsUp, Chroot, ChrootFails, Cut, CheckOffline, Grow, Fsck, GrowFs,
         Ended, Labels
    <2>4. QED
      BY <2>1, <2>2, <2>3 DEF Step
  <1>3. pc'[s] # "mke2fs" /\ \A t \in Sessions : t # s => pc'[t] = pc[t]
    BY <1>1, <1>2, FinishPc, GotoPc DEF Ended
  <1>4. \A t \in Sessions : t # s => pc[t] \in Ended
    BY <1>1 DEF SerialInv, OneActive, Active
  <1>5. QED
    BY <1>3, <1>4 DEF Ended

\* Steps that leave the files as they are, and attach only what is there.
LEMMA FilesKept ==
  ASSUME ServedInv, image' = image,
         \A l \in Loops : backing'[l] \in {backing[l], None},
         \A i \in Instances : image[i] = "raw" => stack'[i] = <<>>,
         \A t \in Sessions : pc'[t] # "mke2fs"
  PROVE  FileInv'
  BY ConstantsAssumption DEF ServedInv, FileInv

\* Steps that leave the files and the copies where they are promise nothing new.
LEMMA TableKept ==
  ASSUME image' = image, \A i \in Instances : LoopsAt(i)' = LoopsAt(i)
  PROVE  UNCHANGED Table!vars
  BY DEF Table!vars, Copies

Serves == FileInv' /\ [Table!Next]_(Table!vars)

\* The steps that touch neither files nor the mount table.
LEMMA IdleServes ==
  ASSUME ServedInv, UNCHANGED <<image, stack>>,
         \A l \in Loops : backing'[l] \in {backing[l], None},
         \A t \in Sessions : pc'[t] # "mke2fs"
  PROVE  Serves
  <1>1. FileInv'
    BY FilesKept DEF ServedInv, FileInv
  <1>2. UNCHANGED Table!vars
    BY TableKept DEF LoopsAt
  <1>3. QED
    BY <1>1, <1>2 DEF Serves

\* A file nobody uses is created, formatted or grown.
LEMMA FileServes ==
  ASSUME NEW s \in Sessions, ServedInv, SerialInv',
         CreateImage(s) \/ Format(s) \/ Grow(s) \/ GrowFs(s)
  PROVE  Serves
  <1> DEFINE i == inst[s]
  <1>1. /\ pc[s] \in {"image", "mke2fs", "truncate", "resize2fs"}
        /\ TypeOK /\ Active(s) /\ i \in Instances
    BY DEF CreateImage, Format, Grow, GrowFs, ServedInv, SerialInv, TypeOK, ControlOK,
       Active, Ended
  <1>2. /\ UNCHANGED <<stack, backing>>
        /\ \A t \in Sessions : t # s => pc'[t] \in Ended
    <2>1. \A t \in Sessions : t # s => pc'[t] = pc[t] /\ pc[t] \in Ended
      BY <1>1, FinishPc, GotoPc DEF CreateImage, Format, Grow, GrowFs, Ended, ServedInv,
         SerialInv, OneActive, Active
    <2>2. QED
      BY <2>1 DEF CreateImage, Format, Grow, GrowFs, device
  <1>3. /\ pc[s] = "mke2fs" => image[i] = "raw" /\ stack[i] = <<>>
        /\ pc[s] \in {"truncate", "resize2fs"} => stack[i] = <<>>
        /\ image[i] = "absent" => \A l \in Loops : backing[l] # i
    BY <1>1, NothingUsed DEF ServedInv, FileInv, SerialInv, SessionInv, AtResize
  <1>4. /\ UNCHANGED Copies
        /\ stack[i] = <<>> => Copies[i] = {}
    BY <1>1, <1>2, NoCopies DEF Copies, LoopsAt, ServedInv
  <1>5. image \in [Instances -> {"absent", "raw", "ok", "grown"}]
    BY <1>1 DEF TypeOK, KernelOK
  <1>6. ASSUME NEW f \in {"raw", "ok", "grown"}, image' = [image EXCEPT ![i] = f],
               stack[i] = <<>>, image[i] # "absent" \/ f = "raw",
               pc'[s] = "mke2fs" => f = "raw" /\ inst' = inst,
               image[i] = "absent" => \A l \in Loops : backing[l] # i
        PROVE  FileInv'
    <2>1. image'[i] = f /\ \A j \in Instances : j # i => image'[j] = image[j]
      BY <1>1, <1>5, <1>6
    <2>2. \A j \in Instances : /\ image'[j] = "absent" => \A l \in Loops : backing'[l] # j
                               /\ image'[j] = "raw" => stack'[j] = <<>>
      BY <1>2, <1>6, <2>1 DEF ServedInv, FileInv
    <2>3. QED
      BY <1>1, <1>2, <1>6, <2>1, <2>2 DEF FileInv, Ended
  <1>7. CASE image' = image
    <2>1. \A t \in Sessions : pc'[t] # "mke2fs"
      BY <1>1, <1>2, <1>5, <1>7, FinishPc, GotoPc
         DEF CreateImage, Format, Grow, GrowFs, Ended
    <2>2. QED
      BY <1>2, <1>7, <2>1, IdleServes
  <1>8. CASE CreateImage(s) /\ image' # image
    <2>1. /\ image[i] = "absent" /\ image' = [image EXCEPT ![i] = "raw"]
          /\ stack[i] = <<>> /\ inst' = inst
      BY <1>1, <1>8, NothingUsed DEF CreateImage, Goto
    <2>2. FileInv'
      BY <1>3, <1>6, <2>1
    <2>3. Table!Create(i)
      BY <1>4, <2>1 DEF Table!Create, Table!Unused
    <2>4. QED
      BY <1>1, <2>2, <2>3 DEF Serves, Table!Next
  <1>9. CASE Format(s) /\ image' # image
    <2>1. /\ image[i] = "raw" /\ image' = [image EXCEPT ![i] = "ok"] /\ stack[i] = <<>>
          /\ pc'[s] # "mke2fs"
      BY <1>1, <1>3, <1>9, GotoPc DEF Format
    <2>2. FileInv'
      BY <1>6, <2>1
    <2>3. Table!Format(i)
      BY <1>4, <2>1 DEF Table!Format, Table!Unused
    <2>4. QED
      BY <1>1, <2>2, <2>3 DEF Serves, Table!Next
  <1>10. CASE Grow(s) /\ image' # image
    <2>1. /\ image' = [image EXCEPT ![i] = IF image[i] \in {"ok", "grown"} THEN "grown" ELSE "raw"]
          /\ stack[i] = <<>> /\ pc'[s] # "mke2fs"
      BY <1>1, <1>3, <1>10, GotoPc DEF Grow
    <2>2. \/ image[i] = "ok" /\ image' = [image EXCEPT ![i] = "grown"]
          \/ image[i] = "absent" /\ image' = [image EXCEPT ![i] = "raw"]
      BY <1>1, <1>5, <1>10, <2>1
    <2>3. FileInv'
      BY <1>3, <1>6, <2>1, <2>2
    <2>4. Table!Extend(i) \/ Table!Create(i)
      BY <1>4, <2>1, <2>2 DEF Table!Extend, Table!Create, Table!Unused
    <2>5. QED
      BY <1>1, <2>3, <2>4 DEF Serves, Table!Next
  <1>11. CASE GrowFs(s) /\ image' # image
    <2>1. /\ image[i] \in {"ok", "grown"} /\ image' = [image EXCEPT ![i] = "ok"]
          /\ stack[i] = <<>> /\ pc'[s] # "mke2fs"
      BY <1>1, <1>3, <1>11, FinishPc DEF GrowFs
    <2>2. image[i] = "grown"
      BY <1>1, <1>5, <1>11, <2>1
    <2>3. FileInv'
      BY <1>6, <2>1, <2>2
    <2>4. Table!Format(i)
      BY <1>4, <2>1, <2>2 DEF Table!Format, Table!Unused
    <2>5. QED
      BY <1>1, <2>3, <2>4 DEF Serves, Table!Next
  <1>12. QED
    BY <1>7, <1>8, <1>9, <1>10, <1>11

\* What a remove deletes is attached nowhere any more.
LEMMA DeleteServes ==
  ASSUME NEW s \in Sessions, ServedInv, Delete(s)
  PROVE  Serves
  <1> DEFINE S == DeleteScope(op[s], inst[s])
  <1>1. /\ pc[s] = "delete" /\ TypeOK /\ SessionInv(s)
        /\ inst[s] \in Instances /\ op[s] \in {"remove", "purge"}
    BY DEF Delete, ServedInv, SerialInv, SessionInv, AtTeardown, TypeOK, ControlOK, Active, Ended
  <1>2. S \subseteq Scope(s) /\ S \subseteq Instances /\ Scope(s) \subseteq Instances
    BY <1>1, ScopeOK DEF DeleteScope, Scope, UmountScope, AllOps
  <1>3. \A i \in S : stack[i] = <<>> /\ \A l \in Loops : backing[l] # i
    BY <1>1, <1>2 DEF SessionInv, AtTeardown
  <1>4. /\ UNCHANGED <<stack, backing>>
        /\ image' = [i \in Instances |-> IF i \in S THEN "absent" ELSE image[i]]
    BY DEF Delete, device
  <1>5. \A t \in Sessions : pc'[t] # "mke2fs"
    BY OnlyCreates DEF ServedInv, Step, TakeDown, Delete, CreateImage
  <1>6. FileInv'
    BY <1>3, <1>4, <1>5 DEF ServedInv, FileInv
  <1>7. Table!Delete(S)
    BY <1>2, <1>3, <1>4, NoCopies DEF Table!Delete, Table!Unused, ServedInv, Copies, LoopsAt
  <1>8. QED
    BY <1>2, <1>6, <1>7 DEF Serves, Table!Next

\* A device is attached to a file that is there ...
LEMMA AttachServes ==
  ASSUME NEW s \in Sessions, ServedInv, Attach(s)
  PROVE  Serves
  <1>1. TypeOK /\ UNCHANGED <<image, stack>> /\ image[inst[s]] # "absent"
    BY DEF Attach, ServedInv, SerialInv, files
  <1>2. \A l \in Loops : backing'[l] \in {backing[l], inst[s]}
    BY <1>1 DEF Attach, TypeOK, KernelOK
  <1>3. \A t \in Sessions : pc'[t] # "mke2fs"
    BY OnlyCreates DEF ServedInv, Step, Up, Attach, CreateImage
  <1>4. FileInv'
    BY <1>1, <1>2, <1>3 DEF ServedInv, FileInv
  <1>5. UNCHANGED Table!vars
    BY <1>1, TableKept DEF LoopsAt
  <1>6. QED
    BY <1>4, <1>5 DEF Serves

\* ... and becomes its one user.
LEMMA MountServes ==
  ASSUME NEW s \in Sessions, ServedInv, Mount(s)
  PROVE  Serves
  <1>0. PICK i \in Instances, d \in Loops : i = inst[s] /\ d = dev[s]
    BY DEF Mount, ServedInv, SerialInv, TypeOK, ControlOK, Active, Ended
  <1> DEFINE layer == [loop |-> d, kfs |-> {}]
  <1>1. /\ TypeOK  /\ stack[i] = <<>>
        /\ backing[d] = i /\ UNCHANGED <<image, backing>>
    BY <1>0 DEF Mount, files, ServedInv, SerialInv, SessionInv, AtMount
  <1>2. image[i] \in {"ok", "grown"}
    BY <1>0, <1>1 DEF Mount, Mountable, ServedInv, FileInv, TypeOK, KernelOK
  <1>3. <<layer>> \o <<>> = <<layer>>
    OBVIOUS
  <1>4. stack'[i] = <<layer>> /\ \A j \in Instances : j # i => stack'[j] = stack[j]
    BY <1>0, <1>1, <1>3 DEF Mount, TypeOK, KernelOK
  <1>5. LoopsAt(i)' = {d} /\ \A j \in Instances : j # i => LoopsAt(j)' = LoopsAt(j)
    <2>1. LoopsAt(i)' = {d}
      BY <1>4 DEF LoopsAt
    <2>2. \A j \in Instances : j # i => LoopsAt(j)' = LoopsAt(j)
      BY <1>4 DEF LoopsAt
    <2>3. QED
      BY <2>1, <2>2
  <1>6. \A t \in Sessions : pc'[t] # "mke2fs"
    BY OnlyCreates DEF ServedInv, Step, Up, Mount, CreateImage
  <1>7. FileInv'
    <2>1. \A j \in Instances : image[j] = "raw" => stack'[j] = <<>>
      BY <1>2, <1>4 DEF ServedInv, FileInv
    <2>2. QED
      BY <1>1, <1>6, <2>1, FilesKept
  <1>8. Copies' = [Copies EXCEPT ![i] = {d}]
    <2>1. \A j \in Instances : Copies'[j] = IF j = i THEN {d} ELSE Copies[j]
      BY <1>5 DEF Copies
    <2>2. QED
      BY <1>1, <2>1 DEF Copies
  <1>9. Table!Mount(i, d)
    BY <1>1, <1>2, <1>8, NoCopies DEF Table!Mount, Table!Unused, ServedInv
  <1>10. QED
    BY <1>1, <1>7, <1>9 DEF Serves, Table!Next

\* What is mounted or unmounted below a copy is no other user.
LEMMA BelowServes ==
  ASSUME NEW s \in Sessions, ServedInv, MountKernelFs(s) \/ Bind(s) \/ UmountSub(s)
  PROVE  Serves
  <1>1. TypeOK /\ OneLayer /\ UNCHANGED <<image, backing>>
    BY DEF MountKernelFs, Bind, UmountSub, files, ServedInv, SerialInv
  <1>2. \/ UNCHANGED stack
        \/ \E i \in Instances, kfs \in SUBSET KernelFs : Mounted(i) /\ SetTop(i, kfs)
    <2>1. CASE MountKernelFs(s) \/ Bind(s)
      <3>1. pc[s] \in KernelFs
        BY <2>1 DEF MountKernelFs, Bind, KernelFs
      <3>2. inst[s] \in Instances
        BY <1>1, <3>1, LabelsAre DEF TypeOK, ControlOK, Active
      <3>3. \/ UNCHANGED stack
            \/ Mounted(inst[s]) /\ SetTop(inst[s], Top(inst[s]).kfs \cup {pc[s]})
        BY <2>1 DEF MountKernelFs, Bind
      <3>4. Mounted(inst[s]) => Top(inst[s]).kfs \cup {pc[s]} \in SUBSET KernelFs
        BY <1>1, <3>1, <3>2, TopKfs DEF TypeOK
      <3>5. QED
        BY <3>2, <3>3, <3>4
    <2>2. CASE UmountSub(s)
      <3>1. PICK t \in Deepest(s) :
              IF Mounted(t[1]) /\ t[2] \in Top(t[1]).kfs
                THEN SetTop(t[1], Top(t[1]).kfs \ Subtree(t[2]))
                ELSE UNCHANGED stack
        BY <2>2 DEF UmountSub
      <3>2. t[1] \in Instances
        BY <1>1, <3>1 DEF Deepest, TypeOK, ScratchOK
      <3>3. Mounted(t[1]) => Top(t[1]).kfs \ Subtree(t[2]) \in SUBSET KernelFs
        BY <1>1, <3>2, TopKfs DEF TypeOK
      <3>4. QED
        BY <3>1, <3>2, <3>3
    <2>3. QED
      BY <2>1, <2>2
  <1>3. \A j \in Instances : LoopsAt(j)' = LoopsAt(j) /\ (stack'[j] = <<>> <=> stack[j] = <<>>)
    <2>1. ASSUME NEW i \in Instances, NEW kfs \in SUBSET KernelFs, Mounted(i), SetTop(i, kfs)
          PROVE  \A j \in Instances : LoopsAt(j)' = LoopsAt(j) /\ (stack'[j] = <<>> <=> stack[j] = <<>>)
      BY <1>1, <2>1, SetTopKeeps
    <2>2. QED
      BY <1>2, <2>1 DEF LoopsAt
  <1>4. \A t \in Sessions : pc'[t] # "mke2fs"
    BY OnlyCreates DEF ServedInv, Step, Up, TakeDown, MountKernelFs, Bind, UmountSub, CreateImage
  <1>5. FileInv'
    BY <1>1, <1>3, <1>4, FilesKept DEF ServedInv, FileInv
  <1>6. UNCHANGED Table!vars
    BY <1>1, <1>3, TableKept
  <1>7. QED
    BY <1>5, <1>6 DEF Serves

\* A copy that is unmounted releases its image.
LEMMA UmountServes ==
  ASSUME NEW s \in Sessions, ServedInv, UmountRoot(s)
  PROVE  Serves
  <1>1. TypeOK /\ OneLayer /\ image' = image
    BY DEF UmountRoot, files, ServedInv, SerialInv
  <1>2. PICK t \in Deepest(s) :
          IF Mounted(t[1])
            THEN /\ stack' = [stack EXCEPT ![t[1]] = Tail(@)]
                 /\ Settle({l \in {Top(t[1]).loop} : l \notin MountedLoops' /\ Holders(l) = {}})
            ELSE UNCHANGED <<stack, backing, auto>>
    BY DEF UmountRoot
  <1> DEFINE i == t[1]
  <1>3. i \in Instances
    BY <1>1, <1>2 DEF Deepest, TypeOK, ScratchOK
  <1>4. stack'[i] = <<>> /\ \A j \in Instances : j # i => stack'[j] = stack[j]
    <2>1. CASE Mounted(i)
      <3>1. Tail(stack[i]) = <<>>
        BY <1>1, <1>3, <2>1, CopyAt DEF Mounted
      <3>2. QED
        BY <1>1, <1>2, <1>3, <2>1, <3>1 DEF TypeOK, KernelOK
    <2>2. CASE ~Mounted(i)
      BY <1>2, <2>2 DEF Mounted
    <2>3. QED
      BY <2>1, <2>2
  <1>5. \A l \in Loops : backing'[l] \in {backing[l], None}
    BY <1>2 DEF Settle
  <1>6. \A r \in Sessions : pc'[r] # "mke2fs"
    BY OnlyCreates DEF ServedInv, Step, TakeDown, UmountRoot, CreateImage
  <1>7. FileInv'
    <2>1. \A j \in Instances : image[j] = "raw" => stack'[j] = <<>>
      BY <1>4 DEF ServedInv, FileInv
    <2>2. QED
      BY <1>1, <1>5, <1>6, <2>1, FilesKept
  <1>8. Copies' = [j \in Instances |-> IF j \in {i} THEN {} ELSE Copies[j]]
    <2>1. LoopsAt(i)' = {} /\ \A j \in Instances : j # i => LoopsAt(j)' = LoopsAt(j)
      BY <1>4 DEF LoopsAt
    <2>2. QED
      BY <2>1 DEF Copies
  <1>9. Table!Release({i})
    BY <1>1, <1>8 DEF Table!Release
  <1>10. QED
    BY <1>3, <1>7, <1>9 DEF Serves, Table!Next

\* Every other step of a script, and its being cut, touch neither.
LEMMA RestServes ==
  ASSUME NEW s \in Sessions, ServedInv,
         \/ Decide(s) \/ MountFails(s) \/ RootStep(s) \/ ListPids(s) \/ Kill(s)
         \/ Snapshot(s) \/ Detach(s) \/ Cut(s)
  PROVE  Serves
  <1>1. UNCHANGED <<image, stack>>
    BY DEF Decide, IsUp, NeedImage, CheckMounted, AttachFails, ChrootFails, NothingThere,
       Unmounted, CheckOffline, Fsck, MountFails, RootStep, Prepare, Chroot, ListPids, Kill,
       Snapshot, Detach, Cut, files, device
  <1>2. \A l \in Loops : backing'[l] \in {backing[l], None}
    <2>1. CASE Detach(s)
      BY <2>1 DEF Detach
    <2>2. CASE ~Detach(s)
      BY <2>2 DEF Decide, IsUp, NeedImage, CheckMounted, AttachFails, ChrootFails,
         NothingThere, Unmounted, CheckOffline, Fsck, MountFails, RootStep, Prepare, Chroot,
         ListPids, Kill, Snapshot, Cut, device
    <2>3. QED
      BY <2>1, <2>2
  <1>3. ~CreateImage(s)
    <2>1. CASE Cut(s)
      <3>1. pc'[s] \in {"failed", "check"}
        BY <2>1, FinishPc, GotoPc DEF Cut, ServedInv, SerialInv
      <3>2. CreateImage(s) => pc'[s] \in {"mke2fs", "mounted"}
        BY GotoPc DEF CreateImage, ServedInv, SerialInv
      <3>3. QED
        BY <3>1, <3>2
    <2>2. CASE ~Cut(s)
      BY <2>2 DEF Decide, IsUp, NeedImage, CheckMounted, AttachFails, ChrootFails,
         NothingThere, Unmounted, CheckOffline, Fsck, MountFails, RootStep, Prepare, Chroot,
         ListPids, Kill, Snapshot, Detach, CreateImage
    <2>3. QED
      BY <2>1, <2>2
  <1>4. \A t \in Sessions : pc'[t] # "mke2fs"
    BY <1>3, OnlyCreates DEF ServedInv, Step, Up, TakeDown, Resize, Decide, RootStep
  <1>5. QED
    BY <1>1, <1>2, <1>4, IdleServes

\* What the scripts do not do themselves: a reboot releases all images.
LEMMA EnvironmentServes ==
  ASSUME ServedInv,
         \/ \E s \in Sessions, o \in Ops, i \in Instances : Start(s, o, i)
         \/ \E p, q \in Procs : Fork(p, q)
         \/ \E p \in Procs : Exit(p)
         \/ Reboot
  PROVE  Serves
  <1>1. TypeOK
    BY DEF ServedInv, SerialInv
  <1>2. ASSUME NEW s \in Sessions, NEW o \in Ops, NEW i \in Instances, Start(s, o, i)
        PROVE  Serves
    <2>1. UNCHANGED <<image, stack, backing>>
      BY <1>2 DEF Start, files, device
    <2>2. FirstStep[o] # "mke2fs"
      BY ConstantsAssumption DEF FirstStep, AllOps
    <2>3. \A t \in Sessions : pc'[t] # "mke2fs" \/ (t # s /\ pc[t] = "mke2fs" /\ inst'[t] = inst[t])
      BY <1>1, <1>2, <2>2 DEF Start, TypeOK, ControlOK
    <2>4. FileInv'
      BY <2>1, <2>3 DEF ServedInv, FileInv
    <2>5. UNCHANGED Table!vars
      BY <2>1, TableKept DEF LoopsAt
    <2>6. QED
      BY <2>4, <2>5 DEF Serves
  <1>3. ASSUME NEW p \in Procs, NEW q \in Procs, Fork(p, q)
        PROVE  Serves
    <2>1. UNCHANGED <<image, stack, backing, pc, inst>>
      BY <1>3 DEF Fork, files
    <2>2. FileInv' /\ UNCHANGED Table!vars
      BY <2>1, TableKept DEF LoopsAt, ServedInv, FileInv
    <2>3. QED
      BY <2>2 DEF Serves
  <1>4. ASSUME NEW p \in Procs, Exit(p)
        PROVE  Serves
    <2>1. UNCHANGED <<image, stack, pc, inst>> /\ \A l \in Loops : backing'[l] \in {backing[l], None}
      BY <1>4 DEF Exit, Settle, files
    <2>2. FileInv' /\ UNCHANGED Table!vars
      BY <2>1, TableKept, ConstantsAssumption DEF LoopsAt, ServedInv, FileInv
    <2>3. QED
      BY <2>2 DEF Serves
  <1>5. ASSUME Reboot
        PROVE  Serves
    <2>1. \A i \in Instances : stack'[i] = <<>> /\ LoopsAt(i)' = {}
      BY <1>5 DEF Reboot, LoopsAt
    <2>2. \A t \in Sessions : pc'[t] # "mke2fs"
      BY <1>5 DEF Reboot, Active, Ended
    <2>3. image' = image /\ \A l \in Loops : backing'[l] = None
      BY <1>5 DEF Reboot, files
    <2>4. FileInv'
      BY <2>1, <2>2, <2>3, FilesKept
    <2>5. Table!Release(Instances)
      BY <2>1, <2>3 DEF Table!Release, Copies
    <2>6. QED
      BY <2>4, <2>5 DEF Serves, Table!Next
  <1>6. QED
    BY <1>2, <1>3, <1>4, <1>5

\* Every step keeps FileInv, and is one of the promise or none.
LEMMA NextServes ==
  ASSUME ServedInv, SerialInv', [Next]_vars
  PROVE  Serves
  <1>1. ASSUME NEW s \in Sessions, Step(s)
        PROVE  Serves
    BY <1>1, FileServes, DeleteServes, AttachServes, MountServes, BelowServes, UmountServes,
       RestServes DEF Step, Up, TakeDown, Resize, Decide, RootStep
  <1>2. CASE UNCHANGED vars
    <2>1. UNCHANGED <<image, stack, backing, pc, inst>>
      BY <1>2 DEF vars, files, device
    <2>2. FileInv' /\ UNCHANGED Table!vars
      BY <2>1, TableKept DEF LoopsAt, ServedInv, FileInv
    <2>3. QED
      BY <2>2 DEF Serves
  <1>3. CASE Next
    BY <1>1, <1>3, RestServes, EnvironmentServes DEF Next
  <1>4. QED
    BY <1>2, <1>3

\* As long as commands are issued one after the other and killed processes die at
\* once, the scripts implement the promise of module ExclusiveImage: every mount is
\* that of an unused image, every rewriting, and every deletion, of one that nobody
\* uses, through cut scripts and reboots too.
THEOREM SerialExclusive ==
  ASSUME Serial, ~Stragglers
  PROVE  Spec => ImageExclusive
  <1>1. Init => FileInv /\ Table!Init
    BY ConstantsAssumption DEF Init, FileInv, Table!Init, Copies, LoopsAt
  <1>2. FileInv /\ SerialInv /\ SerialInv' /\ [Next]_vars => FileInv' /\ [Table!Next]_(Table!vars)
    BY NextServes DEF ServedInv, Serves
  <1>3. Agree /\ Table!Init => Promise!Init
    BY DEF Agree, Users, Promise!Init, Table!Init
  <1>4. Agree /\ Agree' /\ [Table!Next]_(Table!vars) => [Promise!Next]_(Promise!vars)
    BY DEF Agree, Users, Promise!Next, Promise!vars, Promise!Mount, Promise!Release, Promise!Create,
       Promise!Format, Promise!Extend, Promise!Delete, Promise!Unused,
       Table!Next, Table!vars, Table!Mount, Table!Release, Table!Create,
       Table!Format, Table!Extend, Table!Delete, Table!Unused
  <1>5. Spec => []SerialInv
    BY SerialCorrect
  <1>6. QED
    BY <1>1, <1>2, <1>3, <1>4, <1>5, UsersAreCopies, PTL
       DEF Spec, ImageExclusive, Promise!Spec

-----------------------------------------------------------------------------
(* Which commands take which steps.                                        *)

\* A step of a script goes on to another, or ends it; the other sessions stay
\* where they are.
LEMMA StepOn ==
  ASSUME NEW s \in Sessions, TypeOK, Step(s)
  PROVE  /\ Active(s)
         /\ \A t \in Sessions : t # s => /\ pc'[t] = pc[t] /\ op'[t] = op[t]
                                         /\ inst'[t] = inst[t] /\ todo'[t] = todo[t]
         /\ pc'[s] \in Ended \/ (op'[s] = op[s] /\ inst'[s] = inst[s])
  <1>1. pc[s] \notin Ended
    BY DEF Step, IsUp, Up, NeedImage, CreateImage, Format, CheckMounted, Attach, AttachFails,
           Mount, MountFails, MountKernelFs, Bind, Prepare, Chroot, ChrootFails, TakeDown,
           NothingThere, ListPids, Kill, Snapshot, UmountSub, UmountRoot, Unmounted, Detach,
           Delete, Resize, CheckOffline, Grow, Fsck, GrowFs, Ended
  <1>2. \/ \E l : Goto(s, l)
        \/ \E v \in Ended : Finish(s, v)
        \/ UNCHANGED <<pc, op, inst>>
    BY DEF Step, IsUp, Up, NeedImage, CreateImage, Format, CheckMounted, Attach, AttachFails,
           Mount, MountFails, MountKernelFs, Bind, Prepare, Chroot, ChrootFails, TakeDown,
           NothingThere, ListPids, Kill, Snapshot, UmountSub, UmountRoot, Unmounted, Detach,
           Delete, Resize, CheckOffline, Grow, Fsck, GrowFs, Ended
  <1>3. \/ todo' = todo
        \/ \E x : todo' = [todo EXCEPT ![s] = x]
    BY DEF Step, IsUp, Up, NeedImage, CreateImage, Format, CheckMounted, Attach, AttachFails,
           Mount, MountFails, MountKernelFs, Bind, Prepare, Chroot, ChrootFails, TakeDown,
           NothingThere, ListPids, Kill, Snapshot, UmountSub, UmountRoot, Unmounted, Detach,
           Delete, Resize, CheckOffline, Grow, Fsck, GrowFs, scratch
  <1>4. \A t \in Sessions : t # s => /\ pc'[t] = pc[t] /\ op'[t] = op[t]
                                     /\ inst'[t] = inst[t] /\ todo'[t] = todo[t]
    BY <1>2, <1>3 DEF Goto, Finish, TypeOK, ControlOK, ScratchOK
  <1>5. pc'[s] \in Ended \/ (op'[s] = op[s] /\ inst'[s] = inst[s])
    BY <1>2 DEF Goto, Finish, TypeOK, ControlOK
  <1>6. QED
    BY <1>1, <1>4, <1>5 DEF Active

\* The steps that bring a session to its umount loop, or keep it there.
LEMMA Unmounting ==
  ASSUME NEW s \in Sessions, TypeOK, Step(s), pc'[s] = "umount"
  PROVE  \/ Snapshot(s)
         \/ UmountSub(s) \/ UmountRoot(s)
  <1>1. ASSUME NEW l, Goto(s, l) PROVE pc'[s] = l
    BY <1>1 DEF Goto, TypeOK, ControlOK
  <1>2. ASSUME NEW v, Finish(s, v) PROVE pc'[s] = v
    BY <1>2 DEF Finish, TypeOK, ControlOK
  <1>3. ~IsUp(s) /\ ~Resize(s) /\ ~Chroot(s) /\ ~ChrootFails(s)
    BY <1>1, <1>2 DEF IsUp, Resize, CheckOffline, Grow, Fsck, GrowFs, Chroot, ChrootFails
  <1>4. ~Up(s)
    <2>1. ~MountKernelFs(s) /\ ~Bind(s)
      BY <1>1, <1>2 DEF MountKernelFs, Bind, NextMount
    <2>2. QED
      BY <1>1, <1>2, <2>1 DEF Up, NeedImage, CreateImage, Format, CheckMounted, Attach,
         AttachFails, Mount, MountFails, Prepare
  <1>5. ~NothingThere(s) /\ ~ListPids(s) /\ ~Kill(s) /\ ~Unmounted(s) /\ ~Detach(s) /\ ~Delete(s)
    BY <1>1, <1>2 DEF NothingThere, ListPids, Kill, Unmounted, Detach, Delete
  <1>6. QED
    BY <1>3, <1>4, <1>5 DEF Step, TakeDown

\* Changing what is mounted below a copy changes the number of copies nowhere.
LEMMA SetTopLen ==
  ASSUME NEW j \in Instances, NEW kfs, TypeOK, Mounted(j), SetTop(j, kfs), NEW i \in Instances
  PROVE  Len(stack'[i]) = Len(stack[i])
  <1> DEFINE layer == [loop |-> Top(j).loop, kfs |-> kfs]
  <1>1. stack[j] \in Seq(Layer) /\ stack[j] # <<>>
    BY DEF TypeOK, KernelOK, Mounted
  <1>2. Len(<<layer>> \o Tail(stack[j])) = Len(stack[j])
    BY <1>1
  <1>3. stack' = [stack EXCEPT ![j] = <<layer>> \o Tail(@)]
    BY DEF SetTop
  <1>4. QED
    BY <1>2, <1>3 DEF TypeOK, KernelOK

\* What up.sh mounts below the image, and what it does after that.
Below == KernelFs \cup {"prep"}

UpSteps == Below \cup {"image", "mounted", "attach", "mount"}

Kind(s) ==
  /\ Active(s) => op[s] \in Ops
  /\ Active(s) /\ op[s] = "up" => pc[s] \in UpSteps
  /\ Active(s) /\ op[s] = "enter" => pc[s] \in UpSteps \cup {"isup", "chroot"}
  /\ Active(s) /\ op[s] = "down" => pc[s] \in Teardown \cup {"list"}
  /\ pc[s] = "delete" => op[s] \in {"remove", "purge"}

KindInv == TypeOK /\ \A s \in Sessions : Kind(s)

\* A step that goes on to l, where l is a step of the command, or that ends it.
LEMMA KindGoto ==
  ASSUME NEW s \in Sessions, NEW l, KindInv, Active(s), Goto(s, l),
         op[s] = "up" => l \in UpSteps,
         op[s] = "enter" => l \in UpSteps \cup {"isup", "chroot"},
         op[s] = "down" => l \in Teardown \cup {"list"},
         l = "delete" => op[s] \in {"remove", "purge"}
  PROVE  Kind(s)'
  <1>1. pc'[s] = l /\ op'[s] = op[s] /\ op[s] \in Ops
    BY DEF Goto, KindInv, TypeOK, ControlOK, Kind
  <1>2. QED
    BY <1>1 DEF Kind

LEMMA KindFinish ==
  ASSUME NEW s \in Sessions, NEW v \in Ended, TypeOK, Finish(s, v)
  PROVE  Kind(s)'
  BY DEF Finish, TypeOK, ControlOK, Kind, Active, Ended

LEMMA KindStep ==
  ASSUME NEW s \in Sessions, KindInv, Step(s)
  PROVE  Kind(s)'
  <1>1. TypeOK /\ Kind(s) /\ Active(s)
    BY StepOn DEF KindInv
  <1>2. \A v \in {"ok", "failed"} : Finish(s, v) => Kind(s)'
    BY <1>1, KindFinish DEF Ended
  <1>3. CASE IsUp(s)
    <2>1. op[s] \notin {"up", "down"}
      BY <1>1, <1>3 DEF IsUp, Kind, UpSteps, Below, KernelFs, Teardown
    <2>2. CASE op[s] = "enter"
      BY <1>1, <1>3, <2>2, KindGoto DEF IsUp, UpSteps
    <2>3. CASE op[s] # "enter"
      BY <1>1, <1>3, <2>1, <2>3, KindGoto DEF IsUp
    <2>4. QED
      BY <2>2, <2>3
  <1>4. CASE \/ NeedImage(s) \/ CreateImage(s) \/ Format(s) \/ CheckMounted(s) \/ Attach(s)
             \/ AttachFails(s) \/ Mount(s) \/ MountFails(s)
    <2>1. op[s] # "down"
      BY <1>1, <1>4 DEF NeedImage, CreateImage, Format, CheckMounted, Attach, AttachFails, Mount,
         MountFails, Kind, Teardown
    <2>2. \/ \E v \in {"ok", "failed"} : Finish(s, v)
          \/ Goto(s, "mke2fs") /\ op[s] = "install"
          \/ \E l \in {"mounted", "attach", "mount", "proc"} : Goto(s, l)
      BY <1>4 DEF NeedImage, CreateImage, Format, CheckMounted, Attach, AttachFails, Mount,
         MountFails
    <2>3. {"mounted", "attach", "mount", "proc"} \subseteq UpSteps
      BY DEF UpSteps, Below, KernelFs
    <2>4. QED
      BY <1>1, <1>2, <2>1, <2>2, <2>3, KindGoto
  <1>5. CASE MountKernelFs(s) \/ Bind(s)
    <2>1. pc[s] \in KernelFs
      BY <1>5 DEF MountKernelFs, Bind, KernelFs
    <2>2. op[s] # "down"
      BY <1>1, <2>1 DEF Kind, KernelFs, Teardown
    <2>3. \/ Finish(s, "failed")
          \/ \E l \in Below : Goto(s, l)
      BY <1>5, <2>1 DEF MountKernelFs, Bind, Below, KernelFs, NextMount
    <2>4. Below \subseteq UpSteps /\ "delete" \notin Below
      BY DEF UpSteps, Below, KernelFs
    <2>5. QED
      BY <1>1, <1>2, <2>2, <2>3, <2>4, KindGoto
  <1>6. CASE Prepare(s) \/ Chroot(s) \/ ChrootFails(s)
    BY <1>1, <1>2, <1>6, KindGoto DEF Prepare, Chroot, ChrootFails
  <1>7. CASE NothingThere(s) \/ ListPids(s) \/ Kill(s) \/ Snapshot(s) \/ Unmounted(s)
    <2>1. op[s] \notin {"up", "enter"}
      BY <1>1, <1>7 DEF NothingThere, ListPids, Kill, Snapshot, Unmounted, Kind, UpSteps, Below,
         KernelFs
    <2>2. \/ Finish(s, "ok")
          \/ \E l \in Teardown : Goto(s, l)
      BY <1>7 DEF NothingThere, ListPids, Kill, Snapshot, Unmounted, Teardown
    <2>3. "delete" \notin Teardown
      BY DEF Teardown
    <2>4. QED
      BY <1>1, <1>2, <2>1, <2>2, <2>3, KindGoto
  <1>8. CASE UmountSub(s) \/ UmountRoot(s)
    BY <1>1, <1>8 DEF UmountSub, UmountRoot, Kind, Active
  <1>9. CASE Detach(s)
    <2>1. op[s] \notin {"up", "enter"}
      BY <1>1, <1>9 DEF Detach, Kind, UpSteps, Below, KernelFs
    <2>2. \/ Finish(s, "ok")
          \/ op[s] \in {"remove", "purge"} /\ Goto(s, "delete")
          \/ op[s] = "resize" /\ Goto(s, "check")
      BY <1>9 DEF Detach
    <2>3. QED
      BY <1>1, <1>2, <2>1, <2>2, KindGoto
  <1>10. CASE Delete(s)
    BY <1>1, <1>2, <1>10 DEF Delete
  <1>11. CASE Resize(s)
    <2>1. op[s] \notin {"up", "enter", "down"}
      BY <1>1, <1>11 DEF Resize, CheckOffline, Grow, Fsck, GrowFs, Kind, UpSteps, Below,
         KernelFs, Teardown
    <2>2. \/ \E v \in {"ok", "failed"} : Finish(s, v)
          \/ \E l \in {"truncate", "e2fsck", "resize2fs"} : Goto(s, l)
      BY <1>11 DEF Resize, CheckOffline, Grow, Fsck, GrowFs
    <2>3. QED
      BY <1>1, <1>2, <2>1, <2>2, KindGoto
  <1>12. QED
    BY <1>3, <1>4, <1>5, <1>6, <1>7, <1>8, <1>9, <1>10, <1>11 DEF Step, Up, TakeDown

LEMMA KindStart ==
  ASSUME NEW s \in Sessions, NEW o \in Ops, NEW i \in Instances, TypeOK, Start(s, o, i)
  PROVE  Kind(s)'
  <1>1. pc'[s] = FirstStep[o] /\ op'[s] = o
    BY DEF Start, TypeOK, ControlOK
  <1>2. o \in AllOps
    BY ConstantsAssumption
  <1>3. QED
    BY <1>1, <1>2 DEF Kind, FirstStep, AllOps, UpSteps, Teardown

LEMMA KindNext == KindInv /\ [Next]_vars => KindInv'
  <1> SUFFICES ASSUME KindInv, [Next]_vars PROVE KindInv'
    OBVIOUS
  <1>1. TypeOK /\ TypeOK'
    BY NextTyped DEF KindInv
  <1>2. ASSUME NEW s \in Sessions, Kind(s)', \A t \in Sessions : t # s => pc'[t] = pc[t] /\ op'[t] = op[t]
        PROVE  KindInv'
    BY <1>1, <1>2 DEF KindInv, Kind, Active
  <1>3. ASSUME NEW s \in Sessions, Step(s)
        PROVE  KindInv'
    BY <1>1, <1>2, <1>3, KindStep, StepOn
  <1>4. ASSUME NEW s \in Sessions, NEW o \in Ops, NEW i \in Instances, Start(s, o, i)
        PROVE  KindInv'
    <2>1. \A t \in Sessions : t # s => pc'[t] = pc[t] /\ op'[t] = op[t]
      BY <1>1, <1>4 DEF Start, TypeOK, ControlOK
    <2>2. QED
      BY <1>1, <1>2, <1>4, <2>1, KindStart
  <1>5. ASSUME NEW s \in Sessions, Cut(s)
        PROVE  KindInv'
    <2>1. \A t \in Sessions : t # s => pc'[t] = pc[t] /\ op'[t] = op[t]
      BY <1>1, <1>5 DEF Cut, Goto, Finish, TypeOK, ControlOK
    <2>2. CASE Finish(s, "failed")
      BY <1>1, <1>2, <2>1, <2>2, KindFinish DEF Ended
    <2>3. CASE op[s] = "resize" /\ Goto(s, "check")
      BY <1>2, <1>5, <2>1, <2>3, KindGoto DEF Cut
    <2>4. QED
      BY <1>5, <2>2, <2>3 DEF Cut
  <1>6. CASE (\E p, q \in Procs : Fork(p, q)) \/ (\E p \in Procs : Exit(p)) \/ UNCHANGED vars
    BY <1>1, <1>6 DEF Fork, Exit, vars, KindInv, Kind, Active
  <1>7. CASE Reboot
    BY <1>1, <1>7 DEF Reboot, KindInv, Kind, Active, Ended, TypeOK, ControlOK
  <1>8. QED
    BY <1>3, <1>4, <1>5, <1>6, <1>7 DEF Next

LEMMA KindInit == Init => KindInv
  BY InitTyped DEF Init, KindInv, Kind, Active, Ended

-----------------------------------------------------------------------------
(* What is entered is complete.                                            *)

Required == {"proc", "sys", "run", "dev", "pts", "shm"}

\* What up.sh has mounted when it comes to a step below the image.
Before == [proc |-> {}, sys |-> {"proc"}, run |-> {"proc", "sys"},
           dev |-> {"proc", "sys", "run"}, pts |-> {"proc", "sys", "run", "dev"},
           shm |-> {"proc", "sys", "run", "dev", "pts"},
           hw |-> Required, cgroup |-> Required, prep |-> Required]

\* What enter relies on where it finds the mount point taken.
Ready(i) == Complete(i) /\ i \in helper

\* Session s is in the middle of bringing i up or of taking it down.
Busy(s, i) == \/ pc[s] \in Below /\ i = inst[s]
              \/ pc[s] = "umount" /\ i \in Scope(s)

OneCopy == \A i \in Instances : stack[i] # <<>> => Len(stack[i]) = 1

\* Below the image either everything is there already, or what precedes the step
\* is and, up to the /dev block, /dev is not.
Way(k, i) ==
  /\ Mounted(i)
  /\ \/ Complete(i)
     \/ /\ Before[k] \subseteq Top(i).kfs
        /\ k \in {"proc", "sys", "run", "dev"} => "dev" \notin Top(i).kfs

Settled(s) ==
  /\ pc[s] \in {"attach", "mount"} => ~Mounted(inst[s])
  /\ pc[s] \in Below => Way(pc[s], inst[s])
  /\ pc[s] = "chroot" => Mounted(inst[s])
  /\ pc[s] = "umount" =>
       /\ \A t \in todo[s] : t[1] \in Scope(s)
       /\ \A i \in Scope(s) : Mounted(i) => <<i, "root", 1>> \in todo[s]
  /\ pc[s] \in {"detach", "delete"} => \A i \in Scope(s) : ~Mounted(i)

\* A mount point that is taken, and that nobody is working on, is ready.
ReadyInv ==
  /\ KindInv
  /\ OneActive
  /\ OneCopy
  /\ \A s \in Sessions : Settled(s)
  /\ \A i \in Instances : Mounted(i) /\ (\A s \in Sessions : ~Busy(s, i)) => Ready(i)

\* Commands come one at a time and are not cut, and nothing is installed.
Orderly == Serial /\ ~Cuts /\ "install" \notin Ops

\* Only the session at work is held to anything.
LEMMA ReadyFocus ==
  ASSUME NEW s \in Sessions, ReadyInv, Step(s), KindInv', OneCopy', Settled(s)',
         \A i \in Instances : Mounted(i)' /\ ~Busy(s, i)' => Ready(i)'
  PROVE  ReadyInv'
  <1>1. TypeOK /\ Active(s)
    BY StepOn DEF ReadyInv, KindInv
  <1>2. \A t \in Sessions : t # s => pc'[t] = pc[t] /\ pc[t] \in Ended
    BY <1>1, StepOn DEF ReadyInv, OneActive, Active
  <1>3. OneActive'
    BY <1>2 DEF OneActive, Active
  <1>4. \A t \in Sessions : t # s => Settled(t)'
    BY <1>2 DEF Settled, Below, KernelFs, Ended
  <1>5. QED
    BY <1>3, <1>4 DEF ReadyInv

\* Nobody but the session at work is busy with an instance.
LEMMA BusyOnly ==
  ASSUME NEW s \in Sessions, ReadyInv, Active(s), NEW i \in Instances, Mounted(i), ~Busy(s, i)
  PROVE  Ready(i)
  <1>1. \A t \in Sessions : t # s => pc[t] \in Ended
    BY DEF ReadyInv, OneActive, Active
  <1>2. \A t \in Sessions : ~Busy(t, i)
    BY <1>1 DEF Busy, Below, KernelFs, Ended
  <1>3. QED
    BY <1>2 DEF ReadyInv

\* With one copy at most, what is listed is what the topmost copy has.
LEMMA TopListed ==
  ASSUME NEW i \in Instances, TypeOK, OneCopy, Mounted(i), NEW k
  PROVE  Listed(i, k) <=> k \in Top(i).kfs
  <1>1. stack[i] \in Seq(Layer) /\ stack[i] # <<>> /\ Len(stack[i]) = 1
    BY DEF TypeOK, KernelOK, OneCopy, Mounted
  <1>2. DOMAIN stack[i] = {1} /\ Top(i) = stack[i][1]
    BY <1>1 DEF Top
  <1>3. QED
    BY <1>2 DEF Listed

\* The steps that mount and unmount nothing, and keep chroot-exec.
LEMMA CalmReady ==
  ASSUME Orderly, NEW s \in Sessions, ReadyInv, Step(s), KindInv', stack' = stack, helper' = helper,
         pc[s] \notin Below, ~Mount(s), ~UmountSub(s), ~UmountRoot(s), ~Delete(s)
  PROVE  ReadyInv'
  <1>1. TypeOK /\ Active(s) /\ Kind(s) /\ op[s] # "install" /\ inst[s] \in Instances /\ Settled(s)
    BY StepOn DEF ReadyInv, KindInv, Kind, Orderly, TypeOK, ControlOK
  <1>2. ASSUME NEW v, Finish(s, v)
        PROVE  pc'[s] = v
    BY <1>1, <1>2 DEF Finish, TypeOK, ControlOK
  <1>3. ASSUME NEW l, Goto(s, l)
        PROVE  pc'[s] = l /\ op'[s] = op[s] /\ inst'[s] = inst[s]
    BY <1>1, <1>3 DEF Goto, TypeOK, ControlOK
  <1>4. \/ \E l \in {"ok", "failed", "image", "list", "check", "kill", "snapshot", "truncate",
                     "e2fsck", "resize2fs", "mounted"} : pc'[s] = l /\ pc[s] # "umount"
        \/ \E l \in {"attach", "mount"} : /\ pc'[s] = l /\ inst'[s] = inst[s] /\ ~Mounted(inst[s])
                                          /\ pc[s] # "umount"
        \/ \E l \in {"proc", "chroot"} : /\ pc'[s] = l /\ inst'[s] = inst[s] /\ Mounted(inst[s])
                                         /\ pc[s] # "umount"
        \/ Snapshot(s)
        \/ Unmounted(s)
        \/ pc[s] = "detach" /\ pc'[s] = "delete" /\ op'[s] = op[s] /\ inst'[s] = inst[s]
    <2>1. CASE IsUp(s)
      BY <1>3, <2>1 DEF IsUp
    <2>2. CASE \/ NeedImage(s) \/ CreateImage(s) \/ Format(s) \/ CheckMounted(s) \/ Attach(s)
               \/ AttachFails(s) \/ MountFails(s)
      BY <1>1, <1>2, <1>3, <2>2 DEF NeedImage, CreateImage, Format, CheckMounted, Attach,
         AttachFails, MountFails, Settled
    <2>3. CASE Chroot(s) \/ ChrootFails(s) \/ NothingThere(s) \/ ListPids(s) \/ Kill(s)
      BY <1>2, <1>3, <2>3 DEF Chroot, ChrootFails, NothingThere, ListPids, Kill
    <2>4. CASE Detach(s)
      BY <1>2, <1>3, <2>4 DEF Detach
    <2>5. CASE Resize(s)
      BY <1>2, <1>3, <2>5 DEF Resize, CheckOffline, Grow, Fsck, GrowFs
    <2>6. ~MountKernelFs(s) /\ ~Bind(s) /\ ~Prepare(s)
      BY DEF MountKernelFs, Bind, Prepare, Below, KernelFs
    <2>7. QED
      BY <2>1, <2>2, <2>3, <2>4, <2>5, <2>6 DEF Step, Up, TakeDown
  <1>5. \A i \in Instances : Mounted(i) /\ ~Busy(s, i) => Ready(i)
    BY <1>1, BusyOnly
  <1>6. \A i \in Instances : /\ Mounted(i)' <=> Mounted(i)
                             /\ Ready(i)' <=> Ready(i)
    BY DEF Mounted, Ready, Complete, Top
  <1>7. OneCopy'
    BY DEF ReadyInv, OneCopy
  <1>8. ASSUME pc[s] # "umount"
        PROVE  \A i \in Instances : Mounted(i)' /\ ~Busy(s, i)' => Ready(i)'
    BY <1>5, <1>6, <1>8 DEF Busy
  <1>9. ASSUME pc'[s] \in {"ok", "failed", "image", "list", "check", "kill", "snapshot", "truncate",
                           "e2fsck", "resize2fs", "mounted"}
        PROVE  Settled(s)'
    BY <1>9 DEF Settled, Below, KernelFs
  <1>10. ASSUME pc'[s] \in {"attach", "mount"}, inst'[s] = inst[s], ~Mounted(inst[s])
         PROVE  Settled(s)'
    BY <1>1, <1>6, <1>10 DEF Settled, Below, KernelFs
  <1>11. ASSUME pc'[s] \in {"proc", "chroot"}, inst'[s] = inst[s], Mounted(inst[s]), pc[s] # "umount"
         PROVE  Settled(s)'
    <2>1. Complete(inst[s])'
      BY <1>1, <1>5, <1>6, <1>11 DEF Busy, Ready
    <2>2. Mounted(inst[s])'
      BY <1>1, <1>6, <1>11
    <2>3. pc'[s] \in Below => Way(pc[s], inst[s])'
      BY <2>1, <2>2, <1>11 DEF Way, Complete, Mounted, Top
    <2>4. QED
      BY <1>11, <2>2, <2>3 DEF Settled, Mounted
  <1>12. CASE Snapshot(s)
    <2>1. pc'[s] = "umount" /\ op'[s] = op[s] /\ inst'[s] = inst[s] /\ pc[s] = "snapshot"
      BY <1>3, <1>12 DEF Snapshot
    <2>2. Scope(s)' = Scope(s) /\ Scope(s) \subseteq Instances
      BY <1>1, <2>1 DEF Scope, UmountScope
    <2>3. \A t \in todo'[s] : t[1] \in Scope(s)
      BY <1>1, <1>12 DEF Snapshot, Scope, TypeOK, ScratchOK
    <2>4. ASSUME NEW i \in Scope(s), Mounted(i)
          PROVE  <<i, "root", 1>> \in todo'[s]
      <3>1. 1 \in DOMAIN stack[i]
        BY <2>2, <2>4, EmptySeq DEF Mounted, TypeOK, KernelOK
      <3>2. <<i, "root", 1>> \in UNION {{<<j, "root", n>> : n \in DOMAIN stack[j]} : j \in Scope(s)}
        BY <3>1
      <3>3. QED
        BY <1>1, <1>12, <3>2 DEF Snapshot, Scope, TypeOK, ScratchOK
    <2>5. Settled(s)'
      BY <2>1, <2>2, <2>3, <2>4, <1>6 DEF Settled, Below, KernelFs, Mounted
    <2>6. QED
      BY <1>7, <1>8, <2>1, <2>5, ReadyFocus
  <1>13. CASE Unmounted(s)
    <2>1. pc'[s] = "detach" /\ op'[s] = op[s] /\ inst'[s] = inst[s] /\ pc[s] = "umount"
      BY <1>3, <1>13 DEF Unmounted
    <2>2. Scope(s)' = Scope(s) /\ Scope(s) \subseteq Instances
      BY <1>1, <2>1 DEF Scope, UmountScope
    <2>3. \A i \in Scope(s) : ~Mounted(i)
      BY <1>1, <1>13, <2>1 DEF Unmounted, Settled
    <2>4. Settled(s)'
      BY <2>1, <2>2, <2>3, <1>6 DEF Settled, Below, KernelFs, Mounted
    <2>5. \A i \in Instances : Mounted(i)' /\ ~Busy(s, i)' => Ready(i)'
      BY <1>5, <1>6, <2>1, <2>3 DEF Busy, Below, KernelFs
    <2>6. QED
      BY <1>7, <2>4, <2>5, ReadyFocus
  <1>14. CASE pc[s] = "detach" /\ pc'[s] = "delete" /\ op'[s] = op[s] /\ inst'[s] = inst[s]
    <2>1. Scope(s)' = Scope(s) /\ Scope(s) \subseteq Instances
      BY <1>1, <1>14 DEF Scope, UmountScope
    <2>2. Settled(s)'
      BY <1>1, <1>6, <1>14, <2>1 DEF Settled, Below, KernelFs, Mounted
    <2>3. QED
      BY <1>7, <1>8, <1>14, <2>2, ReadyFocus
  <1>15. QED
    BY <1>4, <1>7, <1>8, <1>9, <1>10, <1>11, <1>12, <1>13, <1>14, ReadyFocus

LEMMA MountReady ==
  ASSUME Orderly, NEW s \in Sessions, ReadyInv, Mount(s), KindInv'
  PROVE  ReadyInv'
  <1>1. Step(s) /\ TypeOK /\ TypeOK' /\ op[s] # "install" /\ inst[s] \in Instances /\ Settled(s)
    BY DEF Mount, Step, Up, ReadyInv, KindInv, Kind, Orderly, TypeOK, ControlOK, Active, Ended
  <1>2. pc[s] = "mount" /\ stack[inst[s]] = <<>>
    BY <1>1 DEF Mount, Settled, Mounted
  <1>3. pc'[s] = "proc" /\ inst'[s] = inst[s]
    BY <1>1 DEF Mount, Goto, TypeOK, ControlOK
  <1>4. stack'[inst[s]] = <<[loop |-> dev[s], kfs |-> {}]>>
    <2>1. <<[loop |-> dev[s], kfs |-> {}]>> \o <<>> = <<[loop |-> dev[s], kfs |-> {}]>>
      OBVIOUS
    <2>2. QED
      BY <1>1, <1>2, <2>1 DEF Mount, TypeOK, KernelOK
  <1>5. \A i \in Instances : i # inst[s] => stack'[i] = stack[i]
    BY <1>1 DEF Mount, TypeOK, KernelOK
  <1>6. OneCopy'
    <2>1. \A x : Len(<<x>>) = 1
      OBVIOUS
    <2>2. Len(stack'[inst[s]]) = 1
      BY <1>4, <2>1
    <2>3. QED
      BY <1>5, <2>2 DEF ReadyInv, OneCopy
  <1>7. Mounted(inst[s])' /\ Top(inst[s]).kfs' = {}
    BY <1>3, <1>4 DEF Mounted, Top
  <1>8. Settled(s)'
    <2>1. Way(pc[s], inst[s])'
      BY <1>3, <1>7 DEF Way, Before
    <2>2. QED
      BY <1>3, <2>1 DEF Settled, Below, KernelFs
  <1>9. \A i \in Instances : Mounted(i)' /\ ~Busy(s, i)' => Ready(i)'
    <2>1. SUFFICES ASSUME NEW i \in Instances, i # inst[s], Mounted(i)
                   PROVE  Ready(i)'
      BY <1>3, <1>5 DEF Busy, Below, KernelFs, Mounted
    <2>2. Ready(i)
      BY <1>1, <1>2, <2>1, BusyOnly, StepOn DEF Busy, Below, KernelFs
    <2>3. QED
      BY <1>5, <2>1, <2>2 DEF Mount, files, Ready, Complete, Mounted, Top
  <1>10. QED
    BY <1>1, <1>6, <1>8, <1>9, ReadyFocus

\* What SetTop does to one mount point.
LEMMA SetTopTo ==
  ASSUME NEW i \in Instances, NEW kfs, TypeOK, OneCopy, Mounted(i), SetTop(i, kfs)
  PROVE  /\ Mounted(i)' /\ Len(stack'[i]) = 1
         /\ Top(i)'.kfs = kfs
         /\ \A j \in Instances : j # i => stack'[j] = stack[j]
  <1> DEFINE layer == [loop |-> Top(i).loop, kfs |-> kfs]
  <1>1. stack[i] \in Seq(Layer) /\ stack[i] # <<>> /\ Len(stack[i]) = 1
    BY DEF TypeOK, KernelOK, OneCopy, Mounted
  <1>2. Tail(stack[i]) = <<>>
    <2>1. Tail(stack[i]) \in Seq(Layer) /\ Len(Tail(stack[i])) = 0
      BY <1>1
    <2>2. QED
      BY <2>1, EmptySeq
  <1>3. stack'[i] = <<layer>> \o <<>>
    BY <1>2 DEF SetTop, TypeOK, KernelOK
  <1>4. <<layer>> \o <<>> = <<layer>>
    OBVIOUS
  <1>5. \A j \in Instances : j # i => stack'[j] = stack[j]
    BY DEF SetTop, TypeOK, KernelOK
  <1>6. stack'[i] = <<layer>>
    BY <1>3, <1>4
  <1>7. QED
    BY <1>5, <1>6 DEF Mounted, Top

\* The steps below the image: what a step finds, it leaves for the next one to find.
LEMMA BelowReady ==
  ASSUME NEW s \in Sessions, ReadyInv, MountKernelFs(s) \/ Bind(s), KindInv'
  PROVE  ReadyInv'
  <1>1. Step(s) /\ TypeOK /\ OneCopy /\ pc[s] \in KernelFs
    BY DEF MountKernelFs, Bind, Step, Up, ReadyInv, KindInv, KernelFs
  <1>2. PICK k \in KernelFs, i \in Instances : /\ k = pc[s] /\ i = inst[s]
                                              /\ Active(s) /\ Way(k, i) /\ k # "umount"
    BY <1>1 DEF ReadyInv, Settled, Below, KernelFs, TypeOK, ControlOK, Active, Ended
  <1>3. Mounted(i) /\ Top(i).kfs \in SUBSET KernelFs
    BY <1>1, <1>2, TopKfs DEF Way, TypeOK
  <1>4. helper' = helper
    BY DEF MountKernelFs, Bind, files
  <1>5. ASSUME NEW l \in Below, Goto(s, l), OneCopy', Way(l, i)',
               \A j \in Instances : j # i => stack'[j] = stack[j]
        PROVE  ReadyInv'
    <2>1. pc'[s] = l /\ inst'[s] = i
      BY <1>1, <1>2, <1>5 DEF Goto, TypeOK, ControlOK
    <2>2. Settled(s)'
      BY <1>5, <2>1 DEF Settled, Below, KernelFs, Way
    <2>3. \A j \in Instances : Mounted(j)' /\ ~Busy(s, j)' => Ready(j)'
      <3>1. SUFFICES ASSUME NEW j \in Instances, j # i, Mounted(j)
                     PROVE  Ready(j)'
        BY <1>5, <2>1 DEF Busy, Mounted
      <3>2. Ready(j)
        BY <1>2, <3>1, BusyOnly DEF Busy
      <3>3. QED
        BY <1>4, <1>5, <3>1, <3>2 DEF Ready, Complete, Mounted, Top
    <2>4. QED
      BY <1>1, <1>5, <2>2, <2>3, ReadyFocus
  <1>6. ASSUME NEW l \in Below, Goto(s, l), stack' = stack, Way(l, i)
        PROVE  ReadyInv'
    <2>1. OneCopy' /\ Way(l, i)'
      BY <1>1, <1>6 DEF OneCopy, Way, Complete, Mounted, Top
    <2>2. QED
      BY <1>5, <1>6, <2>1
  <1>7. ASSUME NEW l \in Below, Goto(s, l), SetTop(i, Top(i).kfs \cup {k}),
               \/ Complete(i)
               \/ /\ Before[l] \subseteq Top(i).kfs \cup {k}
                  /\ l \in {"proc", "sys", "run", "dev"} => "dev" \notin Top(i).kfs \cup {k}
        PROVE  ReadyInv'
    <2>1. /\ Mounted(i)' /\ Len(stack'[i]) = 1
          /\ Top(i)'.kfs = Top(i).kfs \cup {k}
          /\ \A j \in Instances : j # i => stack'[j] = stack[j]
      BY <1>1, <1>2, <1>3, <1>7, SetTopTo
    <2>2. OneCopy'
      BY <1>1, <2>1 DEF OneCopy
    <2>3. Complete(i) => Complete(i)'
      BY <2>1 DEF Complete
    <2>4. Way(l, i)'
      BY <1>7, <2>1, <2>3 DEF Way
    <2>5. QED
      BY <1>5, <1>7, <2>1, <2>2, <2>4
  <1>8. CASE Bind(s)
    <2>1. k \in {"hw", "cgroup"} /\ NextMount[k] \in {"cgroup", "prep"} /\ Goto(s, NextMount[k])
      BY <1>2, <1>8 DEF Bind, NextMount
    <2>2. Complete(i)
      BY <1>2, <2>1 DEF Way, Before, Required, Complete
    <2>3. stack' = stack \/ SetTop(i, Top(i).kfs \cup {k})
      BY <1>2, <1>8 DEF Bind
    <2>4. NextMount[k] \in Below
      BY <2>1 DEF Below, KernelFs
    <2>5. QED
      BY <1>3, <1>6, <1>7, <2>1, <2>2, <2>3, <2>4 DEF Way
  <1>9. CASE MountKernelFs(s)
    <2>1. k \in {"proc", "sys", "run", "dev", "pts", "shm"}
      BY <1>2, <1>9 DEF MountKernelFs
    <2>2. NextMount[k] \in Below /\ "hw" \in Below
      BY <2>1 DEF NextMount, Below, KernelFs
    <2>3. CASE k \in {"proc", "sys", "run", "dev"} /\ Listed(i, k)
      <3>1. stack' = stack /\ Goto(s, IF k = "dev" THEN "hw" ELSE NextMount[k])
        BY <1>2, <1>9, <2>3 DEF MountKernelFs
      <3>2. k \in Top(i).kfs
        BY <1>1, <1>2, <1>3, <2>3, TopListed
      <3>3. CASE Complete(i)
        BY <1>3, <1>6, <2>2, <3>1, <3>3 DEF Way
      <3>4. CASE ~Complete(i)
        <4>1. Before[k] \subseteq Top(i).kfs /\ "dev" \notin Top(i).kfs
          BY <1>2, <2>3, <3>4 DEF Way
        <4>2. k # "dev"
          BY <3>2, <4>1
        <4>3. Way(NextMount[k], i)
          BY <1>3, <2>3, <3>2, <4>1, <4>2 DEF Way, NextMount, Before
        <4>4. QED
          BY <1>6, <2>2, <3>1, <4>2, <4>3
      <3>5. QED
        BY <3>3, <3>4
    <2>4. CASE ~(k \in {"proc", "sys", "run", "dev"} /\ Listed(i, k))
      <3>1. k \in {"pts", "shm"} => "dev" \in Top(i).kfs
        BY <1>2 DEF Way, Before, Complete
      <3>2. SetTop(i, Top(i).kfs \cup {k}) /\ Goto(s, NextMount[k])
        BY <1>2, <1>3, <1>9, <2>4, <3>1 DEF MountKernelFs
      <3>3. CASE Complete(i)
        BY <1>7, <2>2, <3>2, <3>3
      <3>4. CASE ~Complete(i)
        <4>1. /\ Before[k] \subseteq Top(i).kfs
              /\ k \in {"proc", "sys", "run", "dev"} => "dev" \notin Top(i).kfs
          BY <1>2, <3>4 DEF Way
        <4>2. /\ Before[NextMount[k]] \subseteq Top(i).kfs \cup {k}
              /\ NextMount[k] \in {"proc", "sys", "run", "dev"} => "dev" \notin Top(i).kfs \cup {k}
          BY <2>1, <4>1 DEF NextMount, Before, Required
        <4>3. QED
          BY <1>7, <2>2, <3>2, <4>2
      <3>5. QED
        BY <3>3, <3>4
    <2>5. QED
      BY <2>3, <2>4
  <1>10. QED
    BY <1>8, <1>9

\* Preparing writes chroot-exec, and is the last of the steps that bring a rootfs up.
LEMMA PrepareReady ==
  ASSUME NEW s \in Sessions, ReadyInv, Prepare(s), KindInv'
  PROVE  ReadyInv'
  <1>1. Step(s) /\ TypeOK /\ Active(s) /\ inst[s] \in Instances /\ pc[s] = "prep" /\ stack' = stack
    BY DEF Prepare, Step, Up, ReadyInv, KindInv, TypeOK, ControlOK, Active, Ended
  <1>2. PICK i \in Instances : i = inst[s]
    BY <1>1
  <1>3. Mounted(i) /\ Complete(i)
    BY <1>1, <1>2 DEF ReadyInv, Settled, Below, Way, Before, Required, Complete
  <1>4. helper' = helper \cup {i}
    BY <1>2 DEF Prepare
  <1>5. pc'[s] \in {"ok", "failed"} \/ (pc'[s] = "chroot" /\ inst'[s] = i)
    BY <1>1, <1>2 DEF Prepare, Goto, Finish, TypeOK, ControlOK
  <1>6. OneCopy'
    BY <1>1 DEF ReadyInv, OneCopy
  <1>7. Settled(s)'
    BY <1>1, <1>3, <1>5 DEF Settled, Below, KernelFs, Mounted
  <1>8. \A j \in Instances : Mounted(j)' /\ ~Busy(s, j)' => Ready(j)'
    <2>1. SUFFICES ASSUME NEW j \in Instances, Mounted(j)
                   PROVE  Ready(j)'
      BY <1>1 DEF Mounted
    <2>2. CASE j = i
      BY <1>1, <1>3, <1>4, <2>2 DEF Ready, Complete, Mounted, Top
    <2>3. CASE j # i
      <3>1. Ready(j)
        BY <1>1, <1>2, <2>1, <2>3, BusyOnly DEF Busy
      <3>2. QED
        BY <1>1, <1>4, <3>1 DEF Ready, Complete, Mounted, Top
    <2>4. QED
      BY <2>2, <2>3
  <1>9. QED
    BY <1>1, <1>6, <1>7, <1>8, ReadyFocus

\* The umount loop keeps to its scope, and takes the copy of a mount point last.
LEMMA UmountReady ==
  ASSUME NEW s \in Sessions, ReadyInv, UmountSub(s) \/ UmountRoot(s), KindInv'
  PROVE  ReadyInv'
  <1>1. Step(s) /\ TypeOK /\ OneCopy /\ Active(s) /\ inst[s] \in Instances /\ pc[s] = "umount"
    BY DEF UmountSub, UmountRoot, Step, TakeDown, ReadyInv, KindInv, TypeOK, ControlOK, Active, Ended
  <1>2. pc' = pc /\ op' = op /\ inst' = inst /\ helper' = helper
    BY DEF UmountSub, UmountRoot, files
  <1>3. Scope(s)' = Scope(s) /\ Scope(s) \subseteq Instances
    BY <1>1, <1>2 DEF Scope, UmountScope
  <1>4. ASSUME NEW t \in todo[s], t[1] \in Instances,
               todo'[s] = todo[s] \ {t}, OneCopy',
               t[2] = "root" => stack'[t[1]] = <<>>,
               \A i \in Instances : i # t[1] => stack'[i] = stack[i],
               stack'[t[1]] # <<>> => Mounted(t[1])
        PROVE  ReadyInv'
    <2>1. t[1] \in Scope(s)
      BY <1>1 DEF ReadyInv, Settled
    <2>2. \A i \in Scope(s) : Mounted(i)' => Mounted(i) /\ <<i, "root", 1>> # t
      BY <1>3, <1>4 DEF Mounted
    <2>3. Settled(s)'
      BY <1>1, <1>2, <1>3, <1>4, <2>2 DEF ReadyInv, Settled, Below, KernelFs
    <2>4. \A i \in Instances : Mounted(i)' /\ ~Busy(s, i)' => Ready(i)'
      <3>1. SUFFICES ASSUME NEW i \in Instances, i \notin Scope(s), Mounted(i)'
                     PROVE  Ready(i)'
        BY <1>1, <1>2, <1>3 DEF Busy
      <3>2. stack'[i] = stack[i]
        BY <1>4, <2>1, <3>1
      <3>3. Ready(i)
        BY <1>1, <3>1, <3>2, BusyOnly DEF Busy, Below, KernelFs, Mounted
      <3>4. QED
        BY <1>2, <3>2, <3>3 DEF Ready, Complete, Mounted, Top
    <2>5. QED
      BY <1>1, <1>4, <2>3, <2>4, ReadyFocus
  <1>5. CASE UmountSub(s)
    <2>1. PICK t \in todo[s] :
            /\ t[2] # "root" /\ todo' = [todo EXCEPT ![s] = @ \ {t}]
            /\ IF Mounted(t[1]) /\ t[2] \in Top(t[1]).kfs
                 THEN SetTop(t[1], Top(t[1]).kfs \ Subtree(t[2])) ELSE UNCHANGED stack
      BY <1>5 DEF UmountSub, Deepest
    <2>2. t[1] \in Instances /\ todo'[s] = todo[s] \ {t}
      BY <1>1, <2>1 DEF TypeOK, ScratchOK
    <2>3. CASE stack' = stack
      BY <1>1, <1>4, <2>1, <2>2, <2>3 DEF OneCopy, Mounted
    <2>4. CASE Mounted(t[1]) /\ SetTop(t[1], Top(t[1]).kfs \ Subtree(t[2]))
      <3>1. /\ Mounted(t[1])' /\ Len(stack'[t[1]]) = 1
            /\ \A j \in Instances : j # t[1] => stack'[j] = stack[j]
        BY <1>1, <2>2, <2>4, SetTopTo
      <3>2. OneCopy'
        BY <1>1, <3>1 DEF OneCopy
      <3>3. QED
        BY <1>4, <2>1, <2>2, <2>4, <3>1, <3>2
    <2>5. QED
      BY <2>1, <2>3, <2>4
  <1>6. CASE UmountRoot(s)
    <2>1. PICK t \in todo[s] :
            /\ t[2] = "root" /\ todo' = [todo EXCEPT ![s] = @ \ {t}]
            /\ IF Mounted(t[1]) THEN stack' = [stack EXCEPT ![t[1]] = Tail(@)] ELSE UNCHANGED stack
      BY <1>6 DEF UmountRoot, Deepest
    <2>2. t[1] \in Instances /\ todo'[s] = todo[s] \ {t}
      BY <1>1, <2>1 DEF TypeOK, ScratchOK
    <2>3. stack'[t[1]] = <<>> /\ \A i \in Instances : i # t[1] => stack'[i] = stack[i]
      <3>1. CASE ~Mounted(t[1])
        BY <2>1, <3>1 DEF Mounted
      <3>2. CASE Mounted(t[1])
        <4>1. stack[t[1]] \in Seq(Layer) /\ stack[t[1]] # <<>> /\ Len(stack[t[1]]) = 1
          BY <1>1, <2>2, <3>2 DEF TypeOK, KernelOK, OneCopy, Mounted
        <4>2. Tail(stack[t[1]]) \in Seq(Layer) /\ Len(Tail(stack[t[1]])) = 0
          BY <4>1
        <4>3. Tail(stack[t[1]]) = <<>>
          BY <4>2, EmptySeq
        <4>4. QED
          BY <1>1, <2>1, <2>2, <3>2, <4>3 DEF TypeOK, KernelOK
      <3>3. QED
        BY <3>1, <3>2
    <2>4. OneCopy'
      BY <1>1, <2>3 DEF OneCopy
    <2>5. QED
      BY <1>4, <2>1, <2>2, <2>3, <2>4
  <1>7. QED
    BY <1>5, <1>6

\* What is deleted is not mounted.
LEMMA DeleteReady ==
  ASSUME NEW s \in Sessions, ReadyInv, Delete(s), KindInv'
  PROVE  ReadyInv'
  <1>1. Step(s) /\ TypeOK /\ Active(s) /\ Kind(s) /\ pc[s] = "delete" /\ stack' = stack
    BY DEF Delete, device, Step, TakeDown, ReadyInv, KindInv, Active, Ended
  <1>2. op[s] \in {"remove", "purge"} /\ DeleteScope(op[s], inst[s]) \subseteq Scope(s)
    BY <1>1 DEF Kind, DeleteScope, Scope, UmountScope, TypeOK, ControlOK
  <1>3. pc'[s] = "ok"
    BY <1>1 DEF Delete, Finish, TypeOK, ControlOK
  <1>4. OneCopy' /\ Settled(s)'
    BY <1>1, <1>3 DEF ReadyInv, OneCopy, Settled, Below, KernelFs
  <1>5. \A i \in Instances : Mounted(i)' /\ ~Busy(s, i)' => Ready(i)'
    <2>1. SUFFICES ASSUME NEW i \in Instances, Mounted(i)
                   PROVE  Ready(i)'
      BY <1>1 DEF Mounted
    <2>2. Ready(i)
      BY <1>1, <2>1, BusyOnly DEF Busy, Below, KernelFs
    <2>3. i \notin DeleteScope(op[s], inst[s])
      BY <1>1, <1>2, <2>1 DEF ReadyInv, Settled
    <2>4. QED
      BY <1>1, <2>2, <2>3 DEF Delete, Ready, Complete, Mounted, Top
  <1>6. QED
    BY <1>1, <1>4, <1>5, ReadyFocus

LEMMA StepReady ==
  ASSUME Orderly, NEW s \in Sessions, ReadyInv, Step(s), KindInv'
  PROVE  ReadyInv'
  <1>1. CASE Mount(s)
    BY <1>1, MountReady
  <1>2. CASE MountKernelFs(s) \/ Bind(s)
    BY <1>2, BelowReady
  <1>3. CASE Prepare(s)
    BY <1>3, PrepareReady
  <1>4. CASE UmountSub(s) \/ UmountRoot(s)
    BY <1>4, UmountReady
  <1>5. CASE Delete(s)
    BY <1>5, DeleteReady
  <1>6. CASE ~(\/ Mount(s) \/ MountKernelFs(s) \/ Bind(s) \/ Prepare(s) \/ UmountSub(s)
               \/ UmountRoot(s) \/ Delete(s))
    <2>1. stack' = stack /\ helper' = helper /\ pc[s] \notin Below
      BY <1>6 DEF Step, IsUp, Up, NeedImage, CreateImage, Format, CheckMounted, Attach, AttachFails,
         MountFails, Chroot, ChrootFails, TakeDown, NothingThere, ListPids, Kill, Snapshot,
         Unmounted, Detach, Resize, CheckOffline, Grow, Fsck, GrowFs, files, device, Below, KernelFs
    <2>2. QED
      BY <1>6, <2>1, CalmReady
  <1>7. QED
    BY <1>1, <1>2, <1>3, <1>4, <1>5, <1>6

LEMMA ReadyNext ==
  ASSUME Orderly
  PROVE  ReadyInv /\ [Next]_vars => ReadyInv'
  <1> SUFFICES ASSUME ReadyInv, [Next]_vars PROVE ReadyInv'
    OBVIOUS
  <1>1. TypeOK /\ TypeOK' /\ KindInv'
    BY KindNext DEF ReadyInv, KindInv
  <1>2. ASSUME stack' = stack, helper' = helper, pc' = pc, op' = op, inst' = inst, todo' = todo
        PROVE  ReadyInv'
    BY <1>1, <1>2 DEF ReadyInv, OneActive, OneCopy, Settled, Active, Busy, Scope, Way, Ready, Complete,
       Mounted, Top
  <1>3. ASSUME NEW s \in Sessions, Step(s)
        PROVE  ReadyInv'
    BY <1>1, <1>3, StepReady
  <1>4. ASSUME NEW s \in Sessions, NEW o \in Ops, NEW i \in Instances, Start(s, o, i)
        PROVE  ReadyInv'
    <2>1. stack' = stack /\ helper' = helper
      BY <1>4 DEF Start, files, device
    <2>2. \A t \in Sessions : pc[t] \in Ended /\ (t # s => pc'[t] = pc[t])
      BY <1>1, <1>4 DEF Start, Orderly, Active, TypeOK, ControlOK
    <2>3. pc'[s] \in {"image", "isup", "list"}
      BY <1>1, <1>4, ConstantsAssumption DEF Start, FirstStep, AllOps, TypeOK, ControlOK
    <2>4. OneActive'
      BY <2>2 DEF OneActive, Active
    <2>5. OneCopy' /\ \A t \in Sessions : Settled(t)'
      BY <2>1, <2>2, <2>3 DEF ReadyInv, OneCopy, Settled, Below, KernelFs, Ended
    <2>6. \A j \in Instances : Mounted(j)' => Ready(j)'
      <3>1. \A j \in Instances, t \in Sessions : ~Busy(t, j)
        BY <2>2 DEF Busy, Below, KernelFs, Ended
      <3>2. QED
        BY <2>1, <3>1 DEF ReadyInv, Ready, Complete, Mounted, Top
    <2>7. QED
      BY <1>1, <2>4, <2>5, <2>6 DEF ReadyInv
  <1>5. CASE (\E p, q \in Procs : Fork(p, q)) \/ (\E p \in Procs : Exit(p)) \/ UNCHANGED vars
    BY <1>2, <1>5 DEF Fork, Exit, vars, files, device, scratch
  <1>6. CASE Reboot
    <2>1. /\ \A i \in Instances : stack'[i] = <<>>
          /\ \A t \in Sessions : pc'[t] \in Ended
      BY <1>1, <1>6 DEF Reboot, TypeOK, ControlOK, Active, Ended
    <2>2. QED
      BY <1>1, <2>1 DEF ReadyInv, OneActive, OneCopy, Settled, Active, Below, KernelFs, Ended, Mounted
  <1>7. \A s \in Sessions : ~Cut(s)
    BY DEF Cut, Orderly
  <1>8. QED
    BY <1>3, <1>4, <1>5, <1>6, <1>7 DEF Next

LEMMA ReadyInit == Init => ReadyInv
  <1> SUFFICES ASSUME Init PROVE ReadyInv
    OBVIOUS
  <1>1. /\ \A i \in Instances : stack[i] = <<>>
        /\ \A s \in Sessions : pc[s] = "idle"
    BY DEF Init
  <1>2. QED
    BY <1>1, KindInit DEF ReadyInv, OneActive, OneCopy, Settled, Active, Below, KernelFs, Ended, Mounted

LEMMA ReadyThroughout ==
  ASSUME Orderly
  PROVE  Spec => []ReadyInv
  <1>1. Init => ReadyInv
    BY ReadyInit
  <1>2. ReadyInv /\ [Next]_vars => ReadyInv'
    BY ReadyNext
  <1>3. QED
    BY <1>1, <1>2, PTL DEF Spec

\* The last step of a command that succeeds.
LEMMA Ending ==
  ASSUME NEW s \in Sessions, TypeOK, Next, pc[s] # "ok", pc'[s] = "ok"
  PROVE  Step(s)
  <1>1. \A t \in Sessions, o \in Ops, i \in Instances : ~Start(t, o, i)
    <2>1. \A o \in Ops : FirstStep[o] # "ok"
      BY ConstantsAssumption DEF FirstStep, AllOps
    <2>2. QED
      BY <2>1 DEF Start, TypeOK, ControlOK
  <1>2. \A t \in Sessions : ~Cut(t)
    BY DEF Cut, Goto, Finish, TypeOK, ControlOK
  <1>3. ~Reboot /\ ~(\E p, q \in Procs : Fork(p, q)) /\ ~(\E p \in Procs : Exit(p))
    BY DEF Reboot, Fork, Exit, Active
  <1>4. QED
    BY <1>1, <1>2, <1>3, StepOn DEF Next

\* up ends with Prepare and enter with Chroot, in a rootfs that is complete.
LEMMA EndsComplete ==
  ASSUME NEW s \in Sessions, ReadyInv, Step(s), pc'[s] = "ok", op[s] \in {"up", "enter"},
         "install" \notin Ops
  PROVE  Complete(inst[s])
  <1>1. TypeOK /\ Kind(s) /\ Settled(s) /\ Active(s) /\ inst[s] \in Instances /\ pc[s] \notin Ended
    BY StepOn DEF ReadyInv, KindInv, TypeOK, ControlOK, Active
  <1>2. ASSUME NEW l, Goto(s, l) PROVE pc'[s] = l
    BY <1>1, <1>2 DEF Goto, TypeOK, ControlOK
  <1>3. ASSUME Finish(s, "failed") PROVE FALSE
    BY <1>1, <1>3 DEF Finish, TypeOK, ControlOK
  <1>4. pc[s] \in {"prep", "chroot"}
    <2>1. pc[s] \in UpSteps \cup {"isup", "chroot"}
      BY <1>1 DEF Kind
    <2>2. ~TakeDown(s) /\ ~Resize(s)
      BY <2>1 DEF TakeDown, NothingThere, ListPids, Kill, Snapshot, UmountSub, UmountRoot,
         Unmounted, Detach, Delete, Resize, CheckOffline, Grow, Fsck, GrowFs, UpSteps, Below, KernelFs
    <2>3. ~IsUp(s) /\ ~NeedImage(s) /\ ~Attach(s) /\ ~AttachFails(s) /\ ~MountFails(s)
      BY <1>2, <1>3 DEF IsUp, NeedImage, Attach, AttachFails, MountFails
    <2>4. ~CreateImage(s) /\ ~Format(s) /\ ~CheckMounted(s) /\ ~Mount(s)
      BY <1>2, <1>3 DEF CreateImage, Format, CheckMounted, Mount
    <2>5. ~MountKernelFs(s) /\ ~Bind(s)
      BY <1>2, <1>3 DEF MountKernelFs, Bind, NextMount
    <2>6. QED
      BY <2>2, <2>3, <2>4, <2>5 DEF Step, Up, Prepare, Chroot, ChrootFails
  <1>5. CASE pc[s] = "prep"
    BY <1>1, <1>5 DEF Settled, Below, Way, Before, Required, Complete
  <1>6. CASE pc[s] = "chroot"
    BY <1>1, <1>6, BusyOnly DEF Settled, Busy, Below, KernelFs, Ready
  <1>7. QED
    BY <1>4, <1>5, <1>6

\* An up that reports success has given the rootfs every kernel interface a distro
\* expects, whatever it found in place, for any number of instances, with resizes,
\* removals, reboots and processes that do not die at once (up.sh:76-110).
THEOREM UpCompletes ==
  ASSUME Orderly
  PROVE  Spec => UpComplete
  <1>1. ReadyInv /\ [Next]_vars =>
          [\A s \in Sessions : Succeeds(s, "up") => Complete(inst[s])]_vars
    BY Ending, EndsComplete DEF Succeeds, ReadyInv, KindInv, Orderly
  <1>2. QED
    BY <1>1, ReadyThroughout, PTL DEF Spec, UpComplete

\* A process is put into a rootfs only when it is complete, also on the short way past
\* up that is taken when the mount point is in use (container.py:189).
THEOREM EntersComplete ==
  ASSUME Orderly
  PROVE  Spec => EnterComplete
  <1>1. ReadyInv /\ [Next]_vars =>
          [\A s \in Sessions : Succeeds(s, "enter") => Complete(inst[s])]_vars
    BY Ending, EndsComplete DEF Succeeds, ReadyInv, KindInv, Orderly
  <1>2. QED
    BY <1>1, ReadyThroughout, PTL DEF Spec, EnterComplete

-----------------------------------------------------------------------------
(* What an undisturbed down leaves behind.                                 *)

\* What down still has to unmount of the copies themselves.
Roots(s) == {t \in todo[s] : t[1] = inst[s] /\ t[2] = "root"}

\* It is as many copies as there are, whichever they have become.
Clearing(s) ==
  s \in alone /\ Active(s) /\ op[s] = "down" =>
    /\ pc[s] = "umount" => IsFiniteSet(Roots(s)) /\ Cardinality(Roots(s)) = Len(stack[inst[s]])
    /\ pc[s] = "detach" => stack[inst[s]] = <<>>

DownInv ==
  /\ KindInv
  /\ \A s \in alone, t \in Sessions : Active(t) => t = s
  /\ \A s \in Sessions : Clearing(s)

\* The awk line lists a mount point as often as it is mounted on.
LEMMA ListedOften ==
  ASSUME NEW i, NEW n \in Nat
  PROVE  /\ IsFiniteSet({<<i, "root", m>> : m \in 1..n})
         /\ Cardinality({<<i, "root", m>> : m \in 1..n}) = n
  <1> DEFINE listed == {<<i, "root", m>> : m \in 1..n}
             f == [m \in 1..n |-> <<i, "root", m>>]
  <1>1. f \in Bijection(1..n, listed)
    <2>1. f \in [1..n -> listed]
      OBVIOUS
    <2>2. \A a, b \in 1..n : f[a] = f[b] => a = b
      OBVIOUS
    <2>3. \A t \in listed : \E m \in 1..n : f[m] = t
      OBVIOUS
    <2>4. QED
      BY <2>1, <2>2, <2>3 DEF Bijection, Injection, Surjection, IsInjective
  <1>2. IsFiniteSet(1..n) /\ Cardinality(1..n) = n
    BY FS_Interval
  <1>3. ExistsBijection(1..n, listed)
    BY <1>1 DEF ExistsBijection
  <1>4. QED
    BY <1>2, <1>3, FS_Bijection

\* A session comes to detach from its umount loop only.
LEMMA Detaching ==
  ASSUME NEW s \in Sessions, TypeOK, Step(s), pc'[s] = "detach"
  PROVE  Unmounted(s)
  <1>1. ASSUME NEW l, Goto(s, l) PROVE pc'[s] = l
    BY <1>1 DEF Goto, TypeOK, ControlOK
  <1>2. ASSUME NEW v, Finish(s, v) PROVE pc'[s] = v
    BY <1>2 DEF Finish, TypeOK, ControlOK
  <1>3. ~IsUp(s) /\ ~Resize(s) /\ ~Chroot(s) /\ ~ChrootFails(s)
    BY <1>1, <1>2 DEF IsUp, Resize, CheckOffline, Grow, Fsck, GrowFs, Chroot, ChrootFails
  <1>4. ~Up(s)
    <2>1. ~MountKernelFs(s) /\ ~Bind(s)
      BY <1>1, <1>2 DEF MountKernelFs, Bind, NextMount
    <2>2. QED
      BY <1>1, <1>2, <2>1 DEF Up, NeedImage, CreateImage, Format, CheckMounted, Attach,
         AttachFails, Mount, MountFails, Prepare
  <1>5. ~NothingThere(s) /\ ~ListPids(s) /\ ~Kill(s) /\ ~Snapshot(s) /\ ~Detach(s) /\ ~Delete(s)
    BY <1>1, <1>2 DEF NothingThere, ListPids, Kill, Snapshot, Detach, Delete
  <1>6. ~UmountSub(s) /\ ~UmountRoot(s)
    BY DEF UmountSub, UmountRoot
  <1>7. QED
    BY <1>3, <1>4, <1>5, <1>6 DEF Step, TakeDown

\* The steps of an undisturbed down.
LEMMA ClearingStep ==
  ASSUME NEW s \in Sessions, DownInv, Step(s), s \in alone, op[s] = "down", Active(s)'
  PROVE  Clearing(s)'
  <1>1. TypeOK /\ Active(s) /\ Clearing(s) /\ op'[s] = op[s] /\ inst'[s] = inst[s]
    BY StepOn DEF DownInv, KindInv, Active
  <1>2. PICK i \in Instances : i = inst[s]
    BY <1>1 DEF TypeOK, ControlOK
  <1>3. stack[i] \in Seq(Layer) /\ Len(stack[i]) \in Nat
    BY <1>1 DEF TypeOK, KernelOK
  <1>4. CASE Snapshot(s)
    <2>1. todo'[s] = {t \in {i} \X KernelFs \X {0} : Listed(t[1], t[2])}
                       \cup UNION {{<<j, "root", n>> : n \in DOMAIN stack[j]} : j \in {i}}
      BY <1>1, <1>2, <1>4 DEF Snapshot, UmountScope, TypeOK, ScratchOK
    <2>2. \A t \in {i} \X KernelFs \X {0} : t[2] # "root"
      BY DEF KernelFs
    <2>3. DOMAIN stack[i] = 1..Len(stack[i])
      BY <1>3
    <2>4. {t \in todo'[s] : t[1] = i /\ t[2] = "root"} = {<<i, "root", n>> : n \in 1..Len(stack[i])}
      BY <2>1, <2>2, <2>3
    <2>5. Roots(s)' = {<<i, "root", n>> : n \in 1..Len(stack[i])}
      BY <1>1, <1>2, <2>4 DEF Roots
    <2>6. pc'[s] = "umount" /\ stack' = stack
      BY <1>1, <1>4 DEF Snapshot, device, Goto, TypeOK, ControlOK
    <2>7. /\ IsFiniteSet({<<i, "root", n>> : n \in 1..Len(stack[i])})
          /\ Cardinality({<<i, "root", n>> : n \in 1..Len(stack[i])}) = Len(stack[i])
      BY <1>3, ListedOften
    <2>8. IsFiniteSet(Roots(s)') /\ Cardinality(Roots(s)') = Len(stack'[i])
      BY <2>5, <2>6, <2>7
    <2>9. QED
      BY <1>1, <1>2, <2>6, <2>8 DEF Clearing
  <1>5. CASE UmountSub(s)
    <2>1. PICK t \in todo[s] :
            /\ t[2] # "root" /\ todo' = [todo EXCEPT ![s] = @ \ {t}]
            /\ stack' = stack \/ (Mounted(t[1]) /\ SetTop(t[1], Top(t[1]).kfs \ Subtree(t[2])))
      BY <1>5 DEF UmountSub, Deepest
    <2>2. t[1] \in Instances /\ todo'[s] = todo[s] \ {t}
      BY <1>1, <2>1 DEF TypeOK, ScratchOK
    <2>3. Roots(s)' = Roots(s)
      BY <1>1, <2>1, <2>2 DEF Roots
    <2>4. Len(stack'[i]) = Len(stack[i])
      BY <1>1, <2>1, <2>2, SetTopLen
    <2>5. pc'[s] = "umount" /\ pc[s] = "umount"
      BY <1>5 DEF UmountSub
    <2>6. QED
      BY <1>1, <1>2, <2>3, <2>4, <2>5 DEF Clearing
  <1>6. CASE UmountRoot(s)
    <2>1. PICK t \in todo[s] :
            /\ t[2] = "root" /\ todo' = [todo EXCEPT ![s] = @ \ {t}]
            /\ IF Mounted(t[1]) THEN stack' = [stack EXCEPT ![t[1]] = Tail(@)] ELSE UNCHANGED stack
      BY <1>6 DEF UmountRoot, Deepest
    <2>2. t[1] \in Instances /\ todo'[s] = todo[s] \ {t}
      BY <1>1, <2>1 DEF TypeOK, ScratchOK
    <2>3. pc'[s] = "umount" /\ pc[s] = "umount"
      BY <1>6 DEF UmountRoot
    <2>4. IsFiniteSet(Roots(s)) /\ Cardinality(Roots(s)) = Len(stack[i])
      BY <1>1, <1>2, <2>3 DEF Clearing
    <2>5. Roots(s)' = Roots(s) \ {t}
      BY <1>1, <2>2 DEF Roots
    <2>6. CASE t[1] # i
      <3>1. t \notin Roots(s) /\ stack'[i] = stack[i]
        BY <1>1, <1>2, <2>1, <2>6 DEF Roots, TypeOK, KernelOK
      <3>2. Roots(s)' = Roots(s)
        BY <2>5, <3>1
      <3>3. QED
        BY <1>1, <1>2, <2>3, <2>4, <3>1, <3>2 DEF Clearing
    <2>7. CASE t[1] = i
      <3>1. t \in Roots(s)
        BY <1>2, <2>1, <2>7 DEF Roots
      <3>2. IsFiniteSet(Roots(s) \ {t}) /\ Cardinality(Roots(s) \ {t}) = Cardinality(Roots(s)) - 1
        BY <2>4, <3>1, FS_RemoveElement
      <3>3. Cardinality(Roots(s)) # 0
        BY <2>4, <3>1, FS_EmptySet
      <3>4. stack[i] # <<>>
        BY <2>4, <3>3, EmptySeq
      <3>5. Len(Tail(stack[i])) = Len(stack[i]) - 1
        BY <1>3, <3>4
      <3>6. stack'[i] = Tail(stack[i])
        BY <1>1, <2>1, <2>2, <2>7, <3>4 DEF Mounted, TypeOK, KernelOK
      <3>7. QED
        BY <1>1, <1>2, <2>3, <2>4, <2>5, <3>2, <3>5, <3>6 DEF Clearing
    <2>8. QED
      BY <2>6, <2>7
  <1>7. CASE Unmounted(s)
    <2>1. pc[s] = "umount" /\ todo[s] = {} /\ stack' = stack /\ pc'[s] = "detach"
      BY <1>1, <1>7 DEF Unmounted, device, Goto, TypeOK, ControlOK
    <2>2. Roots(s) = {}
      BY <2>1 DEF Roots
    <2>3. Len(stack[i]) = 0
      BY <1>1, <1>2, <2>1, <2>2, FS_EmptySet DEF Clearing
    <2>4. stack[i] = <<>>
      BY <1>3, <2>3, EmptySeq
    <2>5. QED
      BY <1>1, <1>2, <2>1, <2>4 DEF Clearing
  <1>8. CASE pc'[s] \notin {"umount", "detach"}
    BY <1>8 DEF Clearing
  <1>9. QED
    BY <1>1, <1>4, <1>5, <1>6, <1>7, <1>8, Unmounting, Detaching

LEMMA DownNext == DownInv /\ [Next]_vars => DownInv'
  <1> SUFFICES ASSUME DownInv, [Next]_vars PROVE DownInv'
    OBVIOUS
  <1>1. TypeOK /\ TypeOK' /\ KindInv'
    BY NextTyped, KindNext DEF DownInv, KindInv
  <1>2. ASSUME NEW s \in Sessions, Step(s)
        PROVE  DownInv'
    <2>1. alone' \subseteq alone
      BY <1>2 DEF Step, IsUp, Up, NeedImage, CreateImage, Format, CheckMounted, Attach, AttachFails,
         Mount, MountFails, MountKernelFs, Bind, Prepare, Chroot, ChrootFails, TakeDown, NothingThere,
         ListPids, Kill, Snapshot, UmountSub, UmountRoot, Unmounted, Detach, Delete, Resize,
         CheckOffline, Grow, Fsck, GrowFs
    <2>2. /\ Active(s)
          /\ \A t \in Sessions : t # s => pc'[t] = pc[t]
          /\ pc'[s] \in Ended \/ op'[s] = op[s]
      BY <1>1, <1>2, StepOn
    <2>3. \A r \in alone', t \in Sessions : Active(t)' => t = r
      BY <2>1, <2>2 DEF DownInv, Active
    <2>4. ASSUME NEW t \in Sessions, t \in alone', Active(t)', op'[t] = "down"
          PROVE  Clearing(t)'
      <3>1. t \in alone /\ t = s
        BY <2>1, <2>2, <2>4 DEF DownInv
      <3>2. QED
        BY <1>2, <2>2, <2>4, <3>1, ClearingStep DEF Active
    <2>5. QED
      BY <1>1, <2>3, <2>4 DEF DownInv, Clearing
  <1>3. ASSUME NEW s \in Sessions, NEW o \in Ops, NEW i \in Instances, Start(s, o, i)
        PROVE  DownInv'
    <2>1. \A t \in Sessions : t # s => pc'[t] = pc[t]
      BY <1>1, <1>3 DEF Start, TypeOK, ControlOK
    <2>2. pc'[s] \notin {"umount", "detach"}
      BY <1>1, <1>3, ConstantsAssumption DEF Start, FirstStep, AllOps, TypeOK, ControlOK
    <2>3. alone' = IF \E t \in Sessions : Active(t) THEN {} ELSE {s}
      BY <1>3 DEF Start
    <2>4. \A r \in alone', t \in Sessions : Active(t)' => t = r
      BY <2>1, <2>3 DEF Active
    <2>5. \A t \in Sessions : Clearing(t)'
      BY <2>2, <2>3 DEF Clearing
    <2>6. QED
      BY <1>1, <2>4, <2>5 DEF DownInv
  <1>4. ASSUME NEW s \in Sessions, Cut(s)
        PROVE  DownInv'
    <2>1. alone' = alone /\ Active(s)
      BY <1>4 DEF Cut
    <2>2. \A t \in Sessions : t # s => pc'[t] = pc[t]
      BY <1>1, <1>4 DEF Cut, Goto, Finish, TypeOK, ControlOK
    <2>3. pc'[s] \in {"check", "failed"}
      BY <1>1, <1>4 DEF Cut, Goto, Finish, TypeOK, ControlOK
    <2>4. \A r \in alone', t \in Sessions : Active(t)' => t = r
      BY <2>1, <2>2 DEF DownInv, Active
    <2>5. \A t \in Sessions : Clearing(t)'
      <3>1. SUFFICES ASSUME NEW t \in Sessions, t \in alone, t # s, Active(t)'
                     PROVE  FALSE
        BY <2>1, <2>3 DEF Clearing
      <3>2. QED
        BY <2>1, <3>1 DEF DownInv
    <2>6. QED
      BY <1>1, <2>4, <2>5 DEF DownInv
  <1>5. ASSUME alone' \in {alone, {}}, UNCHANGED <<pc, op, inst, todo, stack>>
        PROVE  DownInv'
    BY <1>1, <1>5 DEF DownInv, Clearing, Roots, Active
  <1>6. CASE (\E p, q \in Procs : Fork(p, q)) \/ (\E p \in Procs : Exit(p)) \/ UNCHANGED vars
    BY <1>5, <1>6 DEF Fork, Exit, vars, device, scratch
  <1>7. CASE Reboot
    BY <1>1, <1>7 DEF Reboot, DownInv, Clearing
  <1>8. QED
    BY <1>2, <1>3, <1>4, <1>6, <1>7 DEF Next

LEMMA DownThroughout == Spec => []DownInv
  <1>1. Init => DownInv
    BY KindInit DEF Init, DownInv, Clearing
  <1>2. DownInv /\ [Next]_vars => DownInv'
    BY DownNext
  <1>3. QED
    BY <1>1, <1>2, PTL DEF Spec

\* The device a session is about to mount is attached to its image, and unused.
Free(s) == backing[dev[s]] = inst[s] /\ dev[s] \notin MountedLoops /\ Holders(dev[s]) = {}

\* The device of each copy is attached to the image of the instance it is mounted for.
OwnInv ==
  /\ TypeOK
  /\ OneActive
  /\ \A s \in Sessions : pc[s] = "mount" => Free(s)
  /\ \A i \in Instances : \A l \in LoopsAt(i) : backing[l] = i
  /\ \A p \in Procs : root[p] # None => backing[root[p]] # None

\* The devices of the copies are loop devices.
LEMMA LoopsOf ==
  ASSUME TypeOK, NEW i \in Instances, NEW l \in LoopsAt(i)
  PROVE  l \in Loops
  <1>1. stack[i] \in Seq(Layer)
    BY DEF TypeOK, KernelOK
  <1>2. PICK n \in DOMAIN stack[i] : l = stack[i][n].loop
    BY DEF LoopsAt
  <1>3. stack[i][n] \in Layer
    BY <1>1, <1>2
  <1>4. QED
    BY <1>2, <1>3 DEF Layer

\* What is mounted after a step was mounted before it, but for the copy Mount adds.
LEMMA LoopsKeep ==
  ASSUME NEW s \in Sessions, TypeOK, Step(s), NEW i \in Instances, NEW l \in LoopsAt(i)'
  PROVE  l \in LoopsAt(i) \/ (Mount(s) /\ i = inst[s] /\ l = dev[s])
  <1>1. l \in LoopsAt(i) \/ stack' # stack
    BY DEF LoopsAt
  <1>2. stack[i] \in Seq(Layer)
    BY DEF TypeOK, KernelOK
  <1>3. ASSUME NEW j \in Instances, NEW kfs, Mounted(j), SetTop(j, kfs)
        PROVE  l \in LoopsAt(i)
    <2>1. stack[j] \in Seq(Layer) /\ stack[j] # <<>>
      BY <1>3 DEF TypeOK, KernelOK, Mounted
    <2> DEFINE layer == [loop |-> Top(j).loop, kfs |-> kfs]
               new == <<layer>> \o Tail(stack[j])
    <2>2. Len(new) = Len(stack[j]) /\ Len(stack[j]) \in Nat
      BY <2>1
    <2>3. new[1] = layer /\ Top(j) = stack[j][1]
      BY <2>1 DEF Top
    <2>4. \A n \in 2..Len(stack[j]) : new[n] = stack[j][n]
      BY <2>1
    <2>5. DOMAIN new = 1..Len(stack[j]) /\ DOMAIN stack[j] = 1..Len(stack[j])
      BY <2>1, <2>2
    <2>6. \A n \in DOMAIN new : n \in DOMAIN stack[j] /\ new[n].loop = stack[j][n].loop
      BY <2>2, <2>3, <2>4, <2>5
    <2>7. stack'[j] = new /\ (i # j => stack'[i] = stack[i])
      BY <1>3 DEF SetTop, TypeOK, KernelOK
    <2>8. QED
      BY <2>6, <2>7 DEF LoopsAt
  <1>4. CASE Mount(s)
    <2>1. inst[s] \in Instances /\ stack[inst[s]] \in Seq(Layer)
      BY <1>4 DEF Mount, TypeOK, ControlOK, KernelOK, Active, Ended
    <2> DEFINE layer == [loop |-> dev[s], kfs |-> {}]
               new == <<layer>> \o stack[inst[s]]
    <2>2. stack'[inst[s]] = new /\ (i # inst[s] => stack'[i] = stack[i])
      BY <1>4, <2>1 DEF Mount, TypeOK, KernelOK
    <2>3. CASE i # inst[s]
      BY <2>2, <2>3 DEF LoopsAt
    <2>4. CASE i = inst[s]
      <3>1. PICK n \in DOMAIN new : l = new[n].loop
        BY <2>2, <2>4 DEF LoopsAt
      <3>2. new = <<layer>> \o stack[i] /\ stack[i] \in Seq(Layer)
        BY <1>2, <2>4
      <3>3. n \in 1..(Len(stack[i]) + 1) /\ Len(stack[i]) \in Nat
        BY <3>1, <3>2
      <3>4. CASE n = 1
        BY <1>4, <2>4, <3>1, <3>2, <3>4
      <3>5. CASE n # 1
        <4>1. n - 1 \in DOMAIN stack[i] /\ new[n] = stack[i][n - 1]
          BY <3>2, <3>3, <3>5
        <4>2. QED
          BY <3>1, <4>1 DEF LoopsAt
      <3>6. QED
        BY <3>4, <3>5
    <2>5. QED
      BY <2>3, <2>4
  <1>5. CASE MountKernelFs(s) \/ Bind(s)
    <2>1. inst[s] \in Instances
      BY <1>5 DEF MountKernelFs, Bind, TypeOK, ControlOK, Active, Ended
    <2>2. stack' = stack \/ (Mounted(inst[s]) /\ SetTop(inst[s], Top(inst[s]).kfs \cup {pc[s]}))
      BY <1>5 DEF MountKernelFs, Bind
    <2>3. QED
      BY <1>1, <1>3, <2>1, <2>2
  <1>6. CASE UmountSub(s)
    <2>1. PICK t \in todo[s] :
            stack' = stack \/ (Mounted(t[1]) /\ SetTop(t[1], Top(t[1]).kfs \ Subtree(t[2])))
      BY <1>6 DEF UmountSub, Deepest
    <2>2. t[1] \in Instances
      BY <2>1 DEF TypeOK, ScratchOK
    <2>3. QED
      BY <1>1, <1>3, <2>1, <2>2
  <1>7. CASE UmountRoot(s)
    <2>1. PICK t \in todo[s] :
            IF Mounted(t[1]) THEN stack' = [stack EXCEPT ![t[1]] = Tail(@)] ELSE stack' = stack
      BY <1>7 DEF UmountRoot, Deepest
    <2>2. CASE ~Mounted(t[1]) \/ t[1] # i
      BY <2>1, <2>2 DEF LoopsAt, TypeOK, KernelOK
    <2>3. CASE Mounted(t[1]) /\ t[1] = i
      <3>1. stack'[i] = Tail(stack[i]) /\ stack[i] # <<>>
        BY <2>1, <2>3 DEF Mounted, TypeOK, KernelOK
      <3>2. \A n \in DOMAIN Tail(stack[i]) : n + 1 \in DOMAIN stack[i] /\ Tail(stack[i])[n] = stack[i][n + 1]
        BY <1>2, <3>1
      <3>3. QED
        BY <3>1, <3>2 DEF LoopsAt
    <2>4. QED
      BY <2>2, <2>3
  <1>8. QED
    BY <1>1, <1>4, <1>5, <1>6, <1>7 DEF Step, IsUp, Up, NeedImage, CreateImage, Format, CheckMounted,
       Attach, AttachFails, MountFails, Prepare, Chroot, ChrootFails, TakeDown, NothingThere, ListPids,
       Kill, Snapshot, Unmounted, Detach, Delete, Resize, CheckOffline, Grow, Fsck, GrowFs, device

\* One step of the session being carried out.
LEMMA OwnFocus ==
  ASSUME NEW s \in Sessions, OwnInv, Active(s), TypeOK',
         \A t \in Sessions : t # s => pc'[t] = pc[t],
         pc'[s] = "mount" => Free(s)',
         \A i \in Instances : \A l \in LoopsAt(i)' : backing'[l] = i,
         \A p \in Procs : root'[p] # None => backing'[root'[p]] # None
  PROVE  OwnInv'
  <1>1. \A t \in Sessions : t # s => pc'[t] \in Ended
    BY DEF OwnInv, OneActive, Active
  <1>2. OneActive'
    BY <1>1 DEF OneActive, Active
  <1>3. \A t \in Sessions : pc'[t] = "mount" => t = s
    BY <1>1 DEF Ended
  <1>4. QED
    BY <1>2, <1>3 DEF OwnInv

\* No step but Attach leads to mount.
LEMMA Attached ==
  ASSUME NEW s \in Sessions, TypeOK, Step(s), ~Attach(s)
  PROVE  pc'[s] # "mount"
  <1>1. ASSUME NEW l, Goto(s, l) PROVE pc'[s] = l
    BY <1>1 DEF Goto, TypeOK, ControlOK
  <1>2. ASSUME NEW v, Finish(s, v) PROVE pc'[s] = v
    BY <1>2 DEF Finish, TypeOK, ControlOK
  <1>3. IsUp(s) \/ Resize(s) \/ Chroot(s) \/ ChrootFails(s) => pc'[s] # "mount"
    BY <1>1, <1>2 DEF IsUp, Resize, CheckOffline, Grow, Fsck, GrowFs, Chroot, ChrootFails
  <1>4. Up(s) => pc'[s] # "mount"
    <2>1. MountKernelFs(s) \/ Bind(s) => pc'[s] # "mount"
      BY <1>1, <1>2 DEF MountKernelFs, Bind, NextMount
    <2>2. QED
      BY <1>1, <1>2, <2>1 DEF Up, NeedImage, CreateImage, Format, CheckMounted,
         AttachFails, Mount, MountFails, Prepare
  <1>5. NothingThere(s) \/ ListPids(s) \/ Kill(s) \/ Snapshot(s) \/ Unmounted(s) \/ Detach(s) \/ Delete(s)
          => pc'[s] # "mount"
    BY <1>1, <1>2 DEF NothingThere, ListPids, Kill, Snapshot, Unmounted, Detach, Delete
  <1>6. UmountSub(s) \/ UmountRoot(s) => pc'[s] # "mount"
    BY DEF UmountSub, UmountRoot
  <1>7. QED
    BY <1>3, <1>4, <1>5, <1>6 DEF Step, TakeDown

\* Where processes come from: a process is rooted in a copy that is mounted.
LEMMA RootsKeep ==
  ASSUME NEW s \in Sessions, TypeOK, Step(s), NEW p \in Procs, root'[p] # None
  PROVE  root'[p] = root[p] \/ root'[p] \in LoopsAt(inst[s])
  <1>1. root \in [Procs -> Loops \cup {None}]
    BY DEF TypeOK, KernelOK
  <1>2. CASE Prepare(s) \/ Chroot(s)
    <2>1. inst[s] \in Instances /\ stack[inst[s]] \in Seq(Layer)
      BY <1>2 DEF Prepare, Chroot, TypeOK, ControlOK, KernelOK, Active, Ended
    <2>2. root' = root \/ (Mounted(inst[s]) /\ Rooted(inst[s]))
      BY <1>2 DEF Prepare, Chroot
    <2>3. Mounted(inst[s]) => Top(inst[s]).loop \in LoopsAt(inst[s])
      <3>1. Mounted(inst[s]) => 1 \in DOMAIN stack[inst[s]] /\ Top(inst[s]) = stack[inst[s]][1]
        BY <2>1 DEF Mounted, Top
      <3>2. QED
        BY <3>1 DEF LoopsAt
    <2>4. QED
      BY <1>1, <2>2, <2>3 DEF Rooted
  <1>3. CASE Kill(s)
    BY <1>1, <1>3 DEF Kill
  <1>4. CASE root' = root
    BY <1>4
  <1>5. QED
    BY <1>2, <1>3, <1>4 DEF Step, IsUp, Up, NeedImage, CreateImage, Format, CheckMounted,
       Attach, AttachFails, Mount, MountFails, MountKernelFs, Bind, ChrootFails, TakeDown, NothingThere,
       ListPids, Snapshot, UmountSub, UmountRoot, Unmounted, Detach, Delete, Resize, CheckOffline,
       Grow, Fsck, GrowFs, device

LEMMA OwnStep ==
  ASSUME NEW s \in Sessions, OwnInv, Step(s), TypeOK'
  PROVE  OwnInv'
  <1>1. TypeOK /\ Active(s) /\ \A t \in Sessions : t # s => pc'[t] = pc[t]
    BY StepOn DEF OwnInv
  <1>2. PICK i \in Instances : i = inst[s]
    BY <1>1 DEF TypeOK, ControlOK
  <1>3. /\ \A j \in Instances : \A l \in LoopsAt(j) : l \in Loops
        /\ \A p \in Procs : root[p] \in Loops \cup {None}
        /\ backing \in [Loops -> Instances \cup {None}]
        /\ None \notin Loops /\ None \notin Instances
    BY <1>1, LoopsOf, ConstantsAssumption DEF TypeOK, KernelOK
  <1>4. CASE Attach(s)
    <2>1. PICK l \in Loops : /\ backing[l] = None
                             /\ backing' = [backing EXCEPT ![l] = inst[s]]
                             /\ dev' = [dev EXCEPT ![s] = l]
      BY <1>4 DEF Attach
    <2>2. stack' = stack /\ root' = root /\ inst' = inst
      BY <1>4 DEF Attach, Goto
    <2>3. l \notin MountedLoops
      BY <1>3, <2>1 DEF OwnInv, MountedLoops
    <2>4. Holders(l) = {}
      BY <1>3, <2>1 DEF OwnInv, Holders
    <2>5. backing'[l] = inst[s] /\ dev'[s] = l /\ \A m \in Loops : m # l => backing'[m] = backing[m]
      BY <1>1, <1>3, <2>1 DEF TypeOK, ScratchOK
    <2>6. LoopsAt(i)' = LoopsAt(i) /\ MountedLoops' = MountedLoops /\ Holders(l)' = Holders(l)
      BY <2>2 DEF LoopsAt, MountedLoops, Holders
    <2>7. \A j \in Instances : \A m \in LoopsAt(j)' : backing'[m] = j
      BY <1>3, <2>2, <2>3, <2>5 DEF OwnInv, LoopsAt, MountedLoops
    <2>8. \A p \in Procs : root'[p] # None => backing'[root'[p]] # None
      BY <1>3, <2>2, <2>4, <2>5 DEF OwnInv, Holders
    <2>9. Free(s)'
      BY <2>2, <2>3, <2>4, <2>5, <2>6 DEF Free, Holders
    <2>10. QED
      BY <1>1, <2>7, <2>8, <2>9, OwnFocus
  <1>5. CASE ~Attach(s) /\ ~UmountRoot(s) /\ ~Detach(s)
    <2>1. backing' = backing
      BY <1>5 DEF Step, IsUp, Up, NeedImage, CreateImage, Format, CheckMounted,
         AttachFails, Mount, MountFails, MountKernelFs, Bind, Prepare, Chroot, ChrootFails, TakeDown,
         NothingThere, ListPids, Kill, Snapshot, UmountSub, Unmounted, Delete, Resize, CheckOffline,
         Grow, Fsck, GrowFs, device
    <2>2. pc'[s] # "mount"
      BY <1>1, <1>5, Attached
    <2>3. ASSUME NEW j \in Instances, NEW l \in LoopsAt(j)' PROVE backing'[l] = j
      <3>1. l \in LoopsAt(j) \/ (Mount(s) /\ j = inst[s] /\ l = dev[s])
        BY <1>1, LoopsKeep
      <3>2. Mount(s) => pc[s] = "mount"
        BY DEF Mount
      <3>3. QED
        BY <2>1, <3>1, <3>2 DEF OwnInv, Free
    <2>4. ASSUME NEW p \in Procs, root'[p] # None PROVE backing'[root'[p]] # None
      <3>1. root'[p] = root[p] \/ root'[p] \in LoopsAt(i)
        BY <1>1, <1>2, <2>4, RootsKeep
      <3>2. QED
        BY <1>3, <2>1, <2>4, <3>1 DEF OwnInv
    <2>5. QED
      BY <1>1, <2>2, <2>3, <2>4, OwnFocus
  <1>6. CASE UmountRoot(s) \/ Detach(s)
    <2>1. root' = root
      BY <1>6 DEF UmountRoot, Detach
    <2>2. ASSUME NEW l \in Loops, l \in MountedLoops' \/ Holders(l) # {}
          PROVE  backing'[l] = backing[l]
      <3>1. CASE UmountRoot(s)
        <4>1. PICK t \in todo[s] :
                \/ Settle({m \in {Top(t[1]).loop} : m \notin MountedLoops' /\ Holders(m) = {}})
                \/ backing' = backing
          BY <3>1 DEF UmountRoot, Deepest
        <4>2. QED
          BY <2>2, <4>1 DEF Settle
      <3>2. CASE Detach(s)
        <4>1. MountedLoops' = MountedLoops
          BY <3>2 DEF Detach, MountedLoops, LoopsAt
        <4>2. QED
          BY <2>2, <3>2, <4>1 DEF Detach, Live
      <3>3. QED
        BY <1>6, <3>1, <3>2
    <2>3. pc'[s] # "mount" /\ ~Mount(s)
      BY <1>1, <1>6, Attached DEF UmountRoot, Detach, Attach, Mount
    <2>4. ASSUME NEW j \in Instances, NEW l \in LoopsAt(j)' PROVE backing'[l] = j
      <3>1. l \in LoopsAt(j)
        BY <1>1, <2>3, LoopsKeep
      <3>2. l \in MountedLoops'
        BY <2>4 DEF MountedLoops
      <3>3. QED
        BY <1>3, <2>2, <3>1, <3>2 DEF OwnInv
    <2>5. ASSUME NEW p \in Procs, root'[p] # None PROVE backing'[root'[p]] # None
      <3>1. root[p] \in Loops /\ Holders(root[p]) # {}
        BY <1>3, <2>1, <2>5 DEF Holders
      <3>2. QED
        BY <2>1, <2>2, <2>5, <3>1 DEF OwnInv
    <2>6. QED
      BY <1>1, <2>3, <2>4, <2>5, OwnFocus
  <1>7. QED
    BY <1>4, <1>5, <1>6

LEMMA OwnNext == Serial /\ OwnInv /\ [Next]_vars => OwnInv'
  <1> SUFFICES ASSUME Serial, OwnInv, [Next]_vars PROVE OwnInv'
    OBVIOUS
  <1>1. TypeOK /\ TypeOK' /\ None \notin Loops
    BY NextTyped, ConstantsAssumption DEF OwnInv
  <1>2. ASSUME UNCHANGED <<stack, backing, root>>
        PROVE  /\ \A i \in Instances : \A l \in LoopsAt(i)' : backing'[l] = i
               /\ \A p \in Procs : root'[p] # None => backing'[root'[p]] # None
    BY <1>2 DEF OwnInv, LoopsAt
  <1>3. ASSUME NEW s \in Sessions, Step(s)
        PROVE  OwnInv'
    BY <1>1, <1>3, OwnStep
  <1>4. ASSUME NEW s \in Sessions, NEW o \in Ops, NEW i \in Instances, Start(s, o, i)
        PROVE  OwnInv'
    <2>1. \A t \in Sessions : pc[t] \in Ended
      BY <1>4 DEF Start, Active
    <2>2. pc' = [pc EXCEPT ![s] = FirstStep[o]] /\ UNCHANGED <<stack, backing, root>>
      BY <1>4 DEF Start, device
    <2>3. FirstStep[o] # "mount"
      BY ConstantsAssumption DEF FirstStep, AllOps
    <2>4. \A t \in Sessions : t # s => pc'[t] \in Ended
      BY <1>1, <2>1, <2>2 DEF TypeOK, ControlOK
    <2>5. OneActive'
      BY <2>4 DEF OneActive, Active
    <2>6. \A t \in Sessions : pc'[t] # "mount"
      BY <1>1, <2>2, <2>3, <2>4 DEF TypeOK, ControlOK, Ended
    <2>7. QED
      BY <1>1, <1>2, <2>2, <2>5, <2>6 DEF OwnInv
  <1>5. ASSUME NEW s \in Sessions, Cut(s)
        PROVE  OwnInv'
    <2>1. Active(s) /\ UNCHANGED <<stack, backing, root>>
      BY <1>5 DEF Cut, device
    <2>2. pc'[s] \in {"check", "failed"} /\ \A t \in Sessions : t # s => pc'[t] = pc[t]
      BY <1>1, <1>5 DEF Cut, Goto, Finish, TypeOK, ControlOK
    <2>3. QED
      BY <1>1, <1>2, <2>1, <2>2, OwnFocus
  <1>6. ASSUME NEW p \in Procs, NEW q \in Procs, Fork(p, q)
        PROVE  OwnInv'
    <2>1. UNCHANGED <<stack, backing, pc, inst, dev>> /\ root[p] # None
      BY <1>6 DEF Fork, scratch
    <2>2. \A r \in Procs : root'[r] \in {root[r], root[p]}
      BY <1>1, <1>6 DEF Fork, TypeOK, KernelOK
    <2>3. \A r \in Procs : root'[r] # None => backing'[root'[r]] # None
      BY <2>1, <2>2 DEF OwnInv
    <2>4. \A s \in Sessions : pc'[s] = "mount" => Holders(dev[s])' = {}
      BY <2>1, <2>2 DEF OwnInv, Free, Holders
    <2>5. OneActive' /\ MountedLoops' = MountedLoops
      BY <2>1 DEF OwnInv, OneActive, Active, MountedLoops, LoopsAt
    <2>6. \A i \in Instances : \A l \in LoopsAt(i)' : backing'[l] = i
      BY <2>1 DEF OwnInv, LoopsAt
    <2>7. \A s \in Sessions : pc'[s] = "mount" => Free(s)'
      BY <2>1, <2>4, <2>5 DEF OwnInv, Free, Holders
    <2>8. QED
      BY <1>1, <2>3, <2>5, <2>6, <2>7 DEF OwnInv
  <1>7. ASSUME NEW p \in Procs, Exit(p)
        PROVE  OwnInv'
    <2>1. UNCHANGED <<stack, pc, inst, dev>> /\ root' = [root EXCEPT ![p] = None]
      BY <1>7 DEF Exit, scratch
    <2>2. \A r \in Procs : root'[r] = IF r = p THEN None ELSE root[r]
      BY <1>1, <2>1 DEF TypeOK, KernelOK
    <2>3. \A l \in Loops : backing'[l] = backing[l] \/ (l = root[p] /\ l \notin MountedLoops /\ Holders(l) = {p})
      BY <1>7 DEF Exit, Settle
    <2>4. OneActive' /\ MountedLoops' = MountedLoops
      BY <2>1 DEF OwnInv, OneActive, Active, MountedLoops, LoopsAt
    <2>5. ASSUME NEW i \in Instances, NEW l \in LoopsAt(i)' PROVE backing'[l] = i
      <3>1. l \in LoopsAt(i) /\ l \in MountedLoops /\ l \in Loops
        BY <1>1, <2>1, LoopsOf DEF LoopsAt, MountedLoops
      <3>2. QED
        BY <2>3, <3>1 DEF OwnInv
    <2>6. ASSUME NEW r \in Procs, root'[r] # None PROVE backing'[root'[r]] # None
      <3>1. r # p /\ root'[r] = root[r] /\ root[r] \in Loops
        BY <1>1, <2>2, <2>6 DEF TypeOK, KernelOK
      <3>2. Holders(root[r]) # {p}
        BY <3>1 DEF Holders
      <3>3. QED
        BY <2>3, <3>1, <3>2, <2>6 DEF OwnInv
    <2>7. ASSUME NEW s \in Sessions, pc'[s] = "mount"
          PROVE  Free(s)'
      <3>1. /\ backing[dev[s]] = inst[s] /\ dev[s] \notin MountedLoops /\ Holders(dev[s]) = {}
            /\ dev[s] \in Loops
        BY <1>1, <2>1, <2>7 DEF OwnInv, Free, TypeOK, ControlOK
      <3>2. backing'[dev[s]] = backing[dev[s]]
        BY <2>3, <3>1
      <3>3. Holders(dev[s])' = {}
        BY <1>1, <2>1, <2>2, <3>1 DEF Holders
      <3>4. QED
        BY <2>1, <2>4, <3>1, <3>2, <3>3 DEF Free, Holders
    <2>8. QED
      BY <1>1, <2>4, <2>5, <2>6, <2>7 DEF OwnInv
  <1>8. CASE Reboot
    <2>1. \A s \in Sessions : pc'[s] \in Ended
      BY <1>8 DEF Reboot, Active, Ended
    <2>2. OneActive' /\ \A s \in Sessions : pc'[s] # "mount"
      BY <2>1 DEF OneActive, Active, Ended
    <2>3. \A i \in Instances : LoopsAt(i)' = {}
      BY <1>8 DEF Reboot, LoopsAt
    <2>4. \A p \in Procs : root'[p] = None
      BY <1>8 DEF Reboot
    <2>5. QED
      BY <1>1, <2>2, <2>3, <2>4 DEF OwnInv
  <1>9. CASE UNCHANGED vars
    <2>1. UNCHANGED <<stack, backing, root, pc, dev, inst>>
      BY <1>9 DEF vars, device, scratch
    <2>2. QED
      BY <1>1, <2>1 DEF OwnInv, OneActive, Active, LoopsAt, MountedLoops, Free, Holders
  <1>10. QED
    BY <1>3, <1>4, <1>5, <1>6, <1>7, <1>8, <1>9 DEF Next

LEMMA OwnThroughout ==
  ASSUME Serial
  PROVE  Spec => []OwnInv
  <1>1. Init => OwnInv
    BY InitTyped DEF Init, OwnInv, OneActive, Active, Ended, LoopsAt
  <1>2. OwnInv /\ [Next]_vars => OwnInv'
    BY OwnNext
  <1>3. QED
    BY <1>1, <1>2, PTL DEF Spec

\* There is one instance.
Single == \A i, j \in Instances : i = j

\* A down ends well with its losetup -d.
LEMMA DownEnds ==
  ASSUME NEW s \in Sessions, KindInv, Step(s), op[s] = "down", pc'[s] = "ok"
  PROVE  Detach(s)
  <1>1. TypeOK /\ Active(s) /\ pc[s] \in Teardown \cup {"list"}
    BY StepOn DEF KindInv, Kind
  <1>2. ASSUME NEW l, Goto(s, l) PROVE pc'[s] = l
    BY <1>1, <1>2 DEF Goto, TypeOK, ControlOK
  <1>3. ~IsUp(s) /\ ~Resize(s) /\ ~Chroot(s) /\ ~ChrootFails(s) /\ ~Delete(s)
    BY <1>1 DEF Teardown, IsUp, Resize, CheckOffline, Grow, Fsck, GrowFs, Chroot, ChrootFails, Delete
  <1>4. ~Up(s)
    BY <1>1 DEF Teardown, KernelFs, Up, NeedImage, CreateImage, Format, CheckMounted, Attach,
       AttachFails, Mount, MountFails, MountKernelFs, Bind, Prepare
  <1>5. ~NothingThere(s) /\ ~ListPids(s) /\ ~Kill(s) /\ ~Snapshot(s) /\ ~Unmounted(s)
    BY <1>2 DEF NothingThere, ListPids, Kill, Snapshot, Unmounted
  <1>6. ~UmountSub(s) /\ ~UmountRoot(s)
    BY DEF UmountSub, UmountRoot
  <1>7. QED
    BY <1>3, <1>4, <1>5, <1>6 DEF Step, TakeDown

\* What that leaves attached is in use, and marked.
LEMMA DetachLeaves ==
  ASSUME NEW s \in Sessions, TypeOK, Detach(s), op[s] = "down", NEW i \in Instances, i = inst[s],
         NEW l \in Loops, backing'[l] = i
  PROVE  backing[l] = i /\ Live(l) /\ l \in auto'
  <1>1. backing[l] = i /\ backing'[l] # None
    BY ConstantsAssumption DEF Detach, TypeOK, KernelOK
  <1>2. backing[l] \in DetachScope(op[s], inst[s])
    BY <1>1 DEF DetachScope
  <1>3. Live(l)
    BY <1>1, <1>2 DEF Detach
  <1>4. QED
    BY <1>1, <1>2, <1>3 DEF Detach

LEMMA DownStep ==
  ASSUME DownInv, Next, Single \/ OwnInv, NEW s \in Sessions, Succeeds(s, "down"), s \in alone
  PROVE  /\ stack'[inst[s]] = <<>>
         /\ \A l \in Loops : backing'[l] = inst[s] => Holders(l) # {} /\ l \in auto'
  <1>1. TypeOK /\ KindInv /\ Step(s) /\ Clearing(s)
    BY Ending DEF Succeeds, DownInv, KindInv
  <1>2. Active(s) /\ Detach(s)
    BY <1>1, StepOn, DownEnds DEF Succeeds
  <1>3. PICK i \in Instances : i = inst[s]
    BY <1>1, <1>2 DEF TypeOK, ControlOK
  <1>4. stack[i] = <<>> /\ stack' = stack
    BY <1>1, <1>2, <1>3 DEF Clearing, Succeeds, Detach
  <1>5. ASSUME NEW l \in Loops, backing'[l] = i
        PROVE  Holders(l) # {} /\ l \in auto'
    <2>1. backing[l] = i /\ Live(l) /\ l \in auto'
      BY <1>1, <1>2, <1>3, <1>5, DetachLeaves DEF Succeeds
    <2>2. l \notin MountedLoops
      <3>1. SUFFICES ASSUME NEW j \in Instances, l \in LoopsAt(j) PROVE FALSE
        BY DEF MountedLoops
      <3>2. j = i
        BY <2>1, <3>1 DEF Single, OwnInv
      <3>3. QED
        BY <1>4, <3>1, <3>2 DEF LoopsAt
    <2>3. QED
      BY <2>1, <2>2 DEF Live
  <1>6. QED
    BY <1>3, <1>4, <1>5

\* A down that nothing disturbed leaves nothing behind, for any number of sessions,
\* processes and devices, whatever the commands before it did and however they ended:
\* for one instance with concurrent commands, for any number of instances when the
\* commands are serial.  (With both, another instance's detach can take away the device a
\* script has attached and not mounted yet, and the copy it then mounts is of the image
\* that gets the device next: down.sh:39.)
THEOREM DownsRelease ==
  ASSUME Single \/ Serial
  PROVE  Spec => DownReleases
  <1>1. DownInv /\ (Single \/ OwnInv) /\ [Next]_vars =>
          [\A s \in Sessions : Succeeds(s, "down") /\ s \in alone =>
             /\ stack'[inst[s]] = <<>>
             /\ \A l \in Loops : backing'[l] = inst[s] => Holders(l) # {} /\ l \in auto']_vars
    BY DownStep
  <1>2. CASE Single
    <2>1. DownInv /\ [Next]_vars =>
            [\A s \in Sessions : Succeeds(s, "down") /\ s \in alone =>
               /\ stack'[inst[s]] = <<>>
               /\ \A l \in Loops : backing'[l] = inst[s] => Holders(l) # {} /\ l \in auto']_vars
      BY <1>1, <1>2
    <2>2. QED
      BY <2>1, DownThroughout, PTL DEF Spec, DownReleases
  <1>3. CASE Serial
    <2>1. Spec => []OwnInv
      BY <1>3, OwnThroughout
    <2>2. DownInv /\ OwnInv /\ [Next]_vars =>
            [\A s \in Sessions : Succeeds(s, "down") /\ s \in alone =>
               /\ stack'[inst[s]] = <<>>
               /\ \A l \in Loops : backing'[l] = inst[s] => Holders(l) # {} /\ l \in auto']_vars
      BY <1>1
    <2>3. QED
      BY <2>1, <2>2, DownThroughout, PTL DEF Spec, DownReleases
  <1>4. QED
    BY <1>2, <1>3
=============================================================================
