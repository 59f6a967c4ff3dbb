---------------------------- MODULE InstallProps ----------------------------
(***************************************************************************)
(* What `androlinux install` promises, stated over the state of module     *)
(* Install.                                                                *)
(***************************************************************************)
EXTENDS Install

Contents == {"short", "mixed", "xz", "gz"}

\* The type invariant; a session that writes to the cache has a file open, and
\* one that goes on to the device has an archive to send.
TypeOK ==
  /\ {xz, gz, part} \subseteq Inodes \cup {None}
  /\ content \in [Inodes -> Contents]
  /\ newer \in BOOLEAN
  /\ fd \in [Sessions -> Inodes \cup {None}]
  /\ from \in [Sessions -> Inodes \cup {None}]
  /\ stage \in Contents \cup {"absent", "cut"}
  /\ pushed \in [Sessions -> Contents \cup {"absent", "cut"}]
  /\ img \in {"absent", "raw", "ok"}
  /\ mounted \in BOOLEAN /\ conf \in BOOLEAN
  /\ tree \in DOMAIN Rank
  /\ method \in Methods
  /\ force \in [Sessions -> BOOLEAN]
  /\ pc \in [Sessions -> Ended \cup {"download", "fetch", "gzip", "recompress",
              "stat", "push", "size", "move", "script", "wait", "verify"}]
  /\ script \in [Sessions -> TarSteps \cup {"none", "image", "mke2fs", "mount",
              "unpack", "config", "exit0", "exit1"}]
  /\ left \in 0..MaxFaults
  /\ \A s \in Sessions :
       /\ pc[s] \in {"fetch", "recompress"} <=> fd[s] # None
       /\ pc[s] \in {"stat", "push", "size", "move"} => gz # None

\* An archive that is sent to the device is whole: a download that ended early
\* and was cached does not survive the recompression, and an interrupted
\* recompression leaves only a .part behind.
GzWhole == gz # None => content[gz] = "gz"

\* Where push_root stages and moves, the device never has a truncated archive
\* under the name install.sh unpacks: "a 163 MB push was observed landing as
\* 80 MB with no failure".
StageWhole == method = "su" => stage \in {"absent", "gz"}

\* An install that says "done" has unpacked the whole rootfs and configured it:
\* it does "verify the postcondition on the device instead of trusting the
\* status".
DoneComplete ==
  [][\A s \in Sessions : pc[s] # "ok" /\ pc'[s] = "ok" => tree = "full" /\ conf]_vars

\* An operator who runs install again after each failure gets the rootfs: "it
\* is idempotent and will reuse whatever is already in place".
RetryInstalls == <>(tree = "full" /\ conf)
=============================================================================
