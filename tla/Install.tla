------------------------------ MODULE Install ------------------------------
(***************************************************************************)
(* androlinux install, from the download to the unpacked rootfs            *)
(* (rootfs.py, install.sh), over an adb connection that may drop: a push   *)
(* may land truncated with no error, and a script that the device never    *)
(* finished may be reported with status 0 (adb.py).                        *)
(*                                                                         *)
(* One archive and one instance.  Sessions are runs of the command; each   *)
(* has a host side, whose step is pc, and a script on the device, whose    *)
(* step is script, and which may outlive the connection.                   *)
(***************************************************************************)
EXTENDS Naturals, FiniteSets

CONSTANTS
  Sessions,
  Inodes,     \* files of the host cache, named or only held open
  None,
  Methods,    \* how root may be had on the device: "adbd", "su"
  Redownload, \* the values of --redownload
  Serial,     \* one run of the command at a time
  Faults,     \* what may go wrong, a subset of AllFaults
  MaxFaults   \* bound: how many faults happen

AllFaults == {"net", "short", "quit", "push", "adb", "tar", "reboot"}

ASSUME ConstantsAssumption ==
  /\ Inodes \subseteq Nat \ {0}
  /\ None \notin Inodes
  /\ Methods \subseteq {"adbd", "su"}
  /\ {Serial} \cup Redownload \subseteq BOOLEAN
  /\ Faults \subseteq AllFaults
  /\ MaxFaults \in Nat

VARIABLES
  xz, gz, part,   \* the inode of each name in the cache; both use one .part
  content,        \* [n] : what a cache file holds
  newer,          \* gz was written after xz
  fd,             \* [s] : the file a session is writing
  from,           \* [s] : the file it is recompressing
  stage,          \* the archive in the instance's stage directory
  pushed,         \* [s] : what its push left in /data/local/tmp
  img, mounted,   \* the image, and whether it is on the mount point
  tree,           \* how far it has been unpacked: Unpacked[n] entries
  conf,           \* hostname, resolv.conf, policy-rc.d ... are in place
  method,         \* how root is had on this device
  force, pc,      \* [s] : the request and the step of its host side
  script,         \* [s] : the step of its script on the device
  left            \* faults that may still happen

cache == <<xz, gz, part, content, newer, fd, from>>
rootfs == <<img, mounted, tree, conf>>
remote == <<stage, pushed, method>>
vars  == <<cache, remote, rootfs, force, pc, script, left>>

Ended     == {"idle", "ok", "failed"}
Active(s) == pc[s] \notin Ended
TarSteps  == {"tar0", "tar1", "tar2"}

Goto(s, label)   == pc' = [pc EXCEPT ![s] = label]
ScriptAt(s, label) == script' = [script EXCEPT ![s] = label]

\* One of the faults f happens now.
Fault(f) == f \in Faults /\ left > 0 /\ left' = left - 1

Init ==
  /\ xz = None /\ gz = None /\ part = None
  /\ content = [n \in Inodes |-> "short"]
  /\ newer = FALSE
  /\ fd = [s \in Sessions |-> None]
  /\ from = [s \in Sessions |-> None]
  /\ stage = "absent"
  /\ pushed = [s \in Sessions |-> "absent"]
  /\ img = "absent" /\ mounted = FALSE /\ tree = "empty" /\ conf = FALSE
  /\ method \in Methods
  /\ force \in [Sessions -> Redownload]
  /\ pc = [s \in Sessions |-> "idle"]
  /\ script = [s \in Sessions |-> "none"]
  /\ left = MaxFaults

Begin(s) ==
  /\ ~Active(s) /\ script[s] = "none"
  /\ Serial => \A t \in Sessions : ~Active(t)
  /\ \E f \in Redownload : force' = [force EXCEPT ![s] = f]
  /\ Goto(s, "download")
  /\ UNCHANGED <<cache, remote, rootfs, script, left>>

-----------------------------------------------------------------------------
(* The host cache: rootfs.download and rootfs.to_gzip.                     *)

Kind(s)    == IF pc[s] \in {"download", "fetch"} THEN "xz" ELSE "gz"
Writers(n) == {s \in Sessions : fd[s] = n}
Unused     == {n \in Inodes : n \notin {xz, gz, part} /\ \A s \in Sessions : n \notin {fd[s], from[s]}}

\* open(tmp, "wb"): a new file, or the one of that name, truncated.  Whoever
\* else is writing to it goes on doing so.
OpenPart(s) ==
  \E n \in IF part # None THEN {part} ELSE {m \in Unused : \A k \in Unused : m <= k} :
    /\ part' = n
    /\ fd' = [fd EXCEPT ![s] = n]
    /\ content' = [content EXCEPT ![n] =
         IF \E t \in Writers(n) : Kind(t) # Kind(s) THEN "mixed" ELSE "short"]

\* What the file holds when s has written its last block as data.
Written(s, data) ==
  LET n == fd[s]  others == Writers(n) \ {s} IN
  content' = [content EXCEPT ![n] =
    IF @ = "mixed" \/ \E t \in others : Kind(t) # Kind(s) THEN "mixed"
    ELSE IF others # {} THEN "short" ELSE data]

Close(s) == /\ fd' = [fd EXCEPT ![s] = None]
            /\ from' = [from EXCEPT ![s] = None]

Download(s) ==
  /\ pc[s] = "download"
  /\ IF xz # None /\ ~force[s]
       THEN Goto(s, "gzip") /\ UNCHANGED <<part, fd, content>>
       ELSE Goto(s, "fetch") /\ OpenPart(s)
  /\ UNCHANGED <<xz, gz, newer, from, remote, rootfs, force, script, left>>

\* tmp.replace(dest): whatever is called .part now becomes the xz archive.  A
\* connection the server closes early ends the read loop like the end of file.
Fetched(s) ==
  /\ pc[s] = "fetch"
  /\ \/ Written(s, "xz") /\ UNCHANGED left
     \/ Written(s, "short") /\ Fault("short")
  /\ Close(s)
  /\ IF part = None THEN Goto(s, "failed") /\ UNCHANGED <<xz, part, newer>>
     ELSE /\ xz' = part
          /\ part' = None
          /\ newer' = FALSE
          /\ Goto(s, "gzip")
  /\ UNCHANGED <<gz, remote, rootfs, force, script>>

\* Mutant: what had arrived when the connection failed is cached.
FetchFailsKept(s) ==
  /\ pc[s] = "fetch"
  /\ Fault("net")
  /\ xz' = part
  /\ part' = None
  /\ newer' = FALSE
  /\ Close(s)
  /\ Goto(s, "failed")
  /\ UNCHANGED <<gz, content, remote, rootfs, force, script>>

FetchFails(s) ==
  /\ pc[s] = "fetch"
  /\ Fault("net")
  /\ part' = None
  /\ Close(s)
  /\ Goto(s, "failed")
  /\ UNCHANGED <<xz, gz, content, newer, remote, rootfs, force, script>>

Gzip(s) ==
  /\ pc[s] = "gzip"
  /\ IF gz # None /\ newer
       THEN Goto(s, "stat") /\ UNCHANGED <<part, fd, content, from>>
       ELSE /\ Goto(s, "recompress")
            /\ OpenPart(s)
            /\ from' = [from EXCEPT ![s] = IF content[xz] = "xz" THEN xz ELSE None]
  /\ UNCHANGED <<xz, gz, newer, remote, rootfs, force, script, left>>

\* xz -dc checks what it reads: an archive that is short or was changed under
\* it ends it with an error.
Intact(s) == from[s] # None /\ content[from[s]] = "xz"

\* Mutant: only gzip's exit status is looked at, which is that of the pipe.
RecompressedBlindly(s) ==
  /\ pc[s] = "recompress"
  /\ Written(s, IF Intact(s) THEN "gz" ELSE "short")
  /\ Close(s)
  /\ gz' = part
  /\ part' = None
  /\ newer' = TRUE
  /\ Goto(s, "stat")
  /\ UNCHANGED <<xz, remote, rootfs, force, script, left>>

Recompressed(s) ==
  /\ pc[s] = "recompress"
  /\ Intact(s)
  /\ Written(s, "gz")
  /\ Close(s)
  /\ IF part = None THEN Goto(s, "failed") /\ UNCHANGED <<gz, part, newer>>
     ELSE /\ gz' = part
          /\ part' = None
          /\ newer' = TRUE
          /\ Goto(s, "stat")
  /\ UNCHANGED <<xz, remote, rootfs, force, script, left>>

\* Mutant: the failure is reported, and the path returned all the same.
RecompressFailsOn(s) ==
  /\ pc[s] = "recompress"
  /\ ~Intact(s)
  /\ part' = None
  /\ Close(s)
  /\ Goto(s, "stat")
  /\ UNCHANGED <<xz, gz, content, newer, remote, rootfs, force, script, left>>

\* Where xz and gzip are not installed, the exception leaves .part behind.
RecompressFails(s) ==
  /\ pc[s] = "recompress"
  /\ ~Intact(s)
  /\ part' \in {None, part}
  /\ Close(s)
  /\ Goto(s, "failed")
  /\ UNCHANGED <<xz, gz, content, newer, remote, rootfs, force, script, left>>

-----------------------------------------------------------------------------
(* The transfer: Adb.push_root.                                            *)

\* The file on the device is taken for the archive when their sizes agree.
SameSize(a) == a = content[gz]

Stat(s) ==
  /\ pc[s] = "stat"
  /\ Goto(s, IF SameSize(stage) THEN "script" ELSE "push")
  /\ UNCHANGED <<cache, remote, rootfs, force, script, left>>

\* adb push writes to the stage as adbd, or to a name of its own as the shell
\* user, to be moved by root.  A truncated one may be reported or not.
Push(s) ==
  /\ pc[s] = "push"
  /\ \E a \in {content[gz], "cut"} :
       /\ IF a = "cut" THEN Fault("push") ELSE UNCHANGED left
       /\ IF method = "adbd"
            THEN stage' = a /\ UNCHANGED pushed
            ELSE pushed' = [pushed EXCEPT ![s] = a] /\ UNCHANGED stage
       /\ \/ Goto(s, IF method = "adbd" THEN "script" ELSE "size")
          \/ a = "cut" /\ Goto(s, "failed")
  /\ UNCHANGED <<cache, method, rootfs, force, script>>

\* Mutant: adb push is believed.
SizeNotCompared(s) ==
  /\ pc[s] = "size"
  /\ Goto(s, "move")
  /\ UNCHANGED <<cache, remote, rootfs, force, script, left>>

Size(s) ==
  /\ pc[s] = "size"
  /\ IF SameSize(pushed[s])
       THEN Goto(s, "move") /\ UNCHANGED pushed
       ELSE Goto(s, "failed") /\ pushed' = [pushed EXCEPT ![s] = "absent"]
  /\ UNCHANGED <<cache, stage, method, rootfs, force, script, left>>

\* A move the device never made may be reported with status 0.
Move(s) ==
  /\ pc[s] = "move"
  /\ \/ /\ stage' = pushed[s]
        /\ pushed' = [pushed EXCEPT ![s] = "absent"]
        /\ UNCHANGED left
     \/ Fault("adb") /\ UNCHANGED <<stage, pushed>>
  /\ Goto(s, "script")
  /\ UNCHANGED <<cache, method, rootfs, force, script>>

-----------------------------------------------------------------------------
(* install.sh on the device.                                               *)

RunScript(s) ==
  /\ pc[s] = "script"
  /\ ScriptAt(s, "image")
  /\ Goto(s, "wait")
  /\ UNCHANGED <<cache, remote, rootfs, force, left>>

CreateImage(s) ==
  /\ script[s] = "image"
  /\ IF img = "absent" THEN img' = "raw" /\ ScriptAt(s, "mke2fs")
                       ELSE ScriptAt(s, "mount") /\ UNCHANGED img
  /\ UNCHANGED <<cache, remote, mounted, tree, conf, force, pc, left>>

Format(s) ==
  /\ script[s] = "mke2fs"
  /\ img' = "ok"
  /\ tree' = "empty"
  /\ conf' = FALSE
  /\ ScriptAt(s, "mount")
  /\ UNCHANGED <<cache, remote, mounted, force, pc, left>>

MountImage(s) ==
  /\ script[s] = "mount"
  /\ IF mounted \/ img = "ok" THEN mounted' = TRUE /\ ScriptAt(s, "unpack")
                              ELSE ScriptAt(s, "exit1") /\ UNCHANGED mounted
  /\ UNCHANGED <<cache, remote, img, tree, conf, force, pc, left>>

\* What has been extracted, in the order tar extracts it.
Rank  == [empty |-> 0, some |-> 1, sh |-> 2, full |-> 3]
HasSh == tree \in {"sh", "full"}

Unpack(s) ==
  /\ script[s] = "unpack"
  /\ ScriptAt(s, IF HasSh THEN "config" ELSE "tar0")
  /\ UNCHANGED <<cache, remote, rootfs, force, pc, left>>

Extracts == [tar0 |-> "some", tar1 |-> "sh", tar2 |-> "full"]
NextTar  == [tar0 |-> "tar1", tar1 |-> "tar2", tar2 |-> "config"]

Tar(s) ==
  LET k == script[s] IN
  /\ k \in TarSteps
  /\ stage # "absent"
  /\ stage = "gz" \/ k # "tar2"
  /\ tree' = IF Rank[Extracts[k]] > Rank[tree] THEN Extracts[k] ELSE tree
  /\ ScriptAt(s, NextTar[k])
  /\ UNCHANGED <<cache, remote, img, mounted, conf, force, pc, left>>

\* The archive is missing or ends early, or the device is full.
TarFails(s) ==
  /\ script[s] \in TarSteps
  /\ \/ stage # "gz" /\ UNCHANGED left
     \/ Fault("tar")
  /\ ScriptAt(s, "exit1")
  /\ UNCHANGED <<cache, remote, rootfs, force, pc>>

Configure(s) ==
  /\ script[s] = "config"
  /\ conf' = TRUE
  /\ ScriptAt(s, "exit0")
  /\ UNCHANGED <<cache, remote, img, mounted, tree, force, pc, left>>

\* Its status reaches the host, if anybody is still waiting for it.
ScriptEnds(s) ==
  /\ script[s] \in {"exit0", "exit1"}
  /\ IF pc[s] = "wait" THEN Goto(s, IF script[s] = "exit0" THEN "verify" ELSE "failed")
                       ELSE UNCHANGED pc
  /\ ScriptAt(s, "none")
  /\ UNCHANGED <<cache, remote, rootfs, force, left>>

\* install-verify: the image is there, and /bin/sh behind the mount point.
Verify(s) ==
  /\ pc[s] = "verify"
  /\ Goto(s, IF img # "absent" /\ mounted /\ HasSh THEN "ok" ELSE "failed")
  /\ UNCHANGED <<cache, remote, rootfs, force, script, left>>

-----------------------------------------------------------------------------
(* What goes wrong.                                                        *)

\* The tool is interrupted at one of its own steps: no .part is unlinked.
Quit(s) ==
  /\ Active(s) /\ pc[s] # "wait"
  /\ Fault("quit")
  /\ Close(s)
  /\ Goto(s, "failed")
  /\ UNCHANGED <<xz, gz, part, content, newer, remote, rootfs, force, script>>

\* The connection drops, or the command times out; adb exits 0, or not.  The
\* script dies with its shell or goes on.
Disconnect(s) ==
  /\ pc[s] = "wait"
  /\ Fault("adb")
  /\ \E next \in {"verify", "failed"} : Goto(s, next)
  /\ \/ ScriptAt(s, "none")
     \/ UNCHANGED script
  /\ UNCHANGED <<cache, remote, rootfs, force>>

Reboot ==
  /\ Fault("reboot")
  /\ mounted' = FALSE
  /\ script' = [s \in Sessions |-> "none"]
  /\ \E next \in {"verify", "failed"} :
       pc' = [s \in Sessions |-> IF pc[s] = "wait" THEN next ELSE pc[s]]
  /\ UNCHANGED <<cache, remote, img, tree, conf, force>>

Cache(s)  == \/ Download(s) \/ Fetched(s) \/ FetchFails(s) \/ Gzip(s)
             \/ Recompressed(s) \/ RecompressFails(s)
Host(s)   == \/ Cache(s) \/ Stat(s) \/ Push(s) \/ Size(s) \/ Move(s)
             \/ RunScript(s) \/ Verify(s)
Script(s) == \/ CreateImage(s) \/ Format(s) \/ MountImage(s) \/ Unpack(s)
             \/ Tar(s) \/ TarFails(s) \/ Configure(s) \/ ScriptEnds(s)

Next ==
  \/ \E s \in Sessions : Begin(s) \/ Host(s) \/ Script(s) \/ Quit(s) \/ Disconnect(s)
  \/ Reboot

Spec     == Init /\ [][Next]_vars

\* The operator runs the command again; what was started goes on.
FairSpec == Spec /\ \A s \in Sessions : /\ WF_vars(Begin(s))
                                        /\ WF_vars(Host(s))
                                        /\ WF_vars(Script(s))
=============================================================================
