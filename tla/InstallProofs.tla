--------------------------- MODULE InstallProofs ----------------------------
(***************************************************************************)
(* Archives stay whole, in the cache and on the device, through any number *)
(* of repeated runs and of faults, for every number of sessions and of     *)
(* files.                                                                  *)
(***************************************************************************)
EXTENDS InstallProps, TLAPS

HostLabels == Ended \cup {"download", "fetch", "gzip", "recompress",
                          "stat", "push", "size", "move", "script", "wait", "verify"}
ScriptLabels == TarSteps \cup {"none", "image", "mke2fs", "mount",
                               "unpack", "config", "exit0", "exit1"}

\* Faults are counted.
LEMMA FaultTyped ==
  ASSUME ConstantsAssumption, TypeOK, NEW f, Fault(f)
  PROVE  left' \in 0..MaxFaults
  BY DEF ConstantsAssumption, TypeOK, Fault

LEMMA InitTyped ==
  ASSUME ConstantsAssumption, Init
  PROVE  TypeOK
  <1>1. \A s \in Sessions : force[s] \in BOOLEAN
    BY DEF Init, ConstantsAssumption
  <1>2. force \in [Sessions -> BOOLEAN]
    BY <1>1 DEF Init
  <1>3. tree \in DOMAIN Rank /\ left \in 0..MaxFaults
    BY DEF Init, ConstantsAssumption, Rank
  <1>4. /\ pushed \in [Sessions -> Contents \cup {"absent", "cut"}]
        /\ content \in [Inodes -> Contents]
        /\ fd \in [Sessions -> Inodes \cup {None}]
        /\ from \in [Sessions -> Inodes \cup {None}]
    BY DEF Init, Contents
  <1>5. pc \in [Sessions -> HostLabels] /\ script \in [Sessions -> ScriptLabels]
    BY DEF Init, HostLabels, ScriptLabels, Ended
  <1>6. \A s \in Sessions : pc[s] = "idle" /\ fd[s] = None
    BY DEF Init
  <1>7. /\ {xz, gz, part} \subseteq Inodes \cup {None} /\ newer \in BOOLEAN
        /\ stage \in Contents \cup {"absent", "cut"} /\ img \in {"absent", "raw", "ok"}
        /\ mounted \in BOOLEAN /\ conf \in BOOLEAN /\ method \in Methods
    BY DEF Init
  <1>8. QED
    BY <1>2, <1>3, <1>4, <1>5, <1>6, <1>7 DEF TypeOK, HostLabels, ScriptLabels

-----------------------------------------------------------------------------
\* A step that leaves the cache alone, and moves s between steps that write no
\* file of it.
Writing == {"fetch", "recompress"}
Sending == {"stat", "push", "size", "move"}

LEMMA DeviceTyped ==
  ASSUME ConstantsAssumption, TypeOK, NEW s \in Sessions, NEW to \in HostLabels,
         Goto(s, to), UNCHANGED cache, pc[s] \notin Writing, to \notin Writing,
         to \in Sending => gz # None,
         stage' \in Contents \cup {"absent", "cut"},
         pushed' \in [Sessions -> Contents \cup {"absent", "cut"}],
         UNCHANGED <<method, rootfs>>,
         force' \in [Sessions -> BOOLEAN],
         script' \in [Sessions -> ScriptLabels],
         left' \in 0..MaxFaults
  PROVE  TypeOK'
  <1>1. pc' \in [Sessions -> HostLabels]
    BY DEF TypeOK, Goto, HostLabels
  <1>2. \A t \in Sessions : /\ pc'[t] \in Writing <=> fd'[t] # None
                            /\ pc'[t] \in Sending => gz' # None
    BY DEF TypeOK, Goto, Writing, Sending, cache
  <1>3. QED
    BY <1>1, <1>2 DEF TypeOK, cache, rootfs, HostLabels, ScriptLabels, Writing, Sending

\* A step of the script, which changes nothing of the host but that it hears of
\* its end.
LEMMA ScriptTyped ==
  ASSUME TypeOK, UNCHANGED <<cache, remote, force, left>>,
         img' \in {"absent", "raw", "ok"}, mounted' \in BOOLEAN, conf' \in BOOLEAN,
         tree' \in DOMAIN Rank,
         UNCHANGED pc, script' \in [Sessions -> ScriptLabels]
  PROVE  TypeOK'
  BY DEF TypeOK, cache, remote, ScriptLabels

\* No session but s opens or closes a file.
Opens(s) == /\ fd' \in [Sessions -> Inodes \cup {None}]
            /\ \A t \in Sessions \ {s} : fd'[t] = fd[t]

LEMMA OpenTyped ==
  ASSUME ConstantsAssumption, TypeOK, NEW s \in Sessions, OpenPart(s)
  PROVE  /\ part' \in Inodes
         /\ content' \in [Inodes -> Contents]
         /\ Opens(s) /\ fd'[s] # None
  <1>1. PICK n \in IF part # None THEN {part} ELSE {m \in Unused : \A k \in Unused : m <= k} :
          /\ part' = n
          /\ fd' = [fd EXCEPT ![s] = n]
          /\ content' = [content EXCEPT ![n] =
               IF \E t \in Writers(n) : Kind(t) # Kind(s) THEN "mixed" ELSE "short"]
    BY DEF OpenPart
  <1>2. n \in Inodes
    BY <1>1 DEF TypeOK, Unused
  <1>3. QED
    BY <1>1, <1>2 DEF TypeOK, Contents, Opens, ConstantsAssumption

LEMMA WrittenTyped ==
  ASSUME TypeOK, NEW s \in Sessions, NEW data \in Contents, Written(s, data)
  PROVE  content' \in [Inodes -> Contents]
  BY DEF TypeOK, Written, Contents

\* A step of the cache that moves s to a step and gives it an open file or none.
LEMMA CacheTyped ==
  ASSUME ConstantsAssumption, TypeOK, NEW s \in Sessions, NEW to \in HostLabels,
         Goto(s, to), Opens(s),
         from' \in [Sessions -> Inodes \cup {None}],
         to \in Writing <=> fd'[s] # None,
         xz' \in Inodes \cup {None}, gz' \in Inodes \cup {None}, part' \in Inodes \cup {None},
         gz # None => gz' # None, to \in Sending => gz' # None,
         content' \in [Inodes -> Contents], newer' \in BOOLEAN,
         UNCHANGED <<remote, rootfs, force, script>>, left' \in 0..MaxFaults
  PROVE  TypeOK'
  <1>1. pc' \in [Sessions -> HostLabels] /\ fd' \in [Sessions -> Inodes \cup {None}]
    BY DEF TypeOK, Goto, HostLabels, Opens
  <1>2. \A t \in Sessions : /\ pc'[t] \in Writing <=> fd'[t] # None
                            /\ pc'[t] \in Sending => gz' # None
    BY DEF TypeOK, Goto, Writing, Sending, Opens
  <1>3. QED
    BY <1>1, <1>2 DEF TypeOK, remote, rootfs, HostLabels, Writing, Sending

LEMMA NamesTyped ==
  ASSUME TypeOK
  PROVE  /\ xz \in Inodes \cup {None} /\ gz \in Inodes \cup {None} /\ part \in Inodes \cup {None}
         /\ content \in [Inodes -> Contents]
         /\ from \in [Sessions -> Inodes \cup {None}]
         /\ fd \in [Sessions -> Inodes \cup {None}]
         /\ newer \in BOOLEAN /\ left \in 0..MaxFaults
         /\ \A s \in Sessions : pc[s] \in Writing <=> fd[s] # None
  BY DEF TypeOK, Writing

LEMMA CloseTyped ==
  ASSUME TypeOK, NEW s \in Sessions, Close(s)
  PROVE  /\ Opens(s) /\ fd'[s] = None
         /\ from' \in [Sessions -> Inodes \cup {None}]
  BY DEF TypeOK, Close, Opens

-----------------------------------------------------------------------------
LEMMA CacheStepTyped ==
  ASSUME ConstantsAssumption, TypeOK, NEW s \in Sessions, Cache(s)
  PROVE  TypeOK'
  <1> USE DEF HostLabels, Writing, Sending, Ended
  <1>1. CASE Download(s)
    <2>0. pc[s] = "download" /\ UNCHANGED fd => Opens(s) /\ fd'[s] = None
      BY NamesTyped DEF Opens
    <2>1. CASE xz # None /\ ~force[s]
      <3>1. /\ Goto(s, "gzip") /\ Opens(s) /\ fd'[s] = None
            /\ UNCHANGED <<xz, gz, part, content, newer, from, left>> /\ UNCHANGED <<remote, rootfs, force, script>>
        BY <1>1, <2>0, <2>1 DEF Download
      <3>2. QED
        BY <3>1, CacheTyped, NamesTyped
    <2>2. CASE ~(xz # None /\ ~force[s])
      <3>1. part' \in Inodes /\ content' \in [Inodes -> Contents] /\ Opens(s) /\ fd'[s] # None
        BY <1>1, <2>2, OpenTyped DEF Download
      <3>2. part' # None
        BY <3>1 DEF ConstantsAssumption
      <3>3. QED
        BY <1>1, <2>2, <3>1, <3>2, CacheTyped, NamesTyped DEF Download
    <2>3. QED
      BY <2>1, <2>2
  <1>2. CASE Fetched(s)
    <2>1. left' \in 0..MaxFaults
      BY <1>2, FaultTyped, NamesTyped DEF Fetched
    <2>2. content' \in [Inodes -> Contents]
      BY <1>2, WrittenTyped DEF Fetched, Contents
    <2>3. Opens(s) /\ fd'[s] = None /\ from' \in [Sessions -> Inodes \cup {None}]
      BY <1>2, CloseTyped DEF Fetched
    <2>4. CASE part = None
      <3>1. Goto(s, "failed") /\ UNCHANGED <<xz, gz, part, newer>> /\ UNCHANGED <<remote, rootfs, force, script>>
        BY <1>2, <2>4 DEF Fetched
      <3>2. QED
        BY <3>1, <2>1, <2>2, <2>3, CacheTyped, NamesTyped
    <2>5. CASE part # None
      <3>1. /\ Goto(s, "gzip") /\ xz' = part /\ part' = None /\ newer' = FALSE
            /\ UNCHANGED gz /\ UNCHANGED <<remote, rootfs, force, script>>
        BY <1>2, <2>5 DEF Fetched
      <3>2. QED
        BY <3>1, <2>1, <2>2, <2>3, CacheTyped, NamesTyped
    <2>6. QED
      BY <2>4, <2>5
  <1>3. CASE FetchFails(s)
    <2>1. left' \in 0..MaxFaults
      BY <1>3, FaultTyped DEF FetchFails
    <2>2. Opens(s) /\ fd'[s] = None /\ from' \in [Sessions -> Inodes \cup {None}]
      BY <1>3, CloseTyped DEF FetchFails
    <2>3. QED
      BY <1>3, <2>1, <2>2, CacheTyped, NamesTyped DEF FetchFails
  <1>4. CASE Gzip(s)
    <2>0. pc[s] = "gzip" /\ UNCHANGED fd => Opens(s) /\ fd'[s] = None
      BY NamesTyped DEF Opens
    <2>1. CASE gz # None /\ newer
      <3>1. /\ Goto(s, "stat") /\ Opens(s) /\ fd'[s] = None
            /\ UNCHANGED <<xz, gz, part, content, newer, from, left>> /\ UNCHANGED <<remote, rootfs, force, script>>
        BY <1>4, <2>0, <2>1 DEF Gzip
      <3>2. QED
        BY <3>1, <2>1, CacheTyped, NamesTyped
    <2>2. CASE ~(gz # None /\ newer)
      <3>1. part' \in Inodes /\ content' \in [Inodes -> Contents] /\ Opens(s) /\ fd'[s] # None
        BY <1>4, <2>2, OpenTyped DEF Gzip
      <3>2. part' # None
        BY <3>1 DEF ConstantsAssumption
      <3>3. from' \in [Sessions -> Inodes \cup {None}]
        <4>1. from' = [from EXCEPT ![s] = xz] \/ from' = [from EXCEPT ![s] = None]
          BY <1>4, <2>2 DEF Gzip
        <4>2. QED
          BY <4>1, NamesTyped
      <3>4. Goto(s, "recompress") /\ UNCHANGED <<xz, gz, newer, left>> /\ UNCHANGED <<remote, rootfs, force, script>>
        BY <1>4, <2>2 DEF Gzip
      <3>5. QED
        BY <3>1, <3>2, <3>3, <3>4, CacheTyped, NamesTyped
    <2>3. QED
      BY <2>1, <2>2
  <1>5. CASE Recompressed(s)
    <2>1. content' \in [Inodes -> Contents]
      BY <1>5, WrittenTyped DEF Recompressed, Contents
    <2>2. Opens(s) /\ fd'[s] = None /\ from' \in [Sessions -> Inodes \cup {None}]
      BY <1>5, CloseTyped DEF Recompressed
    <2>3. CASE part = None
      <3>1. Goto(s, "failed") /\ UNCHANGED <<xz, gz, part, newer, left>> /\ UNCHANGED <<remote, rootfs, force, script>>
        BY <1>5, <2>3 DEF Recompressed
      <3>2. QED
        BY <3>1, <2>1, <2>2, CacheTyped, NamesTyped
    <2>4. CASE part # None
      <3>1. /\ Goto(s, "stat") /\ gz' = part /\ part' = None /\ newer' = TRUE
            /\ UNCHANGED <<xz, left>> /\ UNCHANGED <<remote, rootfs, force, script>>
        BY <1>5, <2>4 DEF Recompressed
      <3>2. QED
        BY <3>1, <2>1, <2>2, <2>4, CacheTyped, NamesTyped
    <2>5. QED
      BY <2>3, <2>4
  <1>6. CASE RecompressFails(s)
    <2>1. Opens(s) /\ fd'[s] = None /\ from' \in [Sessions -> Inodes \cup {None}]
      BY <1>6, CloseTyped DEF RecompressFails
    <2>2. QED
      BY <1>6, <2>1, CacheTyped, NamesTyped DEF RecompressFails
  <1>7. QED
    BY <1>1, <1>2, <1>3, <1>4, <1>5, <1>6 DEF Cache

LEMMA HostStepTyped ==
  ASSUME ConstantsAssumption, TypeOK, NEW s \in Sessions, Host(s)
  PROVE  TypeOK'
  <1> USE DEF HostLabels, Writing, Sending, Ended, ScriptLabels
  <1>1. CASE Cache(s)
    BY <1>1, CacheStepTyped
  <1>2. CASE Stat(s)
    <2>1. PICK to \in {"script", "push"} : Goto(s, to)
      BY <1>2 DEF Stat
    <2>2. QED
      BY <1>2, <2>1, DeviceTyped DEF Stat, TypeOK, remote
  <1>3. CASE Push(s)
    <2>1. PICK a \in {content[gz], "cut"} :
            /\ IF a = "cut" THEN Fault("push") ELSE UNCHANGED left
            /\ IF method = "adbd"
                 THEN stage' = a /\ UNCHANGED pushed
                 ELSE pushed' = [pushed EXCEPT ![s] = a] /\ UNCHANGED stage
            /\ \/ Goto(s, IF method = "adbd" THEN "script" ELSE "size")
               \/ a = "cut" /\ Goto(s, "failed")
      BY <1>3 DEF Push
    <2>2. gz \in Inodes /\ gz # None
      BY <1>3 DEF Push, TypeOK
    <2>3. a \in Contents \cup {"cut"}
      BY <2>1, <2>2 DEF TypeOK
    <2>4. left' \in 0..MaxFaults
      BY <2>1, FaultTyped DEF TypeOK
    <2>5. /\ stage' \in Contents \cup {"absent", "cut"}
          /\ pushed' \in [Sessions -> Contents \cup {"absent", "cut"}]
      BY <2>1, <2>3 DEF TypeOK
    <2>6. PICK to \in {"script", "size", "failed"} : Goto(s, to)
      BY <2>1
    <2>7. QED
      BY <1>3, <2>2, <2>4, <2>5, <2>6, DeviceTyped DEF Push, TypeOK
  <1>4. CASE Size(s)
    <2>1. PICK to \in {"move", "failed"} : Goto(s, to)
      BY <1>4 DEF Size
    <2>2. /\ stage' \in Contents \cup {"absent", "cut"}
          /\ pushed' \in [Sessions -> Contents \cup {"absent", "cut"}]
      BY <1>4 DEF Size, TypeOK
    <2>3. QED
      BY <1>4, <2>1, <2>2, DeviceTyped DEF Size, TypeOK
  <1>5. CASE Move(s)
    <2>1. left' \in 0..MaxFaults
      BY <1>5, FaultTyped DEF Move, TypeOK
    <2>2. /\ stage' \in Contents \cup {"absent", "cut"}
          /\ pushed' \in [Sessions -> Contents \cup {"absent", "cut"}]
      BY <1>5 DEF Move, TypeOK
    <2>3. QED
      BY <1>5, <2>1, <2>2, DeviceTyped DEF Move, TypeOK
  <1>6. CASE RunScript(s)
    BY <1>6, DeviceTyped DEF RunScript, ScriptAt, TypeOK, remote
  <1>7. CASE Verify(s)
    BY <1>7, DeviceTyped DEF Verify, TypeOK, remote
  <1>8. QED
    BY <1>1, <1>2, <1>3, <1>4, <1>5, <1>6, <1>7 DEF Host

LEMMA ScriptStepTyped ==
  ASSUME ConstantsAssumption, TypeOK, NEW s \in Sessions, Script(s)
  PROVE  TypeOK'
  <1> USE DEF ScriptLabels, TarSteps
  <1>1. CASE CreateImage(s)
    BY <1>1, ScriptTyped DEF CreateImage, ScriptAt, TypeOK
  <1>2. CASE Format(s)
    <2>1. tree' \in DOMAIN Rank
      BY <1>2 DEF Format, Rank
    <2>2. QED
      BY <1>2, <2>1, ScriptTyped DEF Format, ScriptAt, TypeOK
  <1>3. CASE MountImage(s)
    BY <1>3, ScriptTyped DEF MountImage, ScriptAt, TypeOK
  <1>4. CASE Unpack(s)
    BY <1>4, ScriptTyped DEF Unpack, ScriptAt, TypeOK, rootfs
  <1>5. CASE Tar(s)
    <2>1. tree' \in DOMAIN Rank
      BY <1>5 DEF Tar, TypeOK, Rank, Extracts
    <2>2. NextTar[script[s]] \in ScriptLabels
      BY <1>5 DEF Tar, NextTar
    <2>3. QED
      BY <1>5, <2>1, <2>2, ScriptTyped DEF Tar, ScriptAt, TypeOK
  <1>6. CASE TarFails(s)
    <2>1. left' \in 0..MaxFaults
      BY <1>6, FaultTyped DEF TarFails, TypeOK
    <2>2. script' \in [Sessions -> ScriptLabels]
      BY <1>6 DEF TarFails, ScriptAt, TypeOK
    <2>3. QED
      BY <1>6, <2>1, <2>2 DEF TarFails, TypeOK, cache, remote, rootfs
  <1>7. CASE Configure(s)
    BY <1>7, ScriptTyped DEF Configure, ScriptAt, TypeOK
  <1>8. CASE ScriptEnds(s)
    <2>1. script' \in [Sessions -> ScriptLabels]
      BY <1>8 DEF ScriptEnds, ScriptAt, TypeOK
    <2>2. CASE pc[s] = "wait"
      <3>1. PICK to \in {"verify", "failed"} : Goto(s, to)
        BY <1>8, <2>2 DEF ScriptEnds
      <3>2. QED
        BY <1>8, <2>1, <2>2, <3>1, DeviceTyped
        DEF ScriptEnds, TypeOK, remote, HostLabels, Writing, Sending, Ended
    <2>3. CASE pc[s] # "wait"
      BY <1>8, <2>1, <2>3, ScriptTyped DEF ScriptEnds, TypeOK, rootfs
    <2>4. QED
      BY <2>2, <2>3
  <1>9. QED
    BY <1>1, <1>2, <1>3, <1>4, <1>5, <1>6, <1>7, <1>8 DEF Script


LEMMA BeginTyped ==
  ASSUME ConstantsAssumption, TypeOK, NEW s \in Sessions, Begin(s)
  PROVE  TypeOK'
  <1>1. force' \in [Sessions -> BOOLEAN]
    BY DEF Begin, TypeOK, ConstantsAssumption
  <1>2. pc[s] \notin Writing
    BY DEF Begin, Active, Ended, Writing
  <1>3. QED
    BY <1>1, <1>2, DeviceTyped DEF Begin, TypeOK, remote, HostLabels, ScriptLabels, Writing, Sending

LEMMA FaultsTyped ==
  ASSUME ConstantsAssumption, TypeOK, NEW s \in Sessions, Quit(s) \/ Disconnect(s)
  PROVE  TypeOK'
  <1> USE DEF HostLabels, Writing, Sending, Ended
  <1>1. left' \in 0..MaxFaults
    BY FaultTyped DEF Quit, Disconnect
  <1>2. CASE Quit(s)
    <2>1. Opens(s) /\ fd'[s] = None /\ from' \in [Sessions -> Inodes \cup {None}]
      BY <1>2, CloseTyped DEF Quit
    <2>2. QED
      BY <1>1, <1>2, <2>1, CacheTyped, NamesTyped DEF Quit
  <1>3. CASE Disconnect(s)
    <2>1. script' \in [Sessions -> ScriptLabels]
      BY <1>3 DEF Disconnect, ScriptAt, ScriptLabels, TypeOK
    <2>2. PICK to \in {"verify", "failed"} : Goto(s, to)
      BY <1>3 DEF Disconnect
    <2>3. QED
      BY <1>1, <1>3, <2>1, <2>2, DeviceTyped DEF Disconnect, TypeOK, remote
  <1>4. QED
    BY <1>2, <1>3

LEMMA RebootTyped ==
  ASSUME ConstantsAssumption, TypeOK, Reboot
  PROVE  TypeOK'
  <1>1. left' \in 0..MaxFaults
    BY FaultTyped DEF Reboot
  <1>2. PICK to \in {"verify", "failed"} :
          pc' = [s \in Sessions |-> IF pc[s] = "wait" THEN to ELSE pc[s]]
    BY DEF Reboot
  <1>3. /\ pc' \in [Sessions -> HostLabels]
        /\ \A s \in Sessions :
             /\ pc'[s] \in Writing <=> pc[s] \in Writing
             /\ pc'[s] \in Sending => pc[s] \in Sending
    BY <1>2 DEF TypeOK, HostLabels, Ended, Writing, Sending
  <1>4. script' \in [Sessions -> ScriptLabels]
    BY DEF Reboot, ScriptLabels
  <1>5. UNCHANGED <<xz, gz, part, content, newer, fd, from, stage, pushed, method,
                    img, tree, conf, force>>
    BY DEF Reboot, cache, remote
  <1>6. mounted' \in BOOLEAN /\ conf' \in BOOLEAN /\ newer' \in BOOLEAN
    BY <1>5 DEF Reboot, TypeOK
  <1>7. \A s \in Sessions :
          /\ pc'[s] \in {"fetch", "recompress"} <=> fd'[s] # None
          /\ pc'[s] \in {"stat", "push", "size", "move"} => gz' # None
    <2>1. \A s \in Sessions : (pc[s] \in Writing <=> fd[s] # None) /\ (pc[s] \in Sending => gz # None)
      BY DEF TypeOK, Writing, Sending
    <2>2. QED
      BY <2>1, <1>3, <1>5 DEF Writing, Sending
  <1>8. /\ {xz', gz', part'} \subseteq Inodes \cup {None}
        /\ content' \in [Inodes -> Contents]
        /\ fd' \in [Sessions -> Inodes \cup {None}] /\ from' \in [Sessions -> Inodes \cup {None}]
        /\ stage' \in Contents \cup {"absent", "cut"}
        /\ pushed' \in [Sessions -> Contents \cup {"absent", "cut"}]
        /\ img' \in {"absent", "raw", "ok"} /\ tree' \in DOMAIN Rank /\ method' \in Methods
        /\ force' \in [Sessions -> BOOLEAN]
    BY <1>5 DEF TypeOK
  <1>9. QED
    BY <1>1, <1>3, <1>4, <1>6, <1>7, <1>8 DEF TypeOK, HostLabels, ScriptLabels

LEMMA StepTyped ==
  ASSUME ConstantsAssumption, TypeOK, [Next]_vars
  PROVE  TypeOK'
  <1>1. CASE UNCHANGED vars
    BY <1>1 DEF vars, cache, remote, rootfs, TypeOK
  <1>2. CASE Next
    BY <1>2, BeginTyped, HostStepTyped, ScriptStepTyped, FaultsTyped, RebootTyped DEF Next
  <1>3. QED
    BY <1>1, <1>2

\* Every reachable state is well typed, with concurrent runs and all faults: a
\* session that writes has a file open, and one that sends has an archive to send
\* (rootfs.py:92-149, adb.py:266-321).
THEOREM InstallTyped == Spec => []TypeOK
  <1>1. Init => TypeOK
    BY InitTyped, ConstantsAssumption
  <1>2. TypeOK /\ [Next]_vars => TypeOK'
    BY StepTyped, ConstantsAssumption
  <1>3. QED
    BY <1>1, <1>2, PTL DEF Spec

-----------------------------------------------------------------------------
(***************************************************************************)
(* One run of the command at a time.                                       *)
(***************************************************************************)
\* What the run in progress has done when it has come to a step: the file it
\* writes is the one called .part, and what it is about to move is whole.
Progress(s) ==
  /\ pc[s] \in Writing => fd[s] = part /\ content[fd[s]] = "short"
  /\ pc[s] = "move" => pushed[s] = "gz"

WholeInv ==
  /\ TypeOK
  /\ \A s, t \in Sessions : Active(s) /\ Active(t) => s = t
  /\ \A s \in Sessions : Progress(s)
  /\ part # None => part # gz
  /\ GzWhole
  /\ StageWhole

LEMMA InitWhole ==
  ASSUME ConstantsAssumption, Init
  PROVE  WholeInv
  BY InitTyped DEF Init, WholeInv, Active, Ended, Progress, Writing, GzWhole, StageWhole

\* s alone is active, before the step and after it.
LEMMA OneAtATime ==
  ASSUME WholeInv, NEW s \in Sessions, NEW to \in HostLabels, Goto(s, to), Active(s)
  PROVE  /\ \A t, u \in Sessions : Active(t)' /\ Active(u)' => t = u
         /\ \A t \in Sessions \ {s} : ~Active(t) /\ ~Active(t)' /\ fd[t] = None
         /\ pc' = [pc EXCEPT ![s] = to] /\ pc'[s] = to
  <1>1. pc' = [pc EXCEPT ![s] = to] /\ pc'[s] = to /\ \A t \in Sessions \ {s} : pc'[t] = pc[t]
    BY DEF WholeInv, TypeOK, Goto
  <1>2. \A t \in Sessions \ {s} : ~Active(t)
    BY DEF WholeInv
  <1>3. \A t \in Sessions \ {s} : fd[t] = None
    BY <1>2 DEF WholeInv, TypeOK, Active, Ended
  <1>4. QED
    BY <1>1, <1>2, <1>3 DEF Active

\* What s does to keep the invariant, when it is the only one to do anything.
LEMMA StepOfOne ==
  ASSUME WholeInv, TypeOK', NEW s \in Sessions, NEW to \in HostLabels, Goto(s, to), Active(s),
         Progress(s)', part' # None => part' # gz', GzWhole', StageWhole'
  PROVE  WholeInv'
  <1>1. \A t \in Sessions \ {s} : Progress(t)'
    BY OneAtATime DEF Progress, Active, Writing, Ended
  <1>2. QED
    BY <1>1, OneAtATime DEF WholeInv

\* Nobody else writes to the file that s opens: it is short until s has done.
LEMMA OpenAlone ==
  ASSUME WholeInv, NEW s \in Sessions, OpenPart(s), pc[s] \notin Writing,
         \A t \in Sessions \ {s} : fd[t] = None
  PROVE  /\ fd'[s] = part' /\ part' \in Inodes /\ part' # gz
         /\ content' = [content EXCEPT ![part'] = "short"]
  <1>1. fd \in [Sessions -> Inodes \cup {None}] /\ \A t \in Sessions : fd[t] = None
    BY DEF WholeInv, TypeOK, Writing
  <1>2. PICK n \in IF part # None THEN {part} ELSE {m \in Unused : \A k \in Unused : m <= k} :
          /\ part' = n
          /\ fd' = [fd EXCEPT ![s] = n]
          /\ content' = [content EXCEPT ![n] =
               IF \E t \in Writers(n) : Kind(t) # Kind(s) THEN "mixed" ELSE "short"]
    BY DEF OpenPart
  <1>3. n \in Inodes /\ n # gz
    BY <1>2 DEF WholeInv, TypeOK, Unused
  <1>4. n # None
    BY <1>3, ConstantsAssumption DEF ConstantsAssumption
  <1>5. Writers(n) = {}
    BY <1>1, <1>4 DEF Writers
  <1>6. QED
    BY <1>1, <1>2, <1>3, <1>5

\* What s has written is there, and nothing else has changed.
LEMMA WrittenAlone ==
  ASSUME WholeInv, NEW s \in Sessions, NEW data, Written(s, data), pc[s] \in Writing,
         \A t \in Sessions \ {s} : fd[t] = None
  PROVE  part \in Inodes /\ part # gz /\ content' = [content EXCEPT ![part] = data]
  <1>1. fd[s] = part /\ content[part] = "short" /\ part # None /\ part \in Inodes /\ part # gz
    BY DEF WholeInv, Progress, TypeOK, Writing
  <1>2. Writers(part) \ {s} = {}
    BY <1>1 DEF Writers
  <1>3. QED
    BY <1>1, <1>2 DEF Written

-----------------------------------------------------------------------------
LEMMA CacheStepWhole ==
  ASSUME WholeInv, ConstantsAssumption, NEW s \in Sessions, Cache(s)
  PROVE  WholeInv'
  <1>0. TypeOK' /\ Active(s)
    BY CacheStepTyped
    DEF WholeInv, Cache, Download, Fetched, FetchFails, Gzip, Recompressed, RecompressFails, Active, Ended
  <1>1. \A t \in Sessions \ {s} : fd[t] = None
    BY <1>0 DEF WholeInv, TypeOK, Active, Ended
  <1>2. StageWhole'
    BY DEF Cache, Download, Fetched, FetchFails, Gzip, Recompressed, RecompressFails,
           WholeInv, StageWhole, remote
  <1>3. CASE \E to \in HostLabels \ (Writing \cup {"move"}) :
               Goto(s, to) /\ GzWhole' /\ (part' # None => part' # gz')
    <2>1. PICK to \in HostLabels \ (Writing \cup {"move"}) :
            Goto(s, to) /\ GzWhole' /\ (part' # None => part' # gz')
      BY <1>3
    <2>2. Progress(s)'
      BY <2>1 DEF Progress, Goto, WholeInv, TypeOK
    <2>3. QED
      BY <1>0, <1>2, <2>1, <2>2, StepOfOne
  <1>4. ASSUME OpenPart(s), NEW to \in Writing, Goto(s, to), UNCHANGED gz, pc[s] \notin Writing
        PROVE  WholeInv'
    <2>1. /\ fd'[s] = part' /\ part' \in Inodes /\ part' # gz
          /\ content' = [content EXCEPT ![part'] = "short"]
      BY <1>1, <1>4, OpenAlone
    <2>2. Progress(s)'
      BY <2>1, <1>4 DEF Progress, Goto, WholeInv, TypeOK, Writing
    <2>3. GzWhole'
      BY <2>1, <1>4 DEF GzWhole, WholeInv, TypeOK
    <2>4. to \in HostLabels
      BY DEF Writing, HostLabels
    <2>5. QED
      BY <1>0, <1>2, <1>4, <2>1, <2>2, <2>3, <2>4, StepOfOne
  <1>5. ASSUME NEW data, Written(s, data), pc[s] \in Writing, UNCHANGED gz
        PROVE  GzWhole' /\ part # gz
    <2>1. part \in Inodes /\ part # gz /\ content' = [content EXCEPT ![part] = data]
      BY <1>1, <1>5, WrittenAlone
    <2>2. QED
      BY <2>1, <1>5 DEF GzWhole, WholeInv, TypeOK
  <1>6. CASE Download(s)
    <2>1. CASE xz # None /\ ~force[s]
      BY <1>3, <1>6, <2>1 DEF Download, HostLabels, Writing, WholeInv, GzWhole
    <2>2. CASE ~(xz # None /\ ~force[s])
      BY <1>4, <1>6, <2>2 DEF Download, Writing
    <2>3. QED
      BY <2>1, <2>2
  <1>7. CASE Fetched(s)
    <2>1. pc[s] \in Writing /\ UNCHANGED gz
      BY <1>7 DEF Fetched, Writing
    <2>2. GzWhole' /\ part # gz
      BY <1>5, <1>7, <2>1 DEF Fetched
    <2>3. \E to \in {"failed", "gzip"} : Goto(s, to)
      BY <1>7 DEF Fetched
    <2>4. part' # None => part' # gz'
      BY <1>7, <2>1 DEF Fetched, WholeInv
    <2>5. QED
      BY <1>3, <2>2, <2>3, <2>4 DEF HostLabels, Ended, Writing
  <1>8. CASE FetchFails(s)
    BY <1>3, <1>8 DEF FetchFails, HostLabels, Ended, Writing, WholeInv, GzWhole
  <1>9. CASE Gzip(s)
    <2>1. CASE gz # None /\ newer
      BY <1>3, <1>9, <2>1 DEF Gzip, HostLabels, Writing, WholeInv, GzWhole
    <2>2. CASE ~(gz # None /\ newer)
      BY <1>4, <1>9, <2>2 DEF Gzip, Writing
    <2>3. QED
      BY <2>1, <2>2
  <1>10. CASE Recompressed(s)
    <2>1. part \in Inodes /\ part # gz /\ content' = [content EXCEPT ![part] = "gz"]
      BY <1>1, <1>10, WrittenAlone DEF Recompressed, Writing
    <2>2. part # None
      BY <2>1 DEF ConstantsAssumption
    <2>3. gz' = part /\ part' = None /\ Goto(s, "stat")
      BY <1>10, <2>2 DEF Recompressed
    <2>4. GzWhole'
      BY <2>1, <2>3 DEF GzWhole, WholeInv, TypeOK
    <2>5. QED
      BY <1>3, <2>3, <2>4 DEF HostLabels, Writing
  <1>11. CASE RecompressFails(s)
    BY <1>3, <1>11 DEF RecompressFails, HostLabels, Ended, Writing, WholeInv, GzWhole
  <1>12. QED
    BY <1>6, <1>7, <1>8, <1>9, <1>10, <1>11 DEF Cache

LEMMA HostStepWhole ==
  ASSUME WholeInv, ConstantsAssumption, NEW s \in Sessions, Host(s)
  PROVE  WholeInv'
  <1>1. CASE Cache(s)
    BY <1>1, CacheStepWhole
  <1>2. TypeOK' /\ Active(s)
    BY HostStepTyped
    DEF WholeInv, Host, Cache, Download, Fetched, FetchFails, Gzip, Recompressed, RecompressFails,
        Stat, Push, Size, Move, RunScript, Verify, Active, Ended
  <1>3. ASSUME UNCHANGED cache, NEW to \in HostLabels \ Writing, Goto(s, to),
               to = "move" => pushed'[s] = "gz", StageWhole'
        PROVE  WholeInv'
    <2>1. Progress(s)'
      BY <1>3 DEF Progress, Goto, WholeInv, TypeOK
    <2>2. GzWhole' /\ (part' # None => part' # gz')
      BY <1>3 DEF GzWhole, WholeInv, cache
    <2>3. QED
      BY <1>2, <1>3, <2>1, <2>2, StepOfOne
  <1>4. CASE Stat(s)
    <2>1. \E to \in {"script", "push"} : Goto(s, to)
      BY <1>4 DEF Stat
    <2>2. StageWhole'
      BY <1>4 DEF Stat, WholeInv, StageWhole, remote
    <2>3. QED
      BY <1>3, <1>4, <2>1, <2>2 DEF Stat, HostLabels, Writing
  <1>5. CASE Push(s)
    <2>1. \E to \in {"script", "size", "failed"} : Goto(s, to)
      BY <1>5 DEF Push
    <2>2. StageWhole'
      BY <1>5 DEF Push, WholeInv, StageWhole
    <2>3. QED
      BY <1>3, <1>5, <2>1, <2>2 DEF Push, HostLabels, Ended, Writing
  <1>6. CASE Size(s)
    <2>1. gz # None /\ content[gz] = "gz"
      BY <1>6 DEF Size, WholeInv, TypeOK, GzWhole
    <2>2. PICK to \in {"move", "failed"} : Goto(s, to) /\ (to = "move" => pushed'[s] = "gz")
      BY <1>6, <2>1 DEF Size, SameSize
    <2>3. StageWhole'
      BY <1>6 DEF Size, WholeInv, StageWhole
    <2>4. QED
      BY <1>3, <1>6, <2>2, <2>3 DEF Size, HostLabels, Ended, Writing
  <1>7. CASE Move(s)
    <2>1. pushed[s] = "gz"
      BY <1>7 DEF Move, WholeInv, Progress
    <2>2. StageWhole'
      BY <1>7, <2>1 DEF Move, WholeInv, StageWhole
    <2>3. QED
      BY <1>3, <1>7, <2>2 DEF Move, HostLabels, Writing
  <1>8. CASE RunScript(s)
    <2>1. StageWhole'
      BY <1>8 DEF RunScript, WholeInv, StageWhole, remote
    <2>2. QED
      BY <1>3, <1>8, <2>1 DEF RunScript, HostLabels, Writing
  <1>9. CASE Verify(s)
    <2>1. \E to \in {"ok", "failed"} : Goto(s, to)
      BY <1>9 DEF Verify
    <2>2. StageWhole'
      BY <1>9 DEF Verify, WholeInv, StageWhole, remote
    <2>3. QED
      BY <1>3, <1>9, <2>1, <2>2 DEF Verify, HostLabels, Ended, Writing
  <1>10. QED
    BY <1>1, <1>4, <1>5, <1>6, <1>7, <1>8, <1>9 DEF Host

LEMMA BeginWhole ==
  ASSUME WholeInv, ConstantsAssumption, Serial, NEW s \in Sessions, Begin(s)
  PROVE  WholeInv'
  <1>1. TypeOK' /\ (\A t \in Sessions : ~Active(t))
    BY BeginTyped DEF Begin, WholeInv
  <1>2. pc' = [pc EXCEPT ![s] = "download"] /\ UNCHANGED <<cache, remote>>
    BY DEF Begin, Goto
  <1>3. pc'[s] = "download" /\ \A t \in Sessions \ {s} : pc'[t] = pc[t]
    BY <1>2 DEF WholeInv, TypeOK
  <1>4. \A t \in Sessions \ {s} : ~Active(t)'
    BY <1>1, <1>3 DEF Active
  <1>5. \A t \in Sessions : Progress(t)'
    BY <1>3, <1>4 DEF Progress, Active, Ended, Writing
  <1>6. QED
    BY <1>1, <1>2, <1>4, <1>5 DEF WholeInv, GzWhole, StageWhole, cache, remote

\* What happens on the device, and what the host hears of it, is beside the point.
Beside == /\ UNCHANGED <<cache, remote>>
          /\ \A t \in Sessions :
               \/ pc'[t] = pc[t]
               \/ pc[t] = "wait" /\ pc'[t] \in {"verify", "failed"}

LEMMA DeviceWhole ==
  ASSUME WholeInv, TypeOK', Beside
  PROVE  WholeInv'
  <1>1. \A t \in Sessions : Active(t)' => Active(t)
    BY DEF Active, Ended, Beside
  <1>2. \A t \in Sessions : Progress(t)'
    BY DEF WholeInv, Progress, Writing, cache, remote, Beside
  <1>3. QED
    BY <1>1, <1>2 DEF WholeInv, GzWhole, StageWhole, cache, remote, Beside

LEMMA ScriptWhole ==
  ASSUME WholeInv, ConstantsAssumption, NEW s \in Sessions, Script(s)
  PROVE  WholeInv'
  <1>1. TypeOK' /\ pc \in [Sessions -> HostLabels]
    BY ScriptStepTyped DEF WholeInv, TypeOK, HostLabels
  <1>2. UNCHANGED <<cache, remote>>
    BY DEF Script, CreateImage, Format, MountImage, Unpack, Tar, TarFails, Configure, ScriptEnds
  <1>3. CASE ScriptEnds(s)
    <2>1. Beside
      BY <1>1, <1>2, <1>3 DEF ScriptEnds, Goto, Beside
    <2>2. QED
      BY <1>1, <2>1, DeviceWhole
  <1>4. CASE ~ScriptEnds(s)
    <2>1. UNCHANGED pc
      BY <1>4 DEF Script, CreateImage, Format, MountImage, Unpack, Tar, TarFails, Configure
    <2>2. QED
      BY <1>1, <1>2, <2>1, DeviceWhole DEF Beside
  <1>5. QED
    BY <1>3, <1>4

LEMMA FaultsWhole ==
  ASSUME WholeInv, ConstantsAssumption, NEW s \in Sessions, Quit(s) \/ Disconnect(s)
  PROVE  WholeInv'
  <1>1. TypeOK' /\ pc \in [Sessions -> HostLabels]
    BY FaultsTyped DEF WholeInv, TypeOK, HostLabels
  <1>2. CASE Quit(s)
    <2>1. Active(s) /\ Goto(s, "failed") /\ UNCHANGED <<gz, part, content, remote>>
      BY <1>2 DEF Quit
    <2>2. Progress(s)'
      BY <2>1, <1>1 DEF Progress, Goto, Writing
    <2>3. QED
      BY <1>1, <2>1, <2>2, StepOfOne DEF HostLabels, Ended, WholeInv, GzWhole, StageWhole, remote
  <1>3. CASE Disconnect(s)
    <2>1. Beside
      BY <1>1, <1>3 DEF Disconnect, Goto, Beside
    <2>2. QED
      BY <1>1, <2>1, DeviceWhole
  <1>4. QED
    BY <1>2, <1>3

LEMMA RebootWhole ==
  ASSUME WholeInv, ConstantsAssumption, Reboot
  PROVE  WholeInv'
  <1>1. TypeOK' /\ UNCHANGED <<cache, remote>>
    BY RebootTyped DEF WholeInv, Reboot
  <1>2. QED
    <2>1. pc \in [Sessions -> HostLabels]
      BY DEF WholeInv, TypeOK, HostLabels
    <2>2. Beside
      BY <1>1, <2>1 DEF Reboot, Beside
    <2>3. QED
      BY <1>1, <2>2, DeviceWhole

LEMMA StepWhole ==
  ASSUME WholeInv, ConstantsAssumption, Serial, [Next]_vars
  PROVE  WholeInv'
  <1>1. CASE UNCHANGED vars
    <2>1. TypeOK' /\ UNCHANGED <<cache, remote, pc>>
      BY <1>1, StepTyped DEF WholeInv, vars
    <2>2. QED
      BY <2>1, DeviceWhole DEF Beside
  <1>2. CASE Next
    BY <1>2, BeginWhole, HostStepWhole, ScriptWhole, FaultsWhole, RebootWhole DEF Next
  <1>3. QED
    BY <1>1, <1>2

LEMMA WholeThroughout == Serial => (Spec => []WholeInv)
  <1> SUFFICES ASSUME Serial PROVE Spec => []WholeInv
    OBVIOUS
  <1>1. Init => WholeInv
    BY InitWhole, ConstantsAssumption
  <1>2. WholeInv /\ [Next]_vars => WholeInv'
    BY StepWhole, ConstantsAssumption
  <1>3. QED
    BY <1>1, <1>2, PTL DEF Spec

\* With one run at a time, the archive the cache calls gz is whole, whatever
\* downloads ended early, runs were interrupted or failed before
\* (rootfs.py:92-149). MCInstallTwo.cfg shows that Serial is needed.
THEOREM CacheWhole == Serial => (Spec => []GzWhole)
  <1>1. WholeInv => GzWhole
    BY DEF WholeInv
  <1>2. QED
    BY <1>1, WholeThroughout, PTL

\* With one run at a time, what push_root moves to the stage directory is whole,
\* however often pushes landed truncated (adb.py:299-321).
THEOREM StagedWhole == Serial => (Spec => []StageWhole)
  <1>1. WholeInv => StageWhole
    BY DEF WholeInv
  <1>2. QED
    BY <1>1, WholeThroughout, PTL

-----------------------------------------------------------------------------
(***************************************************************************)
(* What "done" means, when nothing goes wrong on the device.               *)
(***************************************************************************)
\* One run at a time, the device stays up and connected and has room, and what is pushed
\* is compared before it is staged.
Sound == /\ Serial
         /\ Faults \cap {"adb", "tar", "reboot"} = {}
         /\ "push" \in Faults => "adbd" \notin Methods

\* What a script on the device has done when it has come to a step.
Unpacked(s) ==
  /\ script[s] # "none" => pc[s] = "wait"
  /\ script[s] = "tar0" => tree = "empty"
  /\ script[s] \in {"tar1", "tar2"} => stage = "gz"
  /\ script[s] = "tar2" => tree = "sh"
  /\ script[s] = "tar1" => tree = "some"
  /\ script[s] \in {"config", "exit0"} => tree = "full"
  /\ script[s] = "exit0" => conf
  /\ pc[s] = "verify" => tree = "full" /\ conf
  /\ pc[s] = "wait" => script[s] # "none"

DoneInv ==
  /\ WholeInv
  /\ stage \in {"absent", "gz"}
  /\ \A s \in Sessions : Unpacked(s)
  /\ tree \in {"some", "sh"} => \E s \in Sessions : script[s] \in {"tar1", "tar2"}

\* Only the run in progress has a script on the device.
LEMMA DoneFocus ==
  ASSUME DoneInv, WholeInv', NEW s \in Sessions, Active(s),
         \A t \in Sessions \ {s} : pc'[t] = pc[t] /\ script'[t] = script[t],
         stage' \in {"absent", "gz"}, Unpacked(s)',
         tree' \in {"some", "sh"} => script'[s] \in {"tar1", "tar2"}
  PROVE  DoneInv'
  <1>1. \A t \in Sessions \ {s} : pc[t] \in Ended
    BY DEF DoneInv, WholeInv, Active
  <1>2. \A t \in Sessions \ {s} : pc'[t] \in Ended /\ script'[t] = "none"
    BY <1>1 DEF DoneInv, Unpacked, Ended
  <1>3. \A t \in Sessions : Unpacked(t)'
    BY <1>2 DEF Unpacked, Ended, TarSteps
  <1>4. QED
    BY <1>3 DEF DoneInv

\* The host's steps but the last two find no script, and leave none.
LEMMA HostDone ==
  ASSUME DoneInv, WholeInv', Sound, NEW s \in Sessions, Host(s) \/ Quit(s)
  PROVE  DoneInv'
  <1>1. TypeOK /\ Active(s) /\ pc[s] # "wait" /\ script[s] = "none"
    BY DEF DoneInv, WholeInv, Unpacked, Active, Ended, Quit, Host, Cache, Download, Fetched, FetchFails,
       Gzip, Recompressed, RecompressFails, Stat, Push, Size, Move, RunScript, Verify
  <1>2. UNCHANGED rootfs
    BY DEF Quit, Host, Cache, Download, Fetched, FetchFails,
       Gzip, Recompressed, RecompressFails, Stat, Push, Size, Move, RunScript, Verify
  <1>3. \E to \in HostLabels \ {"verify"} : Goto(s, to) /\ (to = "wait" => RunScript(s))
    BY DEF HostLabels, Ended, Quit, Host, Cache, Download, Fetched, FetchFails,
       Gzip, Recompressed, RecompressFails, Stat, Push, Size, Move, RunScript, Verify
  <1>4. /\ \A t \in Sessions \ {s} : pc'[t] = pc[t]
        /\ pc'[s] # "verify" /\ (pc'[s] = "wait" => RunScript(s))
    BY <1>1, <1>3 DEF Goto, TypeOK
  <1>5. /\ \A t \in Sessions \ {s} : script'[t] = script[t]
        /\ RunScript(s) => script'[s] = "image" /\ pc'[s] = "wait"
        /\ ~RunScript(s) => script'[s] = "none"
    BY <1>1 DEF TypeOK, ScriptAt, Goto, Quit, Host, Cache, Download, Fetched, FetchFails,
       Gzip, Recompressed, RecompressFails, Stat, Push, Size, Move, RunScript, Verify
  <1>6. stage' \in {"absent", "gz"}
    <2>1. CASE Push(s)
      <3>1. content[gz] = "gz"
        BY <2>1 DEF Push, DoneInv, WholeInv, GzWhole, TypeOK
      <3>2. method = "adbd" => ~Fault("push")
        BY <1>1 DEF Fault, Sound, TypeOK
      <3>3. QED
        BY <2>1, <3>1, <3>2 DEF Push, DoneInv
    <2>2. CASE Move(s)
      BY <2>2 DEF Move, DoneInv, WholeInv, Progress
    <2>3. CASE ~Push(s) /\ ~Move(s)
      BY <2>3 DEF DoneInv, Quit, Host, Cache, Download, Fetched, FetchFails,
         Gzip, Recompressed, RecompressFails, Stat, Size, RunScript, Verify, remote
    <2>4. QED
      BY <2>1, <2>2, <2>3
  <1>7. tree \notin {"some", "sh"}
    <2>1. \A t \in Sessions : script[t] # "none" => t = s
      BY <1>1 DEF DoneInv, WholeInv, Unpacked, Active, Ended
    <2>2. QED
      BY <1>1, <2>1 DEF DoneInv
  <1>8. Unpacked(s)'
    BY <1>4, <1>5 DEF Unpacked
  <1>9. QED
    BY <1>1, <1>2, <1>4, <1>5, <1>6, <1>7, <1>8, DoneFocus DEF rootfs

\* The steps of the script.
LEMMA ScriptDone ==
  ASSUME DoneInv, WholeInv', Sound, NEW s \in Sessions, Script(s)
  PROVE  DoneInv'
  <1>1. TypeOK /\ script[s] # "none" /\ Unpacked(s) /\ pc[s] = "wait" /\ Active(s)
    BY DEF DoneInv, WholeInv, Unpacked, Active, Ended, Script, CreateImage, Format, MountImage,
       Unpack, Tar, TarFails, Configure, ScriptEnds, TarSteps
  <1>2. stage' = stage /\ stage \in {"absent", "gz"}
    BY DEF DoneInv, remote, Script, CreateImage, Format, MountImage,
       Unpack, Tar, TarFails, Configure, ScriptEnds
  <1>3. script[s] \notin {"tar1", "tar2"} => tree \in {"empty", "full"}
    <2>1. \A t \in Sessions \ {s} : script[t] = "none"
      BY <1>1 DEF DoneInv, WholeInv, Unpacked, Active
    <2>2. QED
      BY <1>1, <2>1 DEF DoneInv, TypeOK, Rank
  <1>4. ASSUME NEW l, ScriptAt(s, l)
        PROVE  script'[s] = l /\ \A t \in Sessions \ {s} : script'[t] = script[t]
    BY <1>1, <1>4 DEF ScriptAt, TypeOK
  <1>5. ASSUME NEW l \in {"mke2fs", "mount", "unpack", "exit1", "tar0"}, ScriptAt(s, l), UNCHANGED pc,
               tree' \in {"empty", "full"}, l = "tar0" => tree' = "empty"
        PROVE  DoneInv'
    <2>1. Unpacked(s)'
      BY <1>1, <1>4, <1>5 DEF Unpacked
    <2>2. QED
      BY <1>1, <1>2, <1>4, <1>5, <2>1, DoneFocus
  <1>6. CASE CreateImage(s) \/ MountImage(s)
    BY <1>3, <1>5, <1>6 DEF CreateImage, MountImage
  <1>7. CASE Format(s)
    BY <1>5, <1>7 DEF Format
  <1>8. CASE Unpack(s)
    <2>1. UNCHANGED <<pc, tree, conf>> /\ tree \in {"empty", "full"}
      BY <1>3, <1>8 DEF Unpack, rootfs
    <2>2. CASE HasSh
      <3>1. ScriptAt(s, "config") /\ tree = "full"
        BY <1>8, <2>1, <2>2 DEF Unpack, HasSh
      <3>2. Unpacked(s)'
        BY <1>1, <1>4, <2>1, <3>1 DEF Unpacked
      <3>3. QED
        BY <1>1, <1>2, <1>4, <2>1, <3>1, <3>2, DoneFocus
    <2>3. CASE ~HasSh
      BY <1>5, <1>8, <2>1, <2>3 DEF Unpack, HasSh
    <2>4. QED
      BY <2>2, <2>3
  <1>9. CASE Tar(s)
    <2>1. stage = "gz" /\ UNCHANGED <<pc, conf>> /\ script[s] \in TarSteps
      BY <1>2, <1>9 DEF Tar
    <2>2. /\ ScriptAt(s, NextTar[script[s]])
          /\ tree' = IF Rank[Extracts[script[s]]] > Rank[tree] THEN Extracts[script[s]] ELSE tree
      BY <1>9 DEF Tar
    <2>3. CASE script[s] = "tar0"
      <3>1. tree' = "some" /\ ScriptAt(s, "tar1")
        BY <1>1, <2>2, <2>3 DEF Unpacked, Rank, Extracts, NextTar
      <3>2. Unpacked(s)'
        BY <1>1, <1>2, <1>4, <2>1, <3>1 DEF Unpacked
      <3>3. QED
        BY <1>1, <1>2, <1>4, <2>1, <3>1, <3>2, DoneFocus
    <2>4. CASE script[s] = "tar1"
      <3>1. tree' = "sh" /\ ScriptAt(s, "tar2")
        BY <1>1, <2>2, <2>4 DEF Unpacked, Rank, Extracts, NextTar
      <3>2. Unpacked(s)'
        BY <1>1, <1>2, <1>4, <2>1, <3>1 DEF Unpacked
      <3>3. QED
        BY <1>1, <1>2, <1>4, <2>1, <3>1, <3>2, DoneFocus
    <2>5. CASE script[s] = "tar2"
      <3>1. tree' = "full" /\ ScriptAt(s, "config")
        BY <1>1, <2>2, <2>5 DEF Unpacked, Rank, Extracts, NextTar
      <3>2. Unpacked(s)'
        BY <1>1, <1>4, <2>1, <3>1 DEF Unpacked
      <3>3. QED
        BY <1>1, <1>2, <1>4, <2>1, <3>1, <3>2, DoneFocus
    <2>6. QED
      BY <2>1, <2>3, <2>4, <2>5 DEF TarSteps
  <1>10. CASE TarFails(s)
    <2>1. stage # "gz"
      BY <1>10 DEF TarFails, Fault, Sound
    <2>2. tree \in {"empty", "full"}
      BY <1>1, <1>3, <2>1 DEF Unpacked
    <2>3. QED
      BY <1>5, <1>10, <2>2 DEF TarFails, rootfs
  <1>11. CASE Configure(s)
    <2>1. UNCHANGED <<pc, tree>> /\ tree = "full" /\ conf' /\ ScriptAt(s, "exit0")
      BY <1>1, <1>11 DEF Configure, Unpacked
    <2>2. Unpacked(s)'
      BY <1>1, <1>4, <2>1 DEF Unpacked
    <2>3. QED
      BY <1>1, <1>2, <1>4, <2>1, <2>2, DoneFocus
  <1>12. CASE ScriptEnds(s)
    <2>1. /\ UNCHANGED <<tree, conf>> /\ tree \in {"empty", "full"}
          /\ ScriptAt(s, "none") /\ Goto(s, IF script[s] = "exit0" THEN "verify" ELSE "failed")
      BY <1>1, <1>3, <1>12 DEF ScriptEnds, rootfs
    <2>2. /\ pc'[s] = IF script[s] = "exit0" THEN "verify" ELSE "failed"
          /\ \A t \in Sessions \ {s} : pc'[t] = pc[t]
      BY <1>1, <2>1 DEF Goto, TypeOK
    <2>3. Unpacked(s)'
      BY <1>1, <1>4, <2>1, <2>2 DEF Unpacked
    <2>4. QED
      BY <1>1, <1>2, <1>4, <2>1, <2>2, <2>3, DoneFocus
  <1>13. QED
    BY <1>6, <1>7, <1>8, <1>9, <1>10, <1>11, <1>12 DEF Script

LEMMA BeginDone ==
  ASSUME DoneInv, WholeInv', Sound, NEW s \in Sessions, Begin(s)
  PROVE  DoneInv'
  <1>1. /\ \A t \in Sessions : pc[t] \in Ended
        /\ UNCHANGED <<stage, tree, script>> /\ pc' = [pc EXCEPT ![s] = "download"]
    BY DEF Begin, Sound, Active, Goto, remote, rootfs
  <1>2. \A t \in Sessions : pc'[t] \notin {"verify", "wait"} /\ script[t] = "none"
    BY <1>1 DEF DoneInv, WholeInv, TypeOK, Unpacked, Ended
  <1>3. \A t \in Sessions : Unpacked(t)'
    BY <1>1, <1>2 DEF Unpacked
  <1>4. QED
    BY <1>1, <1>3 DEF DoneInv

LEMMA StepDone ==
  ASSUME DoneInv, Sound, [Next]_vars
  PROVE  DoneInv'
  <1>1. WholeInv'
    BY StepWhole, ConstantsAssumption DEF DoneInv, Sound
  <1>2. CASE UNCHANGED vars
    BY <1>1, <1>2 DEF vars, remote, rootfs, DoneInv, Unpacked
  <1>3. ~Reboot /\ \A s \in Sessions : ~Disconnect(s)
    BY DEF Reboot, Disconnect, Fault, Sound
  <1>4. QED
    BY <1>1, <1>2, <1>3, HostDone, ScriptDone, BeginDone DEF Next

\* An install that says "done" has unpacked the whole rootfs and configured it, whatever
\* downloads ended early, runs were interrupted or pushes landed truncated before, for
\* any number of runs one after the other (rootfs.py:151-209, install.sh:34-120).
\* Where the device reboots, the connection drops or tar fails, /bin/sh alone is
\* taken for a whole rootfs, and so is what a truncated push to the stage left.
THEOREM DoneMeansDone ==
  ASSUME Sound
  PROVE  Spec => DoneComplete
  <1>1. Init => DoneInv
    BY InitWhole, ConstantsAssumption DEF Init, DoneInv, Unpacked, TarSteps
  <1>2. DoneInv /\ [Next]_vars => DoneInv'
    BY StepDone
  <1>3. DoneInv /\ [Next]_vars =>
          [\A s \in Sessions : pc[s] # "ok" /\ pc'[s] = "ok" => tree = "full" /\ conf]_vars
    <2>1. SUFFICES ASSUME DoneInv, Next, NEW s \in Sessions, pc[s] # "ok", pc'[s] = "ok"
                   PROVE  tree = "full" /\ conf
      OBVIOUS
    <2>2. TypeOK /\ Unpacked(s)
      BY <2>1 DEF DoneInv, WholeInv
    <2>3. ASSUME NEW t \in Sessions, NEW l, Goto(t, l) PROVE pc'[s] = IF t = s THEN l ELSE pc[s]
      BY <2>2, <2>3 DEF Goto, TypeOK
    <2>4. Verify(s)
      <3>1. ~Reboot /\ \A t \in Sessions : ~Disconnect(t)
        BY DEF Reboot, Disconnect, Fault, Sound
      <3>2. PICK t \in Sessions : Begin(t) \/ Host(t) \/ Script(t) \/ Quit(t)
        BY <2>1, <3>1 DEF Next
      <3>3. ~Begin(t) /\ ~Quit(t)
        BY <2>1, <2>3 DEF Begin, Quit
      <3>4. ~Script(t)
        BY <2>1, <2>3 DEF Script, CreateImage, Format, MountImage, Unpack, Tar, TarFails, Configure,
           ScriptEnds
      <3>5. ~Cache(t) /\ ~Stat(t) /\ ~Push(t) /\ ~Size(t) /\ ~Move(t) /\ ~RunScript(t)
        BY <2>1, <2>3 DEF Cache, Download, Fetched, FetchFails,
           Gzip, Recompressed, RecompressFails, Stat, Push, Size, Move, RunScript
      <3>6. Verify(t)
        BY <3>2, <3>3, <3>4, <3>5 DEF Host
      <3>7. QED
        BY <2>1, <2>3, <3>6 DEF Verify
    <2>5. QED
      BY <2>2, <2>4 DEF Verify, Unpacked
  <1>4. QED
    BY <1>1, <1>2, <1>3, PTL DEF Spec, DoneComplete
=============================================================================
