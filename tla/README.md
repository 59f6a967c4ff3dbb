# A verification project for androlinux

androlinux runs a Linux distribution on an Android device: a host tool in Python
drives shell scripts on the device through `adb`. The distribution lives in an
ext4 image that is loop-mounted and entered with `chroot`. Several *instances*
(rootfs) may share a device. Nothing in the tool locks anything: what makes it
correct is the order of the steps in its scripts, and what each step looks at
before it acts. That is what these modules model.

Paths below are relative to `src/androlinux/`; `*.sh` are in `scripts/`.

## 1. Inventory

| Component | State it keeps | Operations | Interacts with |
|---|---|---|---|
| rootfs lifecycle: `container.py`, `up.sh`, `down.sh`, `resize.sh`, `remove.sh` | image file, `chroot-exec`, loop devices, mount table, processes rooted in the rootfs | `up`, `down`, `resize`, `remove`, `remove --all` | kernel (mounts, loop devices, /proc); other instances through path prefixes and `/dev/block/loop*` |
| enter and run: `container.py:132-211` | a staged command in the rootfs's /tmp | `is_up`, implicit `up`, chroot | lifecycle |
| instances: `config.py` | five module-level paths, rebound once by `use` | `use` | everything that reads them |
| install: `rootfs.py`, `install.sh` | host cache (`.tar.xz`, `.tar.gz`, `.tar.part`), stage directory, image, unpacked tree | `download`, `to_gzip`, `install` | adb transport, lifecycle (leaves the image mounted) |
| adb transport: `adb.py` | how root is had, whether the tmp directory exists | `raw`, `sh`, `script`, `push_root`, `pull`, `acquire_root` | carries everything; may lose a connection and report success |
| desktop: `gui.py`, `gui-start.sh`, `pick-display.sh` | recorded display, X sockets in the image, RFB ports, session processes | `start`, `start --restart`, `stop` | all instances share ports, process ids and uids, but not /tmp |
| on-device start and boot: `start.sh`, `boot.sh` | none of their own; what `autostart enable` wrote into them | tap on the widget, boot hook | `up.sh`, `gui-start.sh` |
| autostart: `autostart.py` | staged `up.sh`, desktop script, `boot.sh`, `start`, one Magisk hook | `enable`, `disable` | recorded display, lifecycle, boot |
| users, ssh: `users.py`, `sshd.py`, `user-add.sh`, `ssh-enable.sh` | passwd and group entries, `default-user`, sshd config and marker | `add`, `default`, `enable` | `up.sh` (restarts sshd), desktop (who runs it) |
| systemd: `systemd.py`, `systemd-start.sh` | pid file, a private pid and mount namespace | `start`, `stop`, `run_in` | mounts of the lifecycle. No subcommand of `cli.py` reaches it at this commit |
| web, viewers, screenshots: `gui.py:346-633` | one websockify, port forwards, staged files | `web`, `screenshot`, ... | desktop; the proxy is shared by all instances |
| probe: `probe.py`, `probe.sh` | none | reads and reports | |
| kernel builds: `kernel/*.sh` | none at run time | run by hand | |

What is hard here: two commands at once on one instance or on two; a teardown
against processes that fork; scripts cut in the middle by a lost connection, by
`set -e` or by a reboot, and the next command finding what they left; statuses
that report success for work never done; state that outlives its owner (X
sockets in the image, lazily detached mounts, attached loop devices, half a
cache); names that do not tell instances apart (processes by name, path
prefixes). `PROJECT.json` lists each of these hazards at its line, with the
properties that watch it, or why none does yet.

What makes each component correct:

- lifecycle: an image is never live twice (`NoSecondCopy`), never rewritten while
  live (`ResizeOffline`), never deleted while attached (`RemoveReclaims`); a `down`
  clears whatever it finds (`DownReleases`); what is entered is complete
  (`EnterComplete`); one instance leaves the others alone (`Others...Kept`, which the code does not keep).
- install: what is called an archive is whole on either side of the transfer
  (`GzWhole`, `StageWhole`); "done" is true (`DoneComplete`); repeating the command
  gets there (`RetryInstalls`).
- desktop: a display belongs to who uses it (`NoForeignDisplay`, `StartServes`); a live
  server can be reached (`SocketKept`); only a restart ends a desktop
  (`OwnDesktopKept`); nothing waits for ever (`StartsEnd`); reports are true (`TapReady`, `StopStops`, which
  the code does not keep).
- autostart: the hook is pointed at an instance last of all (`HookLast`); "enabled" is true and
  consistent (`OkIsTrue`); a boot delivers what was promised (`BootDelivers`) and ends (`BootEnds`).
- users, ssh, daemons, web: the account everything defaults to exists and has network
  (`DefaultUsable`); `up` brings back the sshd configured last, whatever was cut (`SshReturns`), and the daemons
  (`BusServes`, which it only says it did); a web page shows the display it was asked for (`WebServes`).
- run, systemd, screenshot, viewer: what one step leaves for the next is what the next one uses
  (`RunsOwn`, `ShotIsOwn`, `InstalledWhole`); a recorded pid is systemd's (`PidIsSystemd`, which the code does not keep).

## 2. Modules

| Module | What it is |
|---|---|
| `Rootfs` | image, mounts, loop devices, processes, and every step of the lifecycle scripts |
| `RootfsProps` | its properties, the inductive invariant, the refinement mapping |
| `ExclusiveImage` | the abstract promise: an image has at most one user at a time |
| `Desktop`, `DesktopProps` | displays, servers and sessions of all instances |
| `Install`, `InstallProps` | host cache, transfer, `install.sh` on the device, verification |
| `Autostart`, `AutostartProps` | what `autostart enable` stages, the shared hook, the boot |
| `Services`, `ServicesProps` | accounts, system daemons, sshd, the web proxy and its forwards |
| `Commands`, `CommandsProps` | files handed from step to step: `run`, `run_in`, screenshots, viewer downloads, systemd's pid file |
| `MCRootfs`, `MCDesktop`, `MCInstall`, `MCCommands` | values of the constants for TLC; `AutostartProps` and `ServicesProps` are checked as they are |
| `RootfsProofs`, `DesktopProofs`, `InstallProofs`, `AutostartProofs`, `ServicesProofs`, `CommandsProofs` | TLAPS proofs: inductive invariants, one lemma per step, the theorems (section 4) |

The modules meet where the code does: `up` and `down` are steps in `Rootfs` and one step
elsewhere, the boot that `Autostart` follows ends in the job whose steps are in `Desktop`, and
`run`, whose staging is in `Commands`, enters by the steps of `Rootfs`.

`Rootfs` also holds the head of `install.sh` (create, format, mount), because it
competes for the same mount point; `Install` has it again with the archive
behind it and without the mount stack. Definitions named under a comment `Mutant:`
are plausible wrong versions of the definition that follows them; no action uses
them, they show that each property can fail.

### Rootfs

A *session* is one command being carried out; `pc[s]` is the next step of its
script, `op[s]` and `inst[s]` what it was asked. `stack[i]` is what
`/proc/mounts` shows on instance `i`'s mount point, topmost first: the loop device of each
copy and the kernel file systems mounted in it. `backing[l]` and `auto` are the kernel's loop
devices, `root[p]` the device a process is rooted in, mounted or not. A device is
*live* if a copy on it is mounted or a process still holds it.

One action per step that another session can come between: `up.sh` checks the
image, checks the mount table, attaches, mounts (`mount -o loop` is two system
calls, between which `losetup -d` of another instance's `down` may come), then each
kernel file system, the binds, `chroot-exec` and `session-prep`. A teardown
lists the process ids, kills, takes the awk snapshot, unmounts one by one, detaches, and
for `remove` deletes. `Serial`, `Stragglers`, `Cuts` and `Reboots` say what the
environment does.

Abstractions: a kill loop and a detach loop are one step each (their races are
the ones with the steps before and after, which are separate); a process
that forks during a teardown, or takes its time to die, is `Stragglers`; sizes are left
out, so `resize` may refuse at will; the sub-mounts are the eight of
`KernelFs`, with `hw` for every bound device directory, and a copy has a set of them, so that what two `up` at once mount
twice is there once; with the rootfs gone from under it an `up` fails, where the code would mount into the bare
directory; a failed umount is one whose path no longer names a mount. `is_up` is a round trip: a lost answer
reads as "not up", and `enter` and `resize` go on as if it were so. `Cut` ends the script: the case where the
host gives up and the script runs on is a second session with `Serial` false.

### Desktop

`port[n]` is the server on display n's port, `socket` the X sockets in the
images, `coming` the servers spawned but not bound yet, `bus` the session processes
that `pgrep -x dbus-launch` finds. `Sees(u, v)`: root sees all processes, a user those of its uid,
which is 1000 in every instance, because /proc is mounted `hidepid=2`. A step of
`gui-start.sh` is one look or one deed: the port test, `vncserver -kill`, `pkill`, the
`rm`, the leftovers, the launch, the poll. A server may exit with its session or survive
it (`SessionsDie`), both of which the comments of the scripts report. `vncserver -kill` may miss its server, whose pid file
is stale (`VncKill`); a `Slow` server may outlive the wait after a kill, or bind after its start gave up.
`Down` and `Reboot` end processes and leave sockets and records behind. The mount side is
reduced to `up`: `Rootfs` has the rest.

### Install

The cache is modelled by inodes, since `.part` is one *name* for the temporary
file of the download and of the recompression (`foo.tar.xz` and `foo.tar.gz`
both give `foo.tar.part`) and a writer keeps writing to the file it opened. The
archive is the only one; a file holds `"short"`, `"mixed"`, or a whole `"xz"` or
`"gz"`. Sizes compare as contents do. The device side is a script of its own
(`script[s]`), which goes on or not when the connection is lost. `tree` says
how far tar has come: `"sh"` is the moment `/bin/sh` exists. `MaxFaults` bounds how many faults
happen; `Faults` says which.

### Autostart

`file[i][f]` is what each staged file holds. Every file is truncated by one action and
filled by the next, so a cut, or a full file system under a script without `set -e`, leaves it
`"short"`. `enable` asks for the display once (`ReadDisplay`) and bakes it into two
files; whether Magisk is there is another question to the device, and a lost
answer (`"deaf"`) is an empty one. `hook` is one name for all instances. `boot` is
`boot.sh`: the wait for an image that only an unlocked device shows, `up.sh`, the desktop script.
`promise` is not in the code: it remembers what the last successful command said a
boot would do, for `OkIsTrue` and `BootDelivers`. `disable` does not look at the status of its `rm`. A repeated `enable` truncates
in place what the hook already runs, and a removal leaves the hook: `HookLast` is about the step that points the hook,
`BootsStaged`, of every boot, is violated.

### Services

Daemons, sshd and the proxies are sets of processes; `pgrep` and `pkill` find
those of every instance, a port has one owner, and a process keeps the configuration it read
when it started (`sshd` against `conf`). A daemon that is started may not come up and one that runs may die; nobody looks
(`StartDaemons`, `Crash`). sshd is started in the background (`coming`) and listens, or does not, by a step of its
own (`Bind`): not on a port another process has, nor with a configuration it refuses (`BadPorts`). `ssh enable`
truncates the configuration, writes it, sets the marker and only then has it tested (`Truncate`, `Configure`, `Mark`,
`Validate`), so a cut leaves an empty configuration, which is sshd's own (`Stock`), or a refused one under a marker that
is set. `uid` and `inet` are the accounts:
`user-add.sh` renames the placeholder on uid 1000, or takes the next free uid, adds the
groups, and the host records the name last. `forward` holds what `adb forward` was told.
Keys, sudoers and shells are left out, and so is the forward of a VNC port (`gui.py:339`), which nothing here relies on.

### Commands

A *call* is a command carried out once; each of its round trips is a step. `tmp[i][f]` is
whose command a file of the rootfs's /tmp holds, `late` the writes of scripts
whose caller gave up, `procs` the processes whose pids matter, `part` and `dest` the
names of the viewer's package on the host and `apk` the inodes behind them, since a
download goes on writing to the file it opened. `pidfile` survives reboots, processes end by themselves (`Exit`) and pids
are recycled. `Faults` says what may go wrong with a staged file: a script without `set -e` may leave an old one in
place and go on. A pull, a download and an `adb install` may fail. Starting systemd also unmounts the rootfs's /proc
(`systemd-start.sh:73-75`); that is left out, since no file followed here is below it.
`ran`, `inside` and `got` record what came of a call, for the properties.

## 3. Runs

Each run asks a question of its own; each property of a passing run has a mutant in
`PROJECT.json`, a plausible bug of the code that breaks it.

| Run | Question | Result |
|---|---|---|
| `rootfs_serial` | serial commands, cut anywhere, reboots: the inductive invariant, one live copy, offline resize, reclaiming, refinement of `ExclusiveImage` | holds |
| `rootfs_enter` | is looking at the mount point enough for `up` and `enter`? (two instances, late kills, reboots) | holds without cuts and without `install` |
| `rootfs_down` | does one undisturbed `down` clear what concurrent and cut commands left? | holds |
| `desktop_serves` | does a successful start own its port? (two instances, root and users) | holds without hard stops |
| `desktop_kept` | do taps and starts leave one's own desktop alone, and its socket? | holds, serially, one instance |
| `desktop_ends` | does every start end? (two at once, slow servers, crashes, downs) | holds |
| `install_faults` | archives whole through any three faults | holds |
| `install_retry` | does repeating install get there, and is "done" true? | holds for host-side faults and cut pushes |
| `autostart` | is the hook pointed last, and does a boot do what a successful `enable` said, through cuts, removals and a locked device? | holds, one instance, without full file systems and lost answers |
| `services` | is the recorded account usable, does `up` bring back the sshd configured last, and does the proxy that answers show the display asked for, through cuts, refused ports, crashes and reboots? | holds, one instance, one command at a time, logins for the default account, placeholder's name not given away |
| `commands` | is what a step leaves for the next its own and whole, with three commands at once, late writes and recycled pids? | holds, one screenshot and one systemd command at a time, two viewer downloads |
| `install_full` | is "done" true when tar may fail? (`rootfs.py:209`) | **violated**: a failed tar is "already unpacked" the next time |

`install_full` is the finding of `PROJECT.json`, with the line of the
code and the line that says otherwise.

Every "without" in the table is a condition the code needs and does not establish. A
configuration beside the module drops each of them, and TLC finds the
property violated (`tlc -config X.cfg MCRootfs`, or the `MC` module of that name; `AutostartProps` and `ServicesProps` for
`MCAutostartLoose` and `MCServices...`). TLC stops at the first; where a
configuration lists several properties, each of them is violated, and keeping its line alone shows its counterexample:

| Configuration | What TLC finds |
|---|---|
| `MCRootfsTwoUps` | `NoSecondCopy`: two `up` mount one image twice, check and mount are not one step (`up.sh:43`) |
| `MCRootfsStraggler` | `NoSecondCopy`: a process forked during `down` leaves a copy live behind a lazy unmount; the next `up` mounts a second (`down.sh:29`). `ResizeOffline`: that copy is not in `/proc/mounts`, so `resize` works on a live image (`resize.sh:48`) |
| `MCRootfsHalfUp` | `UpComplete`: an `up` cut inside the /dev block is never completed by another (`up.sh:84`) |
| `MCRootfsAfterInstall` | `EnterOpens`: after `install` the rootfs is mounted, taken for up, and has no `chroot-exec` (`container.py:189`), although `cli.py:65` says `enter` opens a shell |
| `MCRootfsPrefix` | `OthersProcessesKept`: removing `ubuntu` kills processes in `ubuntu22` (`remove.sh:31`) |
| `MCRootfsForeignLoop` | `OthersDevicesKept`: `down` detaches a device another instance's `up` has just attached (`down.sh:39`). `DownReleases`: that `up` then mounts what the device has been given since, another instance's image, which a `down` of its owner leaves there |
| `MCRootfsUnnamed` | `OthersMountsKept`: removing the unnamed instance unmounts the named ones (`remove.sh:39`, against its own message, `remove.sh:73`) |
| `MCDesktopOthers` | `OthersDesktopKept`: a start clears another instance's desktop as a leftover (`gui-start.sh:178-179`) |
| `MCDesktopWidget` | `TapReady`: a tap reports another instance's desktop (`start.sh:36`, `start.sh:57`) |
| `MCDesktopStaleSocket` | `NoForeignDisplay`: a socket left by a hard stop passes for one's own server (`pick-display.sh:31`) |
| `MCDesktopDeadSession` | `UntouchedIsAlive`: a dead session is left untouched by the rebuild meant for it (`gui-start.sh:134`) |
| `MCDesktopDoubleTap` | `OwnDesktopKept`: a second tap kills what the first brought up (`gui-start.sh:178`) |
| `MCDesktopStopUser` | `StopStops`: `gui stop` misses a session run as a user (`gui.py:331`) |
| `MCDesktopSlowServer` | `SocketKept`: a repeated start unlinks the socket of a slow server (`gui-start.sh:173`) |
| `MCInstallFull` | `DoneComplete`: a tree that stops after `/bin/sh` passes the verification (`rootfs.py:207`), after a failed tar (the run `install_full`) and, with `Faults = {"adb"}` or `{"reboot"}`, after a lost connection or a reboot |
| `MCInstallReboot` | `RetryInstalls`: a reboot between `truncate` and `mke2fs` blocks every later install (`install.sh:34`) |
| `MCInstallTwo` | `GzWhole`: two installs share one `.part` and publish a broken archive (`rootfs.py:131`) |
| `MCAutostartLoose` | `OkIsTrue`: a script staged on a full file system is short and reported as staged; `BootsStaged`: a repeated `enable`, or a removal, leaves a hook without its files (`autostart.py:116-124`); `OthersBootKept`: one hook name for all (`autostart.py:32`); `BootedIsRecorded`: a display picked later is not the staged one (`autostart.py:64`). With `Faults = {"deaf"}`, `disable`'s ignored status breaks `OkIsTrue` as well |
| `MCServicesTwo` | `SshReturns`: two sshd want one port; `WebServes`, `OthersWebKept`: every proxy is killed by name (`gui.py:380`) |
| `MCServicesBus` | `BusServes`: nobody looks whether a daemon came up (`up.sh:242`), and `up.sh:261` says that all is ready |
| `MCServicesLoose` | `DefaultUsable`: an account given a placeholder's name is renamed by the next `user add`; `SshServes`: a changed port is not taken up while any sshd runs (`ssh-enable.sh:72`); `SshReturns`: for `--user` of an account that does not exist; `NeverRefused`: the marker is set before the configuration is tested (`ssh-enable.sh:66-69`); `NeverStock`: a cut leaves an empty configuration under an old marker (`ssh-enable.sh:35`); `StopDrops`: only the default port's forward is dropped (`gui.py:339`) |
| `MCCommandsSystemd` | `PidIsSystemd`: a process of the rootfs with a recycled pid passes for systemd (`systemd.py:43`, against `systemd.py:33`) |
| `MCCommandsShared` | `ShotIsOwn`: two screenshots share a staged file (`gui.py:624`); `InstalledWhole`: three viewer calls share one `.part` (`gui.py:436`); `RunInOwn`: one staged name for concurrent `run_in` (`systemd.py:116`); `RunInInside`: systemd ends, or is another process, by the time of the `nsenter` (`systemd.py:112-127`); `OneInit`, `StartStarts`, `StartReports`: two starts, that pid again, and a pid file path computed before the instance is chosen (`config.py:45`) |

Met on the way and not modelled: `README.md:719-721` and `FINDINGS.md:744` say `up`
verifies the mount flags; only `install.sh` does.

### Bounds

- Loop devices: two, so that a second copy is possible, and three where copies are left behind
  (`rootfs_enter`). Running out of them is `AttachFails`, which fires in the runs with two.
- Processes: two where one has to fork the other during a teardown, or two instances have one each, one elsewhere:
  properties speak of one process and of one device.
- Sessions: one where `Serial` holds (a session is reused for the next command),
  two for a race; the double tap needs two taps and the jobs they leave. The races found take two.
- Instances: one for what an instance does to itself, two for what it does to another:
  all the code's cross-instance effects are pairwise (prefix, parent directory, port, name).
- Displays: two, so that there is somewhere else to go and a way to run out of displays.
- Install: three faults in any order, four for the retry; four inodes (two names and
  two open files). The tree has four states, one for each answer the code can get.
- Autostart: one instance (the hook is shared, and what two do to it is `OthersBootKept`), two displays, so that the
  recorded one can change; one try of boot.sh's 120, as each try is the same step.
- Services: one instance and one session, a port sshd takes and one it refuses, and two displays for the proxy, so that
  each can change between two commands; uids up to 1003 let every name have one of its own.
- Commands: three calls, so that two can meet over what a third has left; at most two of them viewers, the number up
  to which `InstalledWhole` holds; two pids, so that a recorded one can be systemd's or another's.
- Symmetry over sessions, loops, processes and instances is used in safety runs
  only, and only where no constant tells the elements apart.

### Fairness

`FairSpec` of `Desktop` is weak fairness of each session's own
next step, nothing else: the scripts contain no wait without a counter, and the host waits for them
with a timeout, so a script that can take a step takes it. `Rootfs` states no fairness: its
scripts have no loop but over a list read once, and its properties are about what a step may do. Servers, sessions, processes and
operators owe nothing. `FairSpec` of `Install` adds weak fairness of beginning the command,
which is the promise itself: *if* the operator runs it again after each
failure. Faults are never fair, and bounded. `FairSpec` of `Autostart` is weak fairness of the boot's own step: boot.sh
counts its looks for the image. Nobody is obliged to unlock the device. `BootEnds` speaks of runs whose reboots
stop; a device that reboots for ever never boots. `Services` and `Commands` state no fairness.

## 4. Proofs

`RootfsProofs` proves, for all sets of instances, sessions, processes and devices:

- `TypeCorrect`: `Spec => []TypeOK`, with everything the environment may do. The
  type invariant includes that an active session has a command and an instance, and a device
  when it is about to mount; each is needed to type the next step.
- `SerialCorrect`: `Spec => []SerialInv` when `Serial` holds and `Stragglers` does not.
- `SerialOneCopy`, `SerialResize`, `SerialReclaims`: `NoSecondCopy`, `ResizeOffline`, `RemoveReclaims`
  under the same conditions.
- `SerialExclusive`: the refinement `ImageExclusive`, under the same conditions.

The conditions are the ones the configurations `MCRootfsTwoUps` and `MCRootfsStraggler` show to be
necessary: each drops one of them. Cut scripts and reboots at any step are allowed, and any number of instances
with any path prefixes.

None of them is inductive. `SerialInv` adds: one session is active; a mount point
holds at most one copy, on a device attached to that image (`OneLayer`); every process is in a mounted
copy (`NoneDetached`); and, for each step of a script, what the steps before it have
established (`AtMount`, `AtTeardown`, `AtResize`). The heart of it is the
teardown: the listed ids include every process, so the kill leaves nobody in scope, so no
umount is lazy, so every listed mount point is gone before `Detach`, so its devices are
free before `Delete`. A cut at any of these steps may leave mounts or attached
devices, but no copy that is live and not in the mount table, and that is all the next command relies on. The
proof has one lemma per step of the scripts, and one per act of the environment.

The refinement adds `FileInv`: an absent file is attached to nothing, one without a filesystem is not mounted, and
`mke2fs` works on the file just created. Under `SerialInv` the users `ImageExclusive` counts are the
copies in the mount table (`UsersAreCopies`), so each step is a step of the promise about the table: create,
format, grow, mount, release, delete, or none.

Constants are assumed only to be of their types, each path to be its own prefix, and the unnamed instance's directory to
hold all (`ConstantsAssumption`, evaluated by TLC in every run).

`SerialReclaims` also covers the unnamed instance, which no passing run of `RemoveReclaims` includes.

The other theorems about `Rootfs` do without `SerialInv`, and allow processes that fork or do not die at once:

- `UpCompletes`, `EntersComplete`: `UpComplete` and `EnterComplete`, when commands are serial, run to their end, and `install` is not one of them (`Orderly`; `MCRootfsHalfUp` and `MCRootfsAfterInstall` drop the last two).
  `KindInv` says which steps belong to which command. `ReadyInv` adds that a mount point nobody is at work on is
  empty or complete with its `chroot-exec` (`Ready`), and that an `up` at work has mounted what comes before its step (`Way`). A reboot is
  harmless because it empties every mount point.
- `DownsRelease`: `DownReleases`, for one instance with concurrent commands, or for any number with serial ones; with both
  it fails (`MCRootfsForeignLoop`). `DownInv` counts: an undisturbed umount loop still has as many root mounts on its list as there
  are copies stacked, whichever copies those are by now, so that at the end of the list there are none. It is proved for every system.
  `OwnInv` adds, for serial commands, that the device of each copy is attached to the image of the
  instance it is mounted for, also where processes keep a copy that has left the mount table.

`InstallProofs`, for all sets of sessions and inodes, every fault and any bound on faults:

- `InstallTyped`: `Spec => []TypeOK`, concurrent runs included.
- `CacheWhole`, `StagedWhole`: `GzWhole` and `StageWhole` when `Serial` holds; `MCInstallTwo` shows it is
  needed. The invariant `WholeInv` adds that one run is active, that a file being
  written is the one `.part` names and is not taken for whole, that `.part` is never the cached archive itself,
  and that a session about to move a push has a whole one.
- `DoneMeansDone`: `DoneComplete`, if besides the device does not reboot, the connection stays, tar does not fail, and
  pushes are not both cut and made without `su` (`Sound`). `DoneInv` adds to `WholeInv` that the stage holds nothing
  or the whole archive, that a tree with a part of the rootfs in it belongs to the script that is unpacking (nobody meets one
  later and takes its `/bin/sh` for the whole), and what each step of `install.sh` finds done. Each condition is needed: `MCInstallFull`
  shows it for the connection, the device and tar, and `MCInstallRetry.cfg` with `Faults = {"reboot"}`, with
  `Methods = {"adbd"}` and `Faults = {"push"}`, or with a second session and `Serial = FALSE`, for the others.

`DesktopProofs`, for any instances, sessions and displays, root's sessions and users', restarts, taps, downs and reboots:

- `DesktopTyped`: `Spec => []TypeOK`, with any number of starts at once.
- `KeptSockets`: `SocketKept`, when commands are serial and a server binds while it is waited for (`~Slow`).
  `SocketInv` adds that at most a tap and the job it left are at work, that a spawned server is the one its start is
  waiting for (`Spawned`), and what the steps on the way to the launch have seen to: the port closed, the socket gone.
- `OwnDisplayPicked`: `NoForeignDisplay`, if besides no server is ended from outside (`~HardStops`): every socket then
  has its server (`Backed`), and what was closed when it was looked at is still closed (`SeenStill`).
- `SuccessfulStartServes`: `StartServes`, if besides nothing crashes: a session past its poll has its server (`Reached`).
- `OwnDesktopStays`: `OwnDesktopKept`, when commands are serial, servers not slow, and the instance's desktop has one place
  (`Home`): the display recorded last, as nobody asks for another, or, where the boot scripts are used, the first, for one
  instance and without crashes. `HomeInv` adds to `SocketInv` that every server is at that place and its rootfs up
  (`Sited`), and that a start works there (`AtHome`): having found its port closed it has no server of its own to clear
  away as a leftover. The case that is hard is the choice: what `pick-display.sh` records moves the place, so
  it must return the old one whenever a server is there, which takes the socket (`SocketKept`) and the mount (`Sited`).

TLC finds `OwnDesktopKept` violated when any part of `Home` is dropped: in `MCDesktopKept.cfg`, `Crashes = TRUE` (a server that dies between
the look and the choice sends the start to the second display, and the next boot to the first), a second
instance, or `Wants = {None, 1, 2}`; and with `Slow = TRUE`. `MCDesktopDoubleTap` drops `Serial`.

`MCDesktopSlowServer` and `MCDesktopStaleSocket` show that `~Slow` and `~HardStops` are needed. In a system without
`Slow` the serial condition is what keeps a second start from binding between another's look and its launch.

`AutostartProofs`, for any instances and displays, commands cut anywhere, other commands in between,
removals and reboots:

- `AutostartTyped`: `Spec => []TypeOK`, with any number of commands at once and every fault. `TypeInv` adds that who
  writes a display has read one.
- `HookedLast`: `HookLast`, lost answers included, provided that one command runs at a time and no file system is
  full (`Used`). It is about the step that points the hook; what the hook runs may be truncated later (`BootsStaged`).
- `BootsDeliver`: `BootDelivers`, under the same condition.
- `ReportedTrue`: `OkIsTrue`, if besides no answer is lost: `disable` ignores the status of its `rm`.

`MCAutostartLoose` shows that the last needs room and answers. The invariant `EnableInv` says that one
command is active and, for each step of `enable`, what the ones before it have established: `up.sh` whole,
the rootfs mounted while `gui-start` is written into it, `gui-start` with the display that was read, `boot.sh` of the
kind asked for, the hook. That it is written in this order, and that nothing else writes meanwhile, is the proof.
`PromiseInv` adds for `BootsDeliver` that as long as a promise stands, its files do (`Kept`), and that a boot
which came of it is on one of the steps that lead to the promised desktop (`Underway`).

`ServicesProofs`, for any instances, names, ports and displays, commands cut anywhere, crashes and reboots:

- `AccountsUsable`: `DefaultUsable`, with commands at once, provided `Distinct`: no account is added under a name the
  script takes for a placeholder. `AccountInv` adds what a `user add` has established before it records.
- `ServicesTyped`: `TypeOK`, when commands are serial: a teardown between another command's look at the mount table and
  its launch leaves a process the model would otherwise put in an unmounted rootfs. `SerialInv` adds
  that the rootfs of a command past its mount step stays mounted (`Mounted`).
- `OwnProxyAnswers`: `WebServes`, serially, for any number of instances: the proxies are killed by name before one is
  started, so the one that answers is new.
- `SshdReturns`: `SshReturns`, with commands at once, for one instance, `Distinct`, and logins for the
  default account (`ForDefault`): a successful `up` has started, or found, an sshd on the port configured last, and
  one that is started ends up listening, or finds one of its instance that does, unless its configuration is empty or
  refused. `Allowed` adds that who is let in, by a configuration that is not empty, is an account that exists, from the
  login that configures it on through every process that read it.

`MCServicesTwo` and `MCServicesLoose` show that `Single`, `Distinct` and `ForDefault` are needed.

`CommandsProofs`, for any number of calls, instances and pids, and every fault:

- `CommandsTyped`: `Spec => []TypeOK`. A control graph (`Follows`) says which step may follow which; `ProcsOK` that
  a pid has one process, `InodesOK` that `.part` never names the package in use.
- `ExecutesOwn`: `RunsOwn`. `CommandInv` adds that a file under a call's name, and every late write to it, is that call's.
- `OwnScreenshot`: `ShotIsOwn`, when screenshots come one at a time and no copy lands late, or when root needs no staged
  copy (`Unshared`).
- `WholeViewer`: `InstalledWhole` with at most two viewer calls (`Paired`). The invariant says who may
  still write to the inode that is cached: the second truncates what the first has verified and is about to move into
  place, but nobody installs it then.

`MCCommandsShared` shows that both conditions are needed.

Every safety property that a passing run checks is a theorem. Only model-checked is liveness (`StartsEnd`,
`RetryInstalls`, `BootEnds`): fairness is out of the prover's reach.

## 5. What is not modelled

- The contents of files inside a rootfs, SELinux, apt, sizes (so a `resize` repeated after
  a failure may be refused or not); sudoers, shells and keys of accounts.
- `adb.py:126-262`: which device and which way to root is found. It keeps no state that
  changes afterwards; `Methods` and `Method` are its result. Quoting likewise.
- In `Install`, a run that ends closes what it was writing. xz and gzip, which outlive a host tool that is killed alone
  (`rootfs.py:132-137`), would go on into the `.part` that the next run truncates: the race of `MCInstallTwo`.
- `cli.py`'s argument parsing, `viewer --apk`, and which Android app `am start` opens.
- `probe.py` reads and reports; `kernel/` is run by hand on the host. Neither keeps
  state of the running system.

## 6. Plan

Done: `Rootfs` (first, as every command rests on it), `ExclusiveImage`, `Desktop`, `Install`, then `Autostart`,
`Services` and `Commands`; the proofs of section 4.

What is left, in this order:

1. Theorems for what only violated configurations state so far, under the conditions that make it true:
   `UntouchedIsAlive` without crashes and `StopStops` for root's sessions.
2. Sizes in `Rootfs`' `resize` (two-valued), for the retry that is refused.
3. `Autostart` with the steps of `Desktop`'s boot job in place of its one step.
