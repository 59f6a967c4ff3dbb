--------------------------- MODULE CommandsProps ---------------------------
(***************************************************************************)
(* What a command may rely on in the files its steps leave for each other. *)
(***************************************************************************)
EXTENDS Commands

\* Every process has a pid of its own and belongs to a mounted rootfs if to any, and
\* the package under download is never the one in use (gui.py:451).
TypeOK ==
  /\ up \subseteq Instances
  /\ tmp \in [Instances -> [Names -> Calls \cup {None, Broken}]]
  /\ staged \in Calls \cup {None, Broken}
  /\ procs \subseteq Process
  /\ \A p, q \in procs : p.pid = q.pid => p = q
  /\ \A p \in procs : p.inst \in up \cup {None}
  /\ pidfile \in [Instances -> Pids \cup {None}]
  /\ part # None => part # dest

\* The command that is executed inside the rootfs, and whose status a run or a
\* screenshot reports, is the one its caller gave: whatever other commands, writes
\* that fail or come late, cuts, teardowns and reboots happen between staging it
\* and executing it (container.py:144-161).
RunsOwn ==
  \A c \in Calls : cmd[c].op \in {"run", "shot"} /\ cmd[c].ran # None => cmd[c].ran = c

\* A screenshot that succeeds brings its own picture to the host, not one an
\* earlier screenshot left behind (gui.py:624-633).
ShotIsOwn ==
  \A c \in Calls : cmd[c].op = "shot" /\ cmd[c].pc = "ok" => cmd[c].got = c

\* A file in the host's cache that is installed has the expected contents, with two
\* downloads of it at once and one truncating the file of the other
\* (gui.py:436-451, 514).
InstalledWhole == installed \in {None, "whole"}

\* What pid gives stop and run_in is "the Android-side pid of the running systemd, or
\* None" (systemd.py:33). What it looks at is the root of the process with the
\* recorded pid, and every process of the rootfs has that root. Not part of a
\* passing run.
PidIsSystemd ==
  [][\A c \in Calls : cmd[c].pc = "target" /\ cmd'[c].pid # None
                     => cmd'[c].pid \in Inits(cmd[c].inst)]_vars

\* What run_in executes, it executes in systemd's namespaces, although the pid was
\* looked up two round trips before (systemd.py:112-127). Not part of a passing run.
RunInInside ==
  \A c \in Calls : cmd[c].op = "runin" /\ cmd[c].ran # None => cmd[c].inside

\* run_in executes the command it was given (systemd.py:116). Not part of a
\* passing run.
RunInOwn ==
  \A c \in Calls : cmd[c].op = "runin" /\ cmd[c].ran # None => cmd[c].ran = c

\* A start that succeeds has found systemd itself, not a process with a recycled
\* pid (systemd-start.sh:29). Not part of a passing run.
StartStarts ==
  [][\A c \in Calls : cmd[c].op = "start" /\ Active(c) /\ cmd'[c].pc = "ok" => Inits(cmd[c].inst) # {}]_vars

\* A start that finds systemd running says so, whatever the instance
\* (config.py:45). Not part of a passing run.
StartReports ==
  [][\A c \in Calls : /\ ~Cuts /\ cmd[c].inst \in up'
                     /\ cmd[c].pc = "report" /\ cmd'[c].pc = "failed"
                     => Inits(cmd[c].inst) = {}]_vars

\* An instance has one systemd (systemd-start.sh:24). Not part of a passing run.
OneInit ==
  \A p, q \in procs : p.init /\ q.init /\ p.inst = q.inst => p = q
=============================================================================
