--------------------------- MODULE CommandsProofs --------------------------
(***************************************************************************)
(* What the commands may rely on in the files they leave for themselves    *)
(* and for each other, for every number of commands, instances and pids.   *)
(***************************************************************************)
EXTENDS CommandsProps, TLAPS

Labels == Ended \cup
          {"new", "bring up", "down", "stage", "execute", "remove", "remove failed",
           "copy", "pull", "unstage", "check", "launch", "find", "report",
           "target", "kill", "stage in", "nsenter",
           "look", "open", "fetch", "hash", "replace", "verify", "install"}

Contents == Calls \cup {None, Broken}

Cmd == [pc : Labels, op : AllOps \cup {None}, inst : Instances \cup {None},
        pid : Pids \cup {None}, ran : Contents, inside : BOOLEAN,
        got : Contents, fd : Calls \cup {None}]

Typed ==
  /\ up \subseteq Instances
  /\ staged \in Contents
  /\ procs \subseteq Process
  /\ pidfile \in [Instances -> Pids \cup {None}]
  /\ part \in Calls \cup {None}

\* A file of /tmp that is named after a call has been written by no other, and a
\* write that is still to come is no exception.
Files ==
  /\ tmp \in [Instances -> [Names -> Contents]]
  /\ \A i \in Instances, c \in Calls : tmp[i][c] \in {None, Broken, c}
  /\ \A w \in late : /\ w.by \in Calls
                     /\ w.name # None => w.inst \in Instances /\ w.name = w.by

InSystemd == {"target", "stage in", "nsenter"}

\* What a command has done when it has come to a step.
Stands(c) ==
  /\ Active(c) => cmd[c].inst \in Instances
  /\ cmd[c].pc = "new" => cmd[c].ran = None
  /\ cmd[c].pc \in InSystemd => cmd[c].op \notin {"run", "shot"}
  /\ cmd[c].pc = "execute" => tmp[cmd[c].inst][c] = c

CommandInv ==
  /\ cmd \in [Calls -> Cmd]
  /\ Typed
  /\ Files
  /\ \A c \in Calls : Stands(c)
  /\ RunsOwn

-----------------------------------------------------------------------------
\* A step that gives c the record r, and takes nobody else's staged command away.
LEMMA Moves ==
  ASSUME CommandInv, NEW c \in Calls, NEW r \in Cmd, cmd' = [cmd EXCEPT ![c] = r],
         Typed', Files',
         \A i \in Instances, d \in Calls \ {c} : tmp[i][d] = d => tmp'[i][d] = d,
         r.pc # "new", r.inst \in Instances,
         r.pc \in InSystemd => r.op \notin {"run", "shot"},
         r.pc = "execute" => tmp'[r.inst][c] = c,
         r.op \in {"run", "shot"} /\ r.ran # None => r.ran = c
  PROVE  CommandInv'
  <1>1. /\ cmd' \in [Calls -> Cmd]
        /\ cmd'[c] = r /\ \A d \in Calls : d # c => cmd'[d] = cmd[d]
    BY DEF CommandInv
  <1>2. ASSUME NEW d \in Calls PROVE Stands(d)'
    <2>1. CASE d = c
      BY <2>1, <1>1 DEF Stands, Active
    <2>2. CASE d # c
      <3>1. cmd'[d] = cmd[d] /\ Stands(d)
        BY <2>2, <1>1 DEF CommandInv
      <3>2. cmd[d].pc = "execute" => cmd[d].inst \in Instances
        BY <3>1 DEF Stands, Active, Ended
      <3>3. QED
        BY <3>1, <3>2, <2>2 DEF Stands, Active
    <2>3. QED
      BY <2>1, <2>2
  <1>3. RunsOwn'
    BY <1>1 DEF CommandInv, RunsOwn
  <1>4. QED
    BY <1>1, <1>2, <1>3 DEF CommandInv

\* What an active command brings into a step.
LEMMA Brings ==
  ASSUME CommandInv, NEW c \in Calls, Active(c)
  PROVE  /\ cmd[c] \in Cmd /\ cmd[c].inst \in Instances
         /\ cmd[c].pc \in InSystemd => cmd[c].op \notin {"run", "shot"}
         /\ cmd[c].op \in {"run", "shot"} /\ cmd[c].ran # None => cmd[c].ran = c
  BY DEF CommandInv, Stands, RunsOwn

\* The record after a step that only goes on.
LEMMA GoesOn ==
  ASSUME cmd \in [Calls -> Cmd], NEW c \in Calls, NEW to \in Labels, Goto(c, to)
  PROVE  LET r == [cmd[c] EXCEPT !.pc = to] IN
         /\ cmd' = [cmd EXCEPT ![c] = r] /\ r \in Cmd
         /\ r.pc = to /\ r.op = cmd[c].op /\ r.inst = cmd[c].inst /\ r.ran = cmd[c].ran
  BY DEF Goto, Cmd

\* Most steps neither touch the files nor run anything.
LEMMA Keeps ==
  ASSUME CommandInv, NEW c \in Calls, NEW to \in Labels, Goto(c, to), Active(c),
         Typed', UNCHANGED <<tmp, late>>,
         to \notin {"new", "execute"},
         to \in InSystemd => cmd[c].op \notin {"run", "shot"}
  PROVE  CommandInv'
  <1> DEFINE r == [cmd[c] EXCEPT !.pc = to]
  <1>1. /\ cmd' = [cmd EXCEPT ![c] = r] /\ r \in Cmd
        /\ r.pc = to /\ r.op = cmd[c].op /\ r.inst = cmd[c].inst /\ r.ran = cmd[c].ran
    BY GoesOn DEF CommandInv
  <1> HIDE DEF r
  <1>2. Files'
    BY DEF CommandInv, Files
  <1>3. QED
    BY <1>1, <1>2, Brings, Moves

-----------------------------------------------------------------------------
(* Steps that learn something: a pid, a file, an inode, a status.          *)

LEMMA TargetKeeps ==
  ASSUME CommandInv, ConstantsAssumption, NEW c \in Calls, Target(c)
  PROVE  CommandInv'
  <1>1. cmd[c].pc = "target" /\ Active(c)
    BY DEF Target, Active, Ended
  <1>2. /\ cmd[c] \in Cmd /\ cmd[c].inst \in Instances /\ cmd[c].op \notin {"run", "shot"}
    BY <1>1, Brings DEF InSystemd
  <1>3. Typed' /\ Files' /\ tmp' = tmp
    BY DEF Target, device, systemd, cache, CommandInv, Typed, Files
  <1> DEFINE p == Recorded(cmd[c].inst)
  <1>4. p \in Pids \cup {None}
    BY DEF CommandInv, Typed, Recorded, ConstantsAssumption
  <1>5. PICK to \in {"ok", "kill", "failed", "stage in"} :
          cmd' = [cmd EXCEPT ![c].pid = p, ![c].pc = to]
    BY DEF Target
  <1> HIDE DEF p
  <1> DEFINE r == [cmd[c] EXCEPT !.pid = p, !.pc = to]
  <1>6. cmd' = [cmd EXCEPT ![c] = r]
    BY <1>5
  <1>7. r \in Cmd /\ r.pc = to /\ r.op = cmd[c].op /\ r.inst = cmd[c].inst
    BY <1>2, <1>4 DEF Cmd, Labels, Ended
  <1> HIDE DEF r
  <1>8. QED
    BY <1>2, <1>3, <1>6, <1>7, Moves

LEMMA PullKeeps ==
  ASSUME CommandInv, NEW c \in Calls, Pull(c)
  PROVE  CommandInv'
  <1>1. cmd[c].pc = "pull" /\ Active(c)
    BY DEF Pull, Active, Ended
  <1>2. Typed' /\ Files' /\ tmp' = tmp
    BY DEF Pull, device, systemd, cache, CommandInv, Typed, Files
  <1> DEFINE f == IF Method = "su" THEN staged ELSE IF cmd[c].inst \in up THEN c ELSE None
  <1>3. f \in Contents
    BY DEF CommandInv, Typed, Contents
  <1>4. PICK got \in {f, None}, to \in {"unstage", "failed", "ok"} :
          cmd' = [cmd EXCEPT ![c].got = got, ![c].pc = to]
    BY DEF Pull
  <1> HIDE DEF f
  <1>4a. got \in Contents
    BY <1>3, <1>4 DEF Contents
  <1> DEFINE r == [cmd[c] EXCEPT !.got = got, !.pc = to]
  <1>5. cmd' = [cmd EXCEPT ![c] = r]
    BY <1>4
  <1>6. r \in Cmd /\ r.pc = to /\ r.op = cmd[c].op /\ r.inst = cmd[c].inst /\ r.ran = cmd[c].ran
    BY <1>1, <1>4a, Brings DEF Cmd, Labels, Ended
  <1> HIDE DEF r
  <1>7. QED
    BY <1>1, <1>2, <1>5, <1>6, Brings, Moves DEF InSystemd

LEMMA OpenKeeps ==
  ASSUME CommandInv, NEW c \in Calls, Open(c)
  PROVE  CommandInv'
  <1>1. cmd[c].pc = "open" /\ Active(c)
    BY DEF Open, Active, Ended
  <1>2. PICK n \in Calls : cmd' = [cmd EXCEPT ![c].pc = "fetch", ![c].fd = n] /\ part' = n
    BY DEF Open, CommandInv, Typed
  <1>3. Typed' /\ Files' /\ tmp' = tmp
    BY <1>2 DEF Open, device, systemd, CommandInv, Typed, Files
  <1> DEFINE r == [cmd[c] EXCEPT !.pc = "fetch", !.fd = n]
  <1>4. cmd' = [cmd EXCEPT ![c] = r]
    BY <1>2
  <1>5. r \in Cmd /\ r.pc = "fetch" /\ r.op = cmd[c].op /\ r.inst = cmd[c].inst /\ r.ran = cmd[c].ran
    BY <1>1, Brings DEF Cmd, Labels, Ended
  <1> HIDE DEF r
  <1>6. QED
    BY <1>1, <1>3, <1>4, <1>5, Brings, Moves DEF InSystemd

\* What is executed is what was staged: nobody has written to the file since.
LEMMA ExecuteKeeps ==
  ASSUME CommandInv, NEW c \in Calls, Execute(c)
  PROVE  CommandInv'
  <1>1. cmd[c].pc = "execute" /\ Active(c)
    BY DEF Execute, Active, Ended
  <1>2. cmd[c] \in Cmd /\ tmp[cmd[c].inst][Name(c)] = c
    BY <1>1 DEF CommandInv, Stands, Name
  <1>3. Typed' /\ Files' /\ tmp' = tmp /\ late' = late
    BY DEF Execute, device, systemd, cache, CommandInv, Typed, Files
  <1>4. CASE Goto(c, "remove failed")
    BY <1>1, <1>3, <1>4, Keeps DEF Labels, InSystemd
  <1>5. ASSUME NEW to \in {"remove", "remove failed"},
               cmd' = [cmd EXCEPT ![c].ran = c, ![c].pc = to]
        PROVE  CommandInv'
    <2> DEFINE r == [cmd[c] EXCEPT !.ran = c, !.pc = to]
    <2>1. cmd' = [cmd EXCEPT ![c] = r]
      BY <1>5
    <2>2. r \in Cmd /\ r.pc = to /\ r.inst = cmd[c].inst /\ r.ran = c
      BY <1>2 DEF Cmd, Labels, Contents
    <2> HIDE DEF r
    <2>3. QED
      BY <1>1, <1>3, <2>1, <2>2, Brings, Moves DEF InSystemd
  <1>6. QED
    BY <1>2, <1>4, <1>5 DEF Execute

LEMMA NsenterKeeps ==
  ASSUME CommandInv, NEW c \in Calls, Nsenter(c)
  PROVE  CommandInv'
  <1>1. cmd[c].pc = "nsenter" /\ Active(c)
    BY DEF Nsenter, Active, Ended
  <1>2. cmd[c] \in Cmd /\ cmd[c].inst \in Instances /\ cmd[c].op \notin {"run", "shot"}
    BY <1>1, Brings DEF InSystemd
  <1>3. Typed' /\ Files' /\ tmp' = tmp /\ late' = late
    BY DEF Nsenter, device, systemd, cache, CommandInv, Typed, Files
  <1>4. CASE Goto(c, "failed")
    BY <1>1, <1>3, <1>4, Keeps DEF Labels, Ended, InSystemd
  <1> DEFINE x == tmp[cmd[c].inst][Fixed]
             b == cmd[c].pid \in Inits(cmd[c].inst)
  <1>5. x \in Contents /\ b \in BOOLEAN
    BY <1>2 DEF CommandInv, Files, Names
  <1>6. \/ Goto(c, "failed")
        \/ \E to \in Ended : cmd' = [cmd EXCEPT ![c].pc = to, ![c].ran = x, ![c].inside = b]
    BY DEF Nsenter
  <1> HIDE DEF x, b
  <1>7. ASSUME NEW to \in Ended, cmd' = [cmd EXCEPT ![c].pc = to, ![c].ran = x, ![c].inside = b]
        PROVE  CommandInv'
    <2> DEFINE r == [cmd[c] EXCEPT !.pc = to, !.ran = x, !.inside = b]
    <2>1. cmd' = [cmd EXCEPT ![c] = r]
      BY <1>7
    <2>2. r \in Cmd /\ r.pc = to /\ r.op = cmd[c].op /\ r.inst = cmd[c].inst
      BY <1>2, <1>5 DEF Cmd, Labels
    <2> HIDE DEF r
    <2>3. QED
      BY <1>2, <1>3, <2>1, <2>2, Moves DEF InSystemd, Ended
  <1>8. QED
    BY <1>4, <1>6, <1>7

-----------------------------------------------------------------------------
(* Steps that write a file of /tmp.                                        *)

\* A command writes to the file that is its own.
LEMMA StageKeeps ==
  ASSUME CommandInv, ConstantsAssumption, NEW c \in Calls, Stage(c)
  PROVE  CommandInv'
  <1> DEFINE i == cmd[c].inst
  <1>1. /\ cmd[c].pc = "stage" /\ Active(c) /\ i \in Instances
        /\ cmd[c].op \in {"run", "shot"} /\ cmd[c].ran # None => cmd[c].ran = c
    BY Brings DEF Stage, Step, Active, Ended
  <1>2. Typed'
    BY DEF Stage, systemd, cache, CommandInv, Typed
  <1>3. tmp[i][Name(c)] \in Contents /\ tmp[i][c] \in {None, Broken, c} /\ c \in Names
    BY <1>1 DEF CommandInv, Files, Name, Names
  <1>4. PICK to \in {"execute", "failed"}, x \in {None, Broken, c} :
          /\ Goto(c, to)
          /\ tmp' = [tmp EXCEPT ![i][c] = x]
          /\ to = "execute" => x = c
          /\ late' \subseteq late \cup {[inst |-> i, name |-> c, by |-> c]}
    <2>1. CASE i \in up /\ Goto(c, "execute") /\ tmp' = [tmp EXCEPT ![i][c] = c] /\ late' = late
      BY <2>1
    <2>2. CASE /\ Goto(c, "failed") /\ late' = late
               /\ \E left \in {tmp[i][c], Broken} : tmp' = [tmp EXCEPT ![i][c] = left]
      BY <2>2, <1>3
    <2>3. CASE /\ Goto(c, "failed") /\ tmp' = tmp
               /\ late' = late \cup {[inst |-> i, name |-> c, by |-> c]}
      <3>1. tmp' = [tmp EXCEPT ![i][c] = tmp[i][c]]
        BY <2>3, <1>1, <1>3 DEF CommandInv, Files
      <3>2. QED
        BY <2>3, <3>1, <1>3
    <2>4. QED
      BY <2>1, <2>2, <2>3 DEF Stage, Step, Name
  <1> DEFINE r == [cmd[c] EXCEPT !.pc = to]
  <1>5. /\ cmd' = [cmd EXCEPT ![c] = r] /\ r \in Cmd
        /\ r.pc = to /\ r.op = cmd[c].op /\ r.inst = i /\ r.ran = cmd[c].ran
    BY <1>4, GoesOn DEF CommandInv, Labels, Ended
  <1> HIDE DEF r, i
  <1>6. Files'
    <2>1. tmp' \in [Instances -> [Names -> Contents]]
      BY <1>1, <1>3, <1>4 DEF CommandInv, Files, Contents
    <2>2. \A j \in Instances, d \in Calls : tmp'[j][d] \in {None, Broken, d}
      BY <1>1, <1>3, <1>4 DEF CommandInv, Files
    <2>3. \A w \in late' : w.by \in Calls /\ (w.name # None => w.inst \in Instances /\ w.name = w.by)
      BY <1>1, <1>4 DEF CommandInv, Files
    <2>4. QED
      BY <2>1, <2>2, <2>3 DEF Files
  <1>7. /\ \A j \in Instances, d \in Calls \ {c} : tmp[j][d] = d => tmp'[j][d] = d
        /\ to = "execute" => tmp'[i][c] = c
    BY <1>1, <1>3, <1>4 DEF CommandInv, Files
  <1>8. /\ r.pc # "new" /\ r.pc \notin InSystemd /\ r.inst \in Instances
        /\ r.pc = "execute" => tmp'[r.inst][c] = c
        /\ r.op \in {"run", "shot"} /\ r.ran # None => r.ran = c
    BY <1>1, <1>5, <1>7 DEF InSystemd
  <1>9. cmd' = [cmd EXCEPT ![c] = r] /\ r \in Cmd
    BY <1>5
  <1>10. QED
    BY <1>2, <1>6, <1>7, <1>8, <1>9, Moves

LEMMA RemoveKeeps ==
  ASSUME CommandInv, NEW c \in Calls, Remove(c)
  PROVE  CommandInv'
  <1> DEFINE i == cmd[c].inst
  <1>1. cmd[c].pc \in {"remove", "remove failed"} /\ Active(c) /\ i \in Instances /\ c \in Names
    BY Brings DEF Remove, Step, Active, Ended, Names
  <1>2. Typed'
    BY DEF Remove, systemd, cache, CommandInv, Typed
  <1>3. PICK to \in {"ok", "failed", "copy", "pull"} : Goto(c, to)
    BY DEF Remove, Step, AfterRun
  <1>4. /\ late' = late
        /\ tmp' = tmp \/ tmp' = [tmp EXCEPT ![i][c] = None]
    BY DEF Remove, Name
  <1> DEFINE r == [cmd[c] EXCEPT !.pc = to]
  <1>5. /\ cmd' = [cmd EXCEPT ![c] = r] /\ r \in Cmd
        /\ r.pc = to /\ r.op = cmd[c].op /\ r.inst = i /\ r.ran = cmd[c].ran
    BY <1>3, GoesOn DEF CommandInv, Labels, Ended
  <1> HIDE DEF r, i
  <1>6. CASE tmp' = tmp
    BY <1>1, <1>2, <1>3, <1>4, <1>5, <1>6, Brings, Moves DEF CommandInv, Files, InSystemd
  <1>7. CASE tmp' = [tmp EXCEPT ![i][c] = None]
    <2>1. tmp \in [Instances -> [Names -> Contents]] /\ None \in Contents
      BY DEF CommandInv, Files, Contents
    <2>2. tmp' \in [Instances -> [Names -> Contents]]
      BY <1>1, <1>7, <2>1
    <2>3. tmp'[i][c] = None
      BY <1>1, <1>7, <2>1
    <2>4. \A j \in Instances, g \in Names : j # i \/ g # c => tmp'[j][g] = tmp[j][g]
      BY <1>1, <1>7, <2>1
    <2>5. \A j \in Instances, d \in Calls \ {c} : tmp[j][d] = d => tmp'[j][d] = d
      BY <2>4 DEF Names
    <2>6. Files'
      BY <1>4, <2>2, <2>3, <2>4 DEF CommandInv, Files, Names
    <2>7. QED
      BY <1>1, <1>2, <1>3, <1>5, <2>5, <2>6, Brings, Moves DEF InSystemd
  <1>8. QED
    BY <1>4, <1>6, <1>7

\* run_in writes to a file that is no call's.
LEMMA StageInKeeps ==
  ASSUME CommandInv, ConstantsAssumption, NEW c \in Calls, StageIn(c)
  PROVE  CommandInv'
  <1> DEFINE i == cmd[c].inst
  <1>1. /\ cmd[c].pc = "stage in" /\ Active(c) /\ i \in Instances
        /\ cmd[c].op \notin {"run", "shot"}
        /\ Fixed \in Names /\ Fixed \notin Calls
    BY Brings DEF StageIn, Step, Active, Ended, InSystemd, Names, ConstantsAssumption
  <1>2. Typed'
    BY DEF StageIn, systemd, cache, CommandInv, Typed
  <1>3. PICK to \in {"nsenter", "failed"} : Goto(c, to)
    BY DEF StageIn, Step
  <1>4. PICK x \in Contents : tmp' = [tmp EXCEPT ![i][Fixed] = x]
    <2>1. c \in Contents /\ Broken \in Contents
      BY DEF Contents
    <2>2. tmp \in [Instances -> [Names -> Contents]]
      BY DEF CommandInv, Files
    <2>3. tmp[i][Fixed] \in Contents
      BY <1>1, <2>2
    <2>4. QED
      BY <2>1, <2>3 DEF StageIn
  <1>5. late' = late
    BY DEF StageIn
  <1> DEFINE r == [cmd[c] EXCEPT !.pc = to]
  <1>6. /\ cmd' = [cmd EXCEPT ![c] = r] /\ r \in Cmd
        /\ r.pc = to /\ r.op = cmd[c].op /\ r.inst = i
    BY <1>3, GoesOn DEF CommandInv, Labels, Ended
  <1> HIDE DEF r, i
  <1>7. Files' /\ \A j \in Instances, d \in Calls : tmp'[j][d] = tmp[j][d]
    <2>1. tmp \in [Instances -> [Names -> Contents]]
      BY DEF CommandInv, Files
    <2>2. tmp' \in [Instances -> [Names -> Contents]]
      BY <1>1, <1>4, <2>1
    <2>3. \A j \in Instances, d \in Names : d # Fixed => tmp'[j][d] = tmp[j][d]
      BY <1>1, <1>4, <2>1
    <2>4. \A j \in Instances, d \in Calls : tmp'[j][d] = tmp[j][d]
      BY <1>1, <2>3 DEF Names
    <2>5. QED
      BY <1>5, <2>2, <2>4 DEF CommandInv, Files
  <1>8. QED
    BY <1>1, <1>2, <1>3, <1>6, <1>7, Moves

\* A step that is no command's, and takes no staged command away.
LEMMA Elsewhere ==
  ASSUME CommandInv, Typed', Files', UNCHANGED cmd,
         \A i \in Instances, c \in Calls : tmp[i][c] = c => tmp'[i][c] = c
  PROVE  CommandInv'
  <1>1. ASSUME NEW c \in Calls PROVE Stands(c)'
    <2>1. cmd[c].pc = "execute" => cmd[c].inst \in Instances
      BY DEF CommandInv, Stands, Active, Ended
    <2>2. QED
      BY <2>1 DEF CommandInv, Stands, Active
  <1>2. QED
    BY <1>1 DEF CommandInv, RunsOwn

\* Nor does a write that comes late write to a file of another call.
LEMMA LateWriteKeeps ==
  ASSUME CommandInv, LateWrite
  PROVE  CommandInv'
  <1>1. PICK w \in late :
          /\ late' = late \ {w}
          /\ IF w.name = None THEN staged' = w.by /\ UNCHANGED tmp
             ELSE /\ tmp' = IF w.inst \in up THEN [tmp EXCEPT ![w.inst][w.name] = w.by] ELSE tmp
                  /\ UNCHANGED staged
    BY DEF LateWrite
  <1>2. UNCHANGED <<up, systemd, cache, cmd>>
    BY DEF LateWrite
  <1>3. w.by \in Calls /\ w.by \in Names
        /\ (w.name # None => w.inst \in Instances /\ w.name = w.by)
    BY <1>1 DEF CommandInv, Files, Names
  <1>4. Typed'
    BY <1>1, <1>2, <1>3 DEF systemd, cache, CommandInv, Typed, Contents
  <1>5. CASE tmp' = tmp
    BY <1>1, <1>2, <1>4, <1>5, Elsewhere DEF CommandInv, Files
  <1>6. CASE w.inst \in Instances /\ tmp' = [tmp EXCEPT ![w.inst][w.by] = w.by]
    <2>1. Files'
      BY <1>1, <1>3, <1>6 DEF CommandInv, Files, Contents
    <2>2. \A i \in Instances, c \in Calls : tmp[i][c] = c => tmp'[i][c] = c
      BY <1>3, <1>6 DEF CommandInv, Files
    <2>3. QED
      BY <1>2, <1>4, <2>1, <2>2, Elsewhere
  <1>7. QED
    BY <1>1, <1>3, <1>5, <1>6

LEMMA CopyKeeps ==
  ASSUME CommandInv, NEW c \in Calls, Copy(c) \/ Unstage(c)
  PROVE  CommandInv'
  <1>1. CASE Copy(c)
    <2>1. cmd[c].pc = "copy" /\ Active(c) /\ c \in Contents
      BY <1>1 DEF Copy, Step, Active, Ended, Contents
    <2>2. PICK to \in {"pull", "failed"} : Goto(c, to)
      BY <1>1 DEF Copy, Step
    <2>3. Typed'
      BY <1>1, <2>1 DEF Copy, systemd, cache, CommandInv, Typed, Contents
    <2>4. tmp' = tmp /\ late' \subseteq late \cup {[inst |-> None, name |-> None, by |-> c]}
      BY <1>1 DEF Copy
    <2>5. Files'
      BY <2>4 DEF CommandInv, Files
    <2> DEFINE r == [cmd[c] EXCEPT !.pc = to]
    <2>6. /\ cmd' = [cmd EXCEPT ![c] = r] /\ r \in Cmd
          /\ r.pc = to /\ r.op = cmd[c].op /\ r.inst = cmd[c].inst /\ r.ran = cmd[c].ran
      BY <2>2, GoesOn DEF CommandInv, Labels, Ended
    <2> HIDE DEF r
    <2>7. QED
      BY <2>1, <2>3, <2>4, <2>5, <2>6, Brings, Moves DEF InSystemd
  <1>2. CASE Unstage(c)
    <2>1. PICK to \in Ended : cmd[c].pc = "unstage" /\ Goto(c, to)
      BY <1>2 DEF Unstage, Step, Ended
    <2>2. Typed' /\ UNCHANGED <<tmp, late>>
      BY <1>2 DEF Unstage, systemd, cache, CommandInv, Typed, Contents
    <2>3. QED
      BY <2>1, <2>2, Keeps DEF Active, Ended, Labels, InSystemd
  <1>3. QED
    BY <1>1, <1>2

-----------------------------------------------------------------------------
(* The other steps.                                                        *)

LEMMA BeginKeeps ==
  ASSUME CommandInv, ConstantsAssumption, NEW c \in Calls, Begin(c)
  PROVE  CommandInv'
  <1>1. cmd[c].pc = "new" /\ cmd[c] \in Cmd /\ cmd[c].ran = None
    BY DEF Begin, CommandInv, Stands
  <1>2. Typed' /\ Files' /\ tmp' = tmp
    BY DEF Begin, device, systemd, cache, CommandInv, Typed, Files
  <1>3. PICK o \in Ops, i \in Instances :
          cmd' = [cmd EXCEPT ![c].op = o, ![c].inst = i,
                    ![c].pc = IF o = "down" THEN "down"
                              ELSE IF o \in {"stop", "runin"} THEN "target"
                              ELSE IF i \in up THEN Needs(o) ELSE "bring up"]
    BY DEF Begin
  <1> DEFINE to == IF o = "down" THEN "down"
                   ELSE IF o \in {"stop", "runin"} THEN "target"
                   ELSE IF i \in up THEN Needs(o) ELSE "bring up"
             r  == [cmd[c] EXCEPT !.op = o, !.inst = i, !.pc = to]
  <1>4. Needs(o) \in {"look", "check", "stage"}
    BY DEF Needs
  <1>5. /\ to \in {"down", "target", "look", "check", "stage", "bring up"}
        /\ to = "target" => o \notin {"run", "shot"}
    BY <1>4
  <1>6. cmd' = [cmd EXCEPT ![c] = r]
    BY <1>3
  <1> HIDE DEF to
  <1>7. o \in AllOps
    BY DEF ConstantsAssumption
  <1>8. r \in Cmd /\ r.pc = to /\ r.op = o /\ r.inst = i /\ r.ran = None
    <2>1. to \in Labels
      BY <1>5 DEF Labels
    <2>2. QED
      BY <1>1, <1>7, <2>1 DEF Cmd
  <1> HIDE DEF r
  <1>9. QED
    BY <1>2, <1>5, <1>6, <1>8, Moves DEF InSystemd

LEMMA UpDownKeeps ==
  ASSUME CommandInv, NEW c \in Calls, BringUp(c) \/ Down(c)
  PROVE  CommandInv'
  <1>1. CASE BringUp(c)
    <2>1. Needs(cmd[c].op) \in {"look", "check", "stage"}
      BY DEF Needs
    <2>2. PICK to \in {"look", "check", "stage", "failed"} : cmd[c].pc = "bring up" /\ Goto(c, to)
      BY <1>1, <2>1 DEF BringUp, Step
    <2>3. Typed' /\ UNCHANGED <<tmp, late>>
      BY <1>1, <2>2, Brings DEF BringUp, systemd, cache, CommandInv, Typed, Active, Ended
    <2>4. QED
      BY <2>2, <2>3, Keeps DEF Active, Ended, Labels, InSystemd
  <1>2. CASE Down(c)
    <2>1. cmd[c].pc = "down" /\ Goto(c, "ok")
      BY <1>2 DEF Down, Step
    <2>2. Typed' /\ UNCHANGED <<tmp, late>>
      BY <1>2 DEF Down, cache, CommandInv, Typed
    <2>3. QED
      BY <2>1, <2>2, Keeps DEF Active, Ended, Labels, InSystemd
  <1>3. QED
    BY <1>1, <1>2

LEMMA SystemdKeeps ==
  ASSUME CommandInv, ConstantsAssumption, NEW c \in Calls,
         CheckRunning(c) \/ LaunchInit(c) \/ FindInit(c) \/ Report(c) \/ KillInit(c)
  PROVE  CommandInv'
  <1>1. CASE CheckRunning(c)
    <2>1. PICK to \in {"report", "launch", "failed"} : cmd[c].pc = "check" /\ Goto(c, to)
      BY <1>1 DEF CheckRunning
    <2>2. Typed' /\ UNCHANGED <<tmp, late>>
      BY <1>1 DEF CheckRunning, device, cache, CommandInv, Typed
    <2>3. QED
      BY <2>1, <2>2, Keeps DEF Active, Ended, Labels, InSystemd
  <1>2. CASE LaunchInit(c)
    <2>1. cmd[c].pc = "launch" /\ Goto(c, "find") /\ Active(c)
      BY <1>2 DEF LaunchInit, Step, Active, Ended
    <2>2. cmd[c].inst \in Instances
      BY <2>1, Brings
    <2>3. \A p \in Free : [pid |-> p, inst |-> cmd[c].inst, init |-> TRUE] \in Process
      BY <2>2 DEF Free, Process
    <2>4. Typed' /\ UNCHANGED <<tmp, late>>
      BY <1>2, <2>3 DEF LaunchInit, device, cache, CommandInv, Typed
    <2>5. QED
      BY <2>1, <2>4, Keeps DEF Ended, Labels, InSystemd
  <1>3. CASE FindInit(c)
    <2>1. PICK to \in {"report", "failed"} : cmd[c].pc = "find" /\ Goto(c, to)
      BY <1>3 DEF FindInit
    <2>2. Inits(cmd[c].inst) \subseteq Pids
      BY DEF CommandInv, Typed, Process, Inits
    <2>3. Typed' /\ UNCHANGED <<tmp, late>>
      BY <1>3, <2>2 DEF FindInit, device, cache, CommandInv, Typed
    <2>4. QED
      BY <2>1, <2>3, Keeps DEF Active, Ended, Labels, InSystemd
  <1>4. CASE Report(c)
    <2>1. PICK to \in Ended : cmd[c].pc = "report" /\ Goto(c, to)
      BY <1>4 DEF Report, Step, Ended
    <2>2. Typed' /\ UNCHANGED <<tmp, late>>
      BY <1>4 DEF Report, device, systemd, cache, CommandInv, Typed
    <2>3. QED
      BY <2>1, <2>2, Keeps DEF Active, Ended, Labels, InSystemd
  <1>5. CASE KillInit(c)
    <2>1. cmd[c].pc = "kill" /\ Goto(c, "ok")
      BY <1>5 DEF KillInit, Step
    <2>2. Typed' /\ UNCHANGED <<tmp, late>>
      BY <1>5 DEF KillInit, device, cache, CommandInv, Typed
    <2>3. QED
      BY <2>1, <2>2, Keeps DEF Active, Ended, Labels, InSystemd
  <1>6. QED
    BY <1>1, <1>2, <1>3, <1>4, <1>5

LEMMA ViewerKeeps ==
  ASSUME CommandInv, NEW c \in Calls,
         Look(c) \/ Fetch(c) \/ Hash(c) \/ Replace(c) \/ Verify(c) \/ Install(c)
  PROVE  CommandInv'
  <1>1. UNCHANGED <<up, tmp, late, staged, procs, pidfile>>
    BY DEF Look, Fetch, Hash, Replace, Verify, Install, device, systemd
  <1>2. part' \in {part, None}
    BY DEF Look, Fetch, Hash, Replace, Verify, Install, cache
  <1>3. Typed'
    BY <1>1, <1>2 DEF CommandInv, Typed
  <1>4. \E from \in {"look", "fetch", "hash", "replace", "verify", "install"},
           to \in {"ok", "failed", "verify", "open", "hash", "replace", "install"} :
          cmd[c].pc = from /\ Goto(c, to)
    BY DEF Look, Fetch, Hash, Replace, Verify, Install, Step
  <1>5. PICK to \in {"ok", "failed", "verify", "open", "hash", "replace", "install"} : Goto(c, to)
    BY <1>4
  <1>6. Active(c)
    BY <1>4 DEF Active, Ended
  <1>7. QED
    BY <1>1, <1>3, <1>5, <1>6, Keeps DEF Labels, Ended, InSystemd

LEMMA FaultsKeep ==
  ASSUME CommandInv, ConstantsAssumption, Spawn \/ Exit \/ Reboot \/ (\E c \in Calls : Cut(c))
  PROVE  CommandInv'
  <1>1. CASE Spawn
    <2>1. \A p \in Free, i \in Instances \cup {None} :
            [pid |-> p, inst |-> i, init |-> FALSE] \in Process
      BY DEF Free, Process
    <2>2. PICK k \in Others, p \in Free :
            \/ k = "android" /\ procs' = procs \cup {[pid |-> p, inst |-> None, init |-> FALSE]}
            \/ k = "guest" /\ \E i \in up : procs' = procs \cup {[pid |-> p, inst |-> i, init |-> FALSE]}
      BY <1>1 DEF Spawn
    <2>3. UNCHANGED <<device, pidfile, cache, cmd>>
      BY <1>1 DEF Spawn
    <2>4. procs' \subseteq Process
      BY <2>1, <2>2 DEF CommandInv, Typed
    <2>5. QED
      BY <2>3, <2>4, Elsewhere DEF device, cache, CommandInv, Typed, Files
  <1>2. CASE Reboot
    <2>1. /\ Typed' /\ Files' /\ tmp' = tmp
      BY <1>2 DEF Reboot, cache, CommandInv, Typed, Files
    <2>2. ASSUME NEW c \in Calls PROVE cmd[c] \in Cmd /\ [cmd[c] EXCEPT !.pc = "failed"] \in Cmd
      <3>1. "failed" \in Labels /\ cmd[c] \in Cmd
        BY DEF CommandInv, Labels, Ended
      <3>2. QED
        BY <3>1 DEF Cmd
    <2>3. cmd' \in [Calls -> Cmd]
      BY <1>2, <2>2 DEF Reboot
    <2>4. ASSUME NEW c \in Calls
          PROVE  \/ cmd'[c] = cmd[c]
                 \/ /\ cmd'[c].pc = "failed" /\ cmd'[c].op = cmd[c].op
                    /\ cmd'[c].ran = cmd[c].ran
      <3>1. cmd'[c] = cmd[c] \/ cmd'[c] = [cmd[c] EXCEPT !.pc = "failed"]
        BY <1>2 DEF Reboot
      <3>2. QED
        BY <2>2, <3>1 DEF Cmd
    <2>5. \A c \in Calls : Stands(c)'
      BY <2>1, <2>4 DEF CommandInv, Stands, Active, Ended, InSystemd
    <2>6. RunsOwn'
      BY <2>4 DEF CommandInv, RunsOwn
    <2>7. QED
      BY <2>1, <2>3, <2>5, <2>6 DEF CommandInv
  <1>3. CASE \E c \in Calls : Cut(c)
    <2>1. PICK c \in Calls : Active(c) /\ Goto(c, "failed") /\ UNCHANGED <<device, systemd, cache>>
      BY <1>3 DEF Cut
    <2>2. Typed' /\ UNCHANGED <<tmp, late>>
      BY <2>1 DEF device, systemd, cache, CommandInv, Typed
    <2>3. QED
      BY <2>1, <2>2, Keeps DEF Labels, Ended, InSystemd
  <1>4. CASE Exit
    <2>1. procs' \subseteq Process /\ UNCHANGED <<device, pidfile, cache, cmd>>
      BY <1>4 DEF Exit, CommandInv, Typed
    <2>2. QED
      BY <2>1, Elsewhere DEF device, cache, CommandInv, Typed, Files
  <1>5. QED
    BY <1>1, <1>2, <1>3, <1>4

-----------------------------------------------------------------------------
LEMMA CommandInit == ConstantsAssumption /\ Init => CommandInv
  <1> SUFFICES ASSUME ConstantsAssumption, Init PROVE CommandInv
    OBVIOUS
  <1>1. cmd \in [Calls -> Cmd]
    BY DEF Init, Cmd, Labels, Contents
  <1>2. Typed
    BY DEF Init, Typed, Contents, Process
  <1>3. Files
    BY DEF Init, Files, Contents, Names
  <1>4. \A c \in Calls : cmd[c].pc = "new" /\ cmd[c].ran = None
    BY DEF Init
  <1>5. \A c \in Calls : Stands(c)
    BY <1>4 DEF Stands, Active, InSystemd
  <1>6. QED
    BY <1>1, <1>2, <1>3, <1>4, <1>5 DEF CommandInv, RunsOwn

LEMMA CommandNext ==
  ASSUME ConstantsAssumption, CommandInv, [Next]_vars
  PROVE  CommandInv'
  <1>1. CASE UNCHANGED vars
    <2>1. UNCHANGED <<cmd, up, tmp, late, staged, procs, pidfile, part>>
      BY <1>1 DEF vars, device, systemd, cache
    <2>2. QED
      BY <2>1, Elsewhere DEF CommandInv, Typed, Files
  <1>2. CASE LateWrite \/ Spawn \/ Exit \/ Reboot \/ \E c \in Calls : Cut(c)
    BY <1>2, LateWriteKeeps, FaultsKeep
  <1>3. ASSUME NEW c \in Calls, Begin(c) \/ Command(c) PROVE CommandInv'
    BY <1>3, BeginKeeps, UpDownKeeps, StageKeeps, ExecuteKeeps, RemoveKeeps, CopyKeeps, PullKeeps,
       SystemdKeeps, TargetKeeps, StageInKeeps, NsenterKeeps, OpenKeeps, ViewerKeeps DEF Command
  <1>4. QED
    BY <1>1, <1>2, <1>3 DEF Next

\* A run and a screenshot execute, inside the rootfs, the command they were given
\* and no other, for every number of commands at once, of instances and of pids,
\* and with writes that fail or come late, cuts, teardowns and reboots
\* (container.py:144-161).
THEOREM ExecutesOwn == Spec => []RunsOwn
  <1>1. Init => CommandInv
    BY CommandInit, ConstantsAssumption
  <1>2. CommandInv /\ [Next]_vars => CommandInv'
    BY CommandNext, ConstantsAssumption
  <1>3. CommandInv => RunsOwn
    BY DEF CommandInv
  <1>4. QED
    BY <1>1, <1>2, <1>3, PTL DEF Spec

-----------------------------------------------------------------------------
(* The control of a command.                                               *)

\* Where a command of op goes on from a step.
Follows(op, from, to) ==
  \/ from = "bring up"      /\ to \in {Needs(op), "failed"}
  \/ from = "down"          /\ to = "ok"
  \/ from = "stage"         /\ to \in {"execute", "failed"}
  \/ from = "execute"       /\ to \in {"remove", "remove failed"}
  \/ from = "remove"        /\ to = (IF op = "run" THEN "ok" ELSE IF Method = "su" THEN "copy" ELSE "pull")
  \/ from = "remove failed" /\ to = "failed"
  \/ from = "copy"          /\ to \in {"pull", "failed"}
  \/ from = "pull"          /\ to \in IF Method = "su" THEN {"unstage"} ELSE {"failed", "ok"}
  \/ from = "unstage"       /\ to \in {"failed", "ok"}
  \/ from = "check"         /\ to \in {"report", "launch", "failed"}
  \/ from = "launch"        /\ to = "find"
  \/ from = "find"          /\ to \in {"failed", "report"}
  \/ from = "report"        /\ to \in {"failed", "ok"}
  \/ from = "target"        /\ to \in IF op = "stop" THEN {"ok", "kill"} ELSE {"failed", "stage in"}
  \/ from = "kill"          /\ to = "ok"
  \/ from = "stage in"      /\ to \in {"nsenter", "failed"}
  \/ from = "nsenter"       /\ to \in {"ok", "failed"}
  \/ from = "look"          /\ to \in {"ok", "verify", "open"}
  \/ from = "open"          /\ to = "fetch"
  \/ from = "fetch"         /\ to \in {"hash", "failed"}
  \/ from = "hash"          /\ to \in {"replace", "failed"}
  \/ from = "replace"       /\ to \in {"verify", "failed"}
  \/ from = "verify"        /\ to \in {"install", "failed"}
  \/ from = "install"       /\ to \in {"ok", "failed"}

\* The record of c after a step that learns nothing.
Onward(c, to) == /\ cmd'[c].pc = to
                 /\ cmd'[c].op = cmd[c].op   /\ cmd'[c].inst = cmd[c].inst
                 /\ cmd'[c].pid = cmd[c].pid /\ cmd'[c].ran = cmd[c].ran
                 /\ cmd'[c].inside = cmd[c].inside
                 /\ cmd'[c].got = cmd[c].got

LEMMA GotoOnward ==
  ASSUME cmd \in [Calls -> Cmd], NEW c \in Calls, NEW to, Goto(c, to)
  PROVE  Onward(c, to) /\ \A d \in Calls : d # c => cmd'[d] = cmd[d]
  BY DEF Goto, Cmd, Onward

\* A step of one command goes on along its path, and leaves the others.
LEMMA Paths ==
  ASSUME CommandInv, NEW c \in Calls, Command(c)
  PROVE  /\ Active(c)
         /\ \A d \in Calls : d # c => cmd'[d] = cmd[d]
         /\ cmd'[c].op = cmd[c].op /\ cmd'[c].inst = cmd[c].inst
         /\ Follows(cmd[c].op, cmd[c].pc, cmd'[c].pc)
  <1>1. cmd \in [Calls -> Cmd]
    BY DEF CommandInv
  <1>2. CASE BringUp(c) \/ Down(c)
    <2>2. \/ cmd[c].pc = "bring up" /\ (Goto(c, Needs(cmd[c].op)) \/ Goto(c, "failed"))
          \/ cmd[c].pc = "down" /\ Goto(c, "ok")
      BY <1>2 DEF BringUp, Down, Step
    <2>3. PICK to : Goto(c, to) /\ Follows(cmd[c].op, cmd[c].pc, to)
      BY <2>2 DEF Follows
    <2>4. Active(c)
      BY <2>2 DEF Active, Ended
    <2>5. QED
      BY <1>1, <2>3, <2>4, GotoOnward DEF Onward
  <1>3. CASE Stage(c) \/ Remove(c) \/ Copy(c) \/ Unstage(c)
    <2>1. PICK to : Goto(c, to) /\ Follows(cmd[c].op, cmd[c].pc, to)
      BY <1>3 DEF Stage, Remove, Copy, Unstage, Step, AfterRun, Follows
    <2>2. QED
      BY <1>1, <1>3, <2>1, GotoOnward DEF Stage, Remove, Copy, Unstage, Step, Onward, Active, Ended
  <1>4. CASE Execute(c)
    <2>1. cmd[c].pc = "execute"
      BY <1>4 DEF Execute
    <2>2. \/ Goto(c, "remove failed")
          \/ \E to \in {"remove", "remove failed"} : \E x : cmd' = [cmd EXCEPT ![c].ran = x, ![c].pc = to]
      BY <1>4 DEF Execute
    <2>3. \A d \in Calls : d # c => cmd'[d] = cmd[d]
      BY <1>1, <2>2 DEF Goto
    <2>4. /\ cmd'[c].pc \in {"remove", "remove failed"}
          /\ cmd'[c].op = cmd[c].op /\ cmd'[c].inst = cmd[c].inst
      BY <1>1, <2>2 DEF Goto, Cmd
    <2>5. QED
      BY <2>1, <2>3, <2>4 DEF Follows, Active, Ended
  <1>5. CASE Pull(c)
    <2>1. PICK f, to : /\ cmd' = [cmd EXCEPT ![c].got = f, ![c].pc = to]
                       /\ Follows(cmd[c].op, cmd[c].pc, to)
      BY <1>5 DEF Pull, Follows
    <2>2. QED
      BY <1>1, <1>5, <2>1 DEF Pull, Cmd, Active, Ended
  <1>6. CASE CheckRunning(c) \/ LaunchInit(c) \/ FindInit(c) \/ Report(c) \/ KillInit(c) \/ StageIn(c)
    <2>1. PICK to : Goto(c, to) /\ Follows(cmd[c].op, cmd[c].pc, to)
      BY <1>6 DEF CheckRunning, LaunchInit, FindInit, Report, KillInit, StageIn, Step, Follows
    <2>2. QED
      BY <1>1, <1>6, <2>1, GotoOnward
         DEF CheckRunning, LaunchInit, FindInit, Report, KillInit, StageIn, Step, Onward, Active, Ended
  <1>7. CASE Target(c)
    <2>1. cmd[c].pc = "target"
      BY <1>7 DEF Target
    <2>2. PICK p, to : /\ cmd' = [cmd EXCEPT ![c].pid = p, ![c].pc = to]
                       /\ to \in IF cmd[c].op = "stop" THEN {"ok", "kill"} ELSE {"failed", "stage in"}
      BY <1>7 DEF Target
    <2>3. \A d \in Calls : d # c => cmd'[d] = cmd[d]
      BY <1>1, <2>2
    <2>4. cmd'[c].pc = to /\ cmd'[c].op = cmd[c].op /\ cmd'[c].inst = cmd[c].inst
      BY <1>1, <2>2 DEF Cmd
    <2>5. QED
      BY <2>1, <2>2, <2>3, <2>4 DEF Follows, Active, Ended
  <1>8. CASE Nsenter(c)
    <2>1. cmd[c].pc = "nsenter"
      BY <1>8 DEF Nsenter
    <2>2. \/ Goto(c, "failed")
          \/ \E to \in Ended : cmd' = [cmd EXCEPT ![c].pc = to, ![c].ran = tmp[cmd[c].inst][Fixed],
                                         ![c].inside = cmd[c].pid \in Inits(cmd[c].inst)]
      BY <1>8 DEF Nsenter
    <2>3. \A d \in Calls : d # c => cmd'[d] = cmd[d]
      BY <1>1, <2>2 DEF Goto
    <2>4. cmd'[c].pc \in Ended /\ cmd'[c].op = cmd[c].op /\ cmd'[c].inst = cmd[c].inst
      BY <1>1, <2>2 DEF Goto, Cmd, Ended
    <2>5. QED
      BY <2>1, <2>3, <2>4 DEF Follows, Active, Ended
  <1>9. CASE Open(c)
    <2>1. PICK n : cmd' = [cmd EXCEPT ![c].pc = "fetch", ![c].fd = n]
      BY <1>9 DEF Open
    <2>2. QED
      BY <1>1, <1>9, <2>1 DEF Open, Cmd, Follows, Active, Ended
  <1>10. CASE Look(c) \/ Fetch(c) \/ Hash(c) \/ Replace(c) \/ Verify(c) \/ Install(c)
    <2>1. PICK to : Goto(c, to) /\ Follows(cmd[c].op, cmd[c].pc, to)
      BY <1>10 DEF Look, Fetch, Hash, Replace, Verify, Install, Step, Follows
    <2>2. QED
      BY <1>1, <1>10, <2>1, GotoOnward
         DEF Look, Fetch, Hash, Replace, Verify, Install, Step, Onward, Active, Ended
  <1>11. QED
    BY <1>2, <1>3, <1>4, <1>5, <1>6, <1>7, <1>8, <1>9, <1>10 DEF Command

-----------------------------------------------------------------------------
(* Types: the processes, and the inodes of the viewer's package.           *)

ProcsOK == /\ \A p, q \in procs : p.pid = q.pid => p = q
           /\ \A p \in procs : p.inst \in up \cup {None}

\* A call that has not opened the package for writing has made no inode.
Fresh(c) == cmd[c].pc \in {"new", "bring up", "look", "open"} => part # c /\ dest # c

InodesOK == /\ \A c \in Calls : Fresh(c)
            /\ part # None => part # dest

TypeInv == CommandInv /\ ProcsOK /\ InodesOK

LEMMA ProcsShrink ==
  ASSUME ProcsOK, procs' \subseteq procs, \A p \in procs' : p.inst \in up' \cup {None}
  PROVE  ProcsOK'
  BY DEF ProcsOK

LEMMA ProcsGrow ==
  ASSUME ProcsOK, NEW p \in Free, NEW i \in up \cup {None}, NEW b,
         procs' = procs \cup {[pid |-> p, inst |-> i, init |-> b]}, up' = up
  PROVE  ProcsOK'
  <1>1. \A q \in procs : q.pid # p
    BY DEF Free
  <1>2. [pid |-> p, inst |-> i, init |-> b].pid = p /\ [pid |-> p, inst |-> i, init |-> b].inst = i
    OBVIOUS
  <1>3. QED
    BY <1>1, <1>2 DEF ProcsOK

\* A new process gets a free pid in a rootfs that is mounted; a teardown ends all of it.
LEMMA ProcsKeep ==
  ASSUME CommandInv, ProcsOK, [Next]_vars
  PROVE  ProcsOK'
  <1>1. ASSUME NEW c \in Calls, Command(c) PROVE ProcsOK'
    <2>1. CASE BringUp(c)
      BY <2>1, ProcsShrink DEF BringUp, systemd, ProcsOK
    <2>2. CASE Down(c)
      BY <2>2, ProcsShrink DEF Down, ProcsOK
    <2>3. CASE LaunchInit(c)
      BY <2>3, ProcsShrink, ProcsGrow DEF LaunchInit, device, ProcsOK
    <2>4. CASE KillInit(c)
      BY <2>4, ProcsShrink DEF KillInit, device, ProcsOK
    <2>5. CASE Stage(c) \/ Execute(c) \/ Remove(c) \/ Copy(c) \/ Pull(c) \/ Unstage(c)
      BY <2>5, ProcsShrink
         DEF Stage, Execute, Remove, Copy, Pull, Unstage, device, systemd, ProcsOK
    <2>6. CASE CheckRunning(c) \/ FindInit(c) \/ Report(c) \/ Target(c) \/ StageIn(c) \/ Nsenter(c)
      BY <2>6, ProcsShrink
         DEF CheckRunning, FindInit, Report, Target, StageIn, Nsenter, device, systemd, ProcsOK
    <2>7. CASE Look(c) \/ Open(c) \/ Fetch(c) \/ Hash(c) \/ Replace(c) \/ Verify(c) \/ Install(c)
      BY <2>7, ProcsShrink
         DEF Look, Open, Fetch, Hash, Replace, Verify, Install, device, systemd, ProcsOK
    <2>8. QED
      BY <1>1, <2>1, <2>2, <2>3, <2>4, <2>5, <2>6, <2>7 DEF Command
  <1>2. CASE Spawn
    <2>1. PICK p \in Free, i \in up \cup {None} :
            procs' = procs \cup {[pid |-> p, inst |-> i, init |-> FALSE]}
      BY <1>2 DEF Spawn
    <2>2. QED
      BY <1>2, <2>1, ProcsGrow DEF Spawn, device
  <1>3. CASE LateWrite \/ Exit \/ Reboot \/ UNCHANGED vars \/ \E c \in Calls : Begin(c) \/ Cut(c)
    BY <1>3, ProcsShrink DEF LateWrite, Exit, Reboot, Begin, Cut, vars, device, systemd, ProcsOK
  <1>4. QED
    BY <1>1, <1>2, <1>3 DEF Next

\* The steps that touch what .part and .apk name.
OnCache == {"open", "fetch", "hash", "replace"}

LEMMA CacheMoves ==
  ASSUME NEW c \in Calls, Command(c), cmd[c].pc \notin OnCache
  PROVE  UNCHANGED <<part, dest>> /\ (cmd[c].pc # "install" => UNCHANGED installed)
                                  /\ UNCHANGED apk
  <1>1. ~Open(c) /\ ~Fetch(c) /\ ~Hash(c) /\ ~Replace(c) /\ (cmd[c].pc # "install" => ~Install(c))
    BY DEF OnCache, Open, Fetch, Hash, Replace, Install, Step
  <1>2. QED
    BY <1>1 DEF Command, BringUp, Down, Stage, Execute, Remove, Copy, Pull, Unstage, CheckRunning,
       LaunchInit, FindInit, Report, Target, KillInit, StageIn, Nsenter, Look, Verify, Install, cache

LEMMA InodesKeep ==
  ASSUME CommandInv, InodesOK, [Next]_vars
  PROVE  InodesOK'
  <1>1. ASSUME NEW c \in Calls, Command(c) PROVE InodesOK'
    <2>1. /\ \A d \in Calls : d # c => cmd'[d] = cmd[d]
          /\ cmd'[c].pc \in {"new", "bring up", "look", "open"} => cmd[c].pc \in {"bring up", "look"}
          /\ None \notin Calls
      BY <1>1, Paths, ConstantsAssumption DEF Follows
    <2>2. CASE Open(c)
      <3>1. cmd[c].pc = "open" /\ dest' = dest
        BY <2>2 DEF Open
      <3>2. part' = c \/ (part # None /\ part' = part)
        BY <2>2 DEF Open
      <3>3. QED
        BY <2>1, <3>1, <3>2 DEF InodesOK, Fresh
    <2>3. CASE Fetch(c) \/ Hash(c) \/ Replace(c)
      <3>1. /\ cmd[c].pc \in {"fetch", "hash", "replace"}
            /\ part' \in {part, None} /\ dest' \in {dest, part}
            /\ dest' # dest => part' = None
        BY <2>3 DEF Fetch, Hash, Replace, Step
      <3>2. QED
        BY <2>1, <3>1 DEF InodesOK, Fresh
    <2>4. CASE ~Open(c) /\ ~Fetch(c) /\ ~Hash(c) /\ ~Replace(c)
      <3>1. UNCHANGED <<part, dest>>
        BY <1>1, <2>4 DEF Command, BringUp, Down, Stage, Execute, Remove, Copy, Pull, Unstage,
           CheckRunning, LaunchInit, FindInit, Report, Target, KillInit, StageIn, Nsenter, Look,
           Verify, Install, cache
      <3>2. QED
        BY <2>1, <3>1 DEF InodesOK, Fresh
    <2>5. QED
      BY <2>2, <2>3, <2>4
  <1>2. ASSUME NEW c \in Calls, Begin(c) PROVE InodesOK'
    <2>1. cmd[c].pc = "new" /\ UNCHANGED <<part, dest>>
      BY <1>2 DEF Begin, cache
    <2>2. \A d \in Calls : d # c => cmd'[d] = cmd[d]
      BY <1>2 DEF Begin, CommandInv
    <2>3. QED
      BY <2>1, <2>2 DEF InodesOK, Fresh
  <1>3. ASSUME NEW c \in Calls, Cut(c) PROVE InodesOK'
    <2>1. Goto(c, "failed") /\ UNCHANGED <<part, dest>>
      BY <1>3 DEF Cut, cache
    <2>2. cmd'[c].pc = "failed" /\ \A d \in Calls : d # c => cmd'[d] = cmd[d]
      BY <2>1, GotoOnward DEF CommandInv, Onward
    <2>3. QED
      BY <2>1, <2>2 DEF InodesOK, Fresh
  <1>4. CASE Reboot
    <2>1. ASSUME NEW c \in Calls PROVE cmd'[c] = cmd[c] \/ cmd'[c].pc = "failed"
      BY <1>4 DEF Reboot, CommandInv, Cmd
    <2>2. QED
      BY <1>4, <2>1 DEF Reboot, cache, InodesOK, Fresh
  <1>5. CASE LateWrite \/ Spawn \/ Exit \/ UNCHANGED vars
    BY <1>5 DEF LateWrite, Spawn, Exit, vars, cache, InodesOK, Fresh
  <1>6. QED
    BY <1>1, <1>2, <1>3, <1>4, <1>5 DEF Next

LEMMA TypeInit == Init => TypeInv
  <1> SUFFICES ASSUME Init PROVE TypeInv
    OBVIOUS
  <1>1. ProcsOK /\ InodesOK
    BY ConstantsAssumption DEF Init, ProcsOK, InodesOK, Fresh
  <1>2. QED
    BY <1>1, CommandInit, ConstantsAssumption DEF TypeInv

LEMMA TypeNext == TypeInv /\ [Next]_vars => TypeInv'
  BY CommandNext, ProcsKeep, InodesKeep, ConstantsAssumption DEF TypeInv

LEMMA TypesThroughout == Spec => []TypeInv
  BY TypeInit, TypeNext, PTL DEF Spec

\* Every reachable state is well typed: every process has a pid of its own and belongs to
\* a mounted rootfs if to any, and the package under download is never the one in use,
\* for every number of commands at once and every fault (gui.py:451).
THEOREM CommandsTyped == Spec => []TypeOK
  <1>1. TypeInv => TypeOK
    BY DEF TypeInv, CommandInv, Typed, Files, ProcsOK, InodesOK, Contents, TypeOK
  <1>2. QED
    BY <1>1, TypesThroughout, PTL

-----------------------------------------------------------------------------
(* Roles: which commands take which steps.                                 *)

Role(c) ==
  LET pc == cmd[c].pc
      op == cmd[c].op IN
  /\ pc = "bring up" => op \in {"run", "shot", "viewer", "start"}
  /\ pc = "down" => op = "down"
  /\ pc \in {"stage", "execute", "remove", "remove failed"} => op \in {"run", "shot"}
  /\ pc \in {"copy", "pull", "unstage"} => op = "shot"
  /\ pc \in {"copy", "unstage"} => Method = "su"
  /\ pc \in {"check", "launch", "find", "report"} => op = "start"
  /\ pc = "target" => op \in {"stop", "runin"}
  /\ pc = "kill" => op = "stop"
  /\ pc \in {"stage in", "nsenter"} => op = "runin"
  /\ pc \in {"look", "open", "fetch", "hash", "replace", "verify", "install"} => op = "viewer"
  /\ pc # "new" /\ op = "viewer" => c \in Viewers

\* Of the commands that exclude each other at most one is under way.
Sole == \A c, d \in Calls : /\ Active(c) /\ cmd[c].op \in Alone
                            /\ Active(d) /\ cmd[d].op \in Alone
                            => c = d

RoleInv == TypeInv /\ Sole /\ \A c \in Calls : Role(c)

\* The record a command begins with.
LEMMA Begins ==
  ASSUME CommandInv, NEW c \in Calls, Begin(c)
  PROVE  /\ cmd[c].pc = "new"
         /\ \A d \in Calls : d # c => cmd'[d] = cmd[d]
         /\ cmd'[c].op \in Ops /\ (cmd'[c].op = "viewer" => c \in Viewers)
         /\ cmd'[c].op \in Alone => \A d \in Calls : Active(d) => cmd[d].op \notin Alone
         /\ cmd'[c].pc = IF cmd'[c].op = "down" THEN "down"
                         ELSE IF cmd'[c].op \in {"stop", "runin"} THEN "target"
                         ELSE IF cmd'[c].inst \in up THEN Needs(cmd'[c].op) ELSE "bring up"
         /\ cmd'[c].ran = cmd[c].ran
         /\ UNCHANGED <<up, tmp, staged, late, procs, pidfile, part, dest, apk, installed>>
  <1>1. cmd \in [Calls -> Cmd] /\ cmd[c].pc = "new"
    BY DEF CommandInv, Begin
  <1>2. PICK o \in Ops, i \in Instances :
          /\ o = "viewer" => c \in Viewers
          /\ o \in Alone => \A d \in Calls : Active(d) => cmd[d].op \notin Alone
          /\ cmd' = [cmd EXCEPT ![c].op = o, ![c].inst = i,
                       ![c].pc = IF o = "down" THEN "down"
                                 ELSE IF o \in {"stop", "runin"} THEN "target"
                                 ELSE IF i \in up THEN Needs(o) ELSE "bring up"]
    BY DEF Begin
  <1>3. /\ \A d \in Calls : d # c => cmd'[d] = cmd[d]
        /\ cmd'[c].op = o /\ cmd'[c].inst = i /\ cmd'[c].ran = cmd[c].ran
        /\ cmd'[c].pc = IF o = "down" THEN "down"
                        ELSE IF o \in {"stop", "runin"} THEN "target"
                        ELSE IF i \in up THEN Needs(o) ELSE "bring up"
    BY <1>1, <1>2 DEF Cmd
  <1>4. UNCHANGED <<up, tmp, staged, late, procs, pidfile, part, dest, apk, installed>>
    BY DEF Begin, device, systemd, cache
  <1>5. QED
    BY <1>1, <1>2, <1>3, <1>4

\* A command that a cut or a reboot ends, and one that they leave alone.
LEMMA Ends ==
  ASSUME CommandInv, Reboot \/ \E c \in Calls : Cut(c)
  PROVE  /\ \A d \in Calls : \/ cmd'[d] = cmd[d]
                             \/ /\ Active(d) /\ cmd'[d].pc = "failed"
                                /\ cmd'[d].op = cmd[d].op /\ cmd'[d].inst = cmd[d].inst
                                /\ cmd'[d].ran = cmd[d].ran /\ cmd'[d].inside = cmd[d].inside
         /\ UNCHANGED <<tmp, staged, pidfile, part, dest, apk, installed>>
         /\ late' \subseteq late /\ procs' \subseteq procs
  <1>0. cmd \in [Calls -> Cmd]
    BY DEF CommandInv
  <1>1. CASE Reboot
    <2>1. ASSUME NEW d \in Calls
          PROVE  \/ cmd'[d] = cmd[d]
                 \/ Active(d) /\ cmd'[d] = [cmd[d] EXCEPT !.pc = "failed"]
      BY <1>1 DEF Reboot
    <2>2. \A d \in Calls : LET r == [cmd[d] EXCEPT !.pc = "failed"] IN
            /\ r.pc = "failed" /\ r.op = cmd[d].op /\ r.inst = cmd[d].inst
            /\ r.ran = cmd[d].ran /\ r.inside = cmd[d].inside
      BY <1>0 DEF Cmd
    <2>3. QED
      BY <1>1, <2>1, <2>2 DEF Reboot, cache
  <1>2. ASSUME NEW c \in Calls, Cut(c)
        PROVE  /\ \A d \in Calls : \/ cmd'[d] = cmd[d]
                                   \/ /\ Active(d) /\ cmd'[d].pc = "failed"
                                      /\ cmd'[d].op = cmd[d].op /\ cmd'[d].inst = cmd[d].inst
                                      /\ cmd'[d].ran = cmd[d].ran /\ cmd'[d].inside = cmd[d].inside
               /\ UNCHANGED <<tmp, staged, pidfile, part, dest, apk, installed>>
               /\ late' \subseteq late /\ procs' \subseteq procs
    <2>1. /\ Active(c) /\ Goto(c, "failed")
          /\ UNCHANGED <<tmp, staged, late, procs, pidfile, part, dest, apk, installed>>
      BY <1>2 DEF Cut, device, systemd, cache
    <2>2. QED
      BY <1>0, <2>1, GotoOnward DEF Onward
  <1>3. QED
    BY <1>1, <1>2

\* The steps that are no command's leave all commands alone.
LEMMA Idle ==
  ASSUME [Next]_vars
  PROVE  \/ \E c \in Calls : Begin(c) \/ Command(c)
         \/ Reboot \/ \E c \in Calls : Cut(c)
         \/ LateWrite /\ UNCHANGED <<cmd, up, procs, pidfile, part, dest, apk, installed>>
         \/ (Spawn \/ Exit) /\ UNCHANGED <<cmd, up, tmp, staged, late, pidfile, part, dest, apk, installed>>
         \/ UNCHANGED <<cmd, up, tmp, staged, late, procs, pidfile, part, dest, apk, installed>>
  <1>1. CASE UNCHANGED vars
    BY <1>1 DEF vars, device, systemd, cache
  <1>2. CASE LateWrite
    BY <1>2 DEF LateWrite, systemd, cache
  <1>3. CASE Spawn \/ Exit
    BY <1>3 DEF Spawn, Exit, device, cache
  <1>4. QED
    BY <1>1, <1>2, <1>3 DEF Next

LEMMA RoleStays ==
  ASSUME NEW c \in Calls, Role(c),
         \/ cmd'[c] = cmd[c]
         \/ Active(c) /\ cmd'[c].pc = "failed" /\ cmd'[c].op = cmd[c].op
  PROVE  Role(c)'
  <1>1. CASE cmd'[c] = cmd[c]
    BY <1>1 DEF Role
  <1>2. CASE Active(c) /\ cmd'[c].pc = "failed" /\ cmd'[c].op = cmd[c].op
    BY <1>2 DEF Role, Active
  <1>3. QED
    BY <1>1, <1>2

LEMMA RoleKeeps ==
  ASSUME RoleInv, [Next]_vars
  PROVE  (\A c \in Calls : Role(c))'
  <1>1. CommandInv /\ \A c \in Calls : Role(c)
    BY DEF RoleInv, TypeInv
  <1>2. ASSUME NEW c \in Calls, Begin(c) PROVE \A d \in Calls : Role(d)'
    <2>1. PICK op, i, pc :
            /\ cmd'[c].op = op /\ cmd'[c].pc = pc /\ op \in Ops /\ (op = "viewer" => c \in Viewers)
            /\ pc = IF op = "down" THEN "down" ELSE IF op \in {"stop", "runin"} THEN "target"
                    ELSE IF i \in up THEN Needs(op) ELSE "bring up"
      BY <1>1, <1>2, Begins
    <2>2. op \in AllOps
      BY <2>1, ConstantsAssumption
    <2>3. Role(c)'
      BY <2>1, <2>2 DEF Role, Needs, AllOps
    <2>4. QED
      BY <1>1, <1>2, <2>3, Begins, RoleStays
  <1>3. ASSUME NEW c \in Calls, Command(c) PROVE \A d \in Calls : Role(d)'
    <2>1. /\ \A d \in Calls : d # c => cmd'[d] = cmd[d]
          /\ cmd'[c].op = cmd[c].op /\ Follows(cmd[c].op, cmd[c].pc, cmd'[c].pc)
          /\ Active(c) /\ Role(c)
      BY <1>1, <1>3, Paths
    <2>2. PICK op, from, to : /\ cmd[c].op = op /\ cmd[c].pc = from
                              /\ cmd'[c].op = op /\ cmd'[c].pc = to
      BY <2>1
    <2>3. Role(c)'
      BY <2>1, <2>2, ConstantsAssumption DEF Role, Follows, Needs, Active
    <2>4. QED
      BY <1>1, <2>1, <2>3, RoleStays
  <1>4. CASE Reboot \/ \E c \in Calls : Cut(c)
    BY <1>1, <1>4, Ends, RoleStays
  <1>5. CASE UNCHANGED cmd
    BY <1>1, <1>5, RoleStays
  <1>6. QED
    BY <1>2, <1>3, <1>4, <1>5, Idle

LEMMA SoleKeeps ==
  ASSUME RoleInv, [Next]_vars
  PROVE  Sole'
  <1>1. CommandInv /\ Sole
    BY DEF RoleInv, TypeInv
  <1>2. ASSUME NEW c \in Calls, Begin(c) PROVE Sole'
    BY <1>1, <1>2, Begins DEF Sole, Active
  <1>3. ASSUME NEW c \in Calls, Command(c) PROVE Sole'
    <2>1. /\ Active(c) /\ cmd'[c].op = cmd[c].op
          /\ \A d \in Calls : d # c => cmd'[d] = cmd[d]
      BY <1>1, <1>3, Paths
    <2>2. \A d \in Calls : Active(d)' => Active(d) /\ cmd'[d].op = cmd[d].op
      BY <2>1 DEF Active
    <2>3. QED
      BY <1>1, <2>2 DEF Sole
  <1>4. CASE Reboot \/ \E c \in Calls : Cut(c)
    <2>1. \A d \in Calls : Active(d)' => Active(d) /\ cmd'[d].op = cmd[d].op
      BY <1>1, <1>4, Ends DEF Active, Ended
    <2>2. QED
      BY <1>1, <2>1 DEF Sole
  <1>5. CASE UNCHANGED cmd
    BY <1>1, <1>5 DEF Sole, Active
  <1>6. QED
    BY <1>2, <1>3, <1>4, <1>5, Idle

LEMMA RoleInit == Init => RoleInv
  <1>1. Init => \A c \in Calls : cmd[c].pc = "new"
    BY DEF Init
  <1>2. QED
    BY <1>1, TypeInit DEF RoleInv, Role, Sole, Active

LEMMA RoleNext == RoleInv /\ [Next]_vars => RoleInv'
  BY TypeNext, RoleKeeps, SoleKeeps DEF RoleInv

-----------------------------------------------------------------------------
(* Screenshots: where no two are taken at once and no copy comes late, or  *)
(* where adb pull needs no copy.                                           *)

Unshared == Method = "adbd" \/ ("shot" \in Alone /\ "copy late" \notin Faults)

Picture(c) ==
  cmd[c].op = "shot" =>
    /\ cmd[c].pc = "pull" /\ Method = "su" => staged = c
    /\ cmd[c].pc = "unstage" => cmd[c].got \in {c, None}
    /\ cmd[c].pc = "ok" => cmd[c].got = c

ShotInv == /\ RoleInv
           /\ \A c \in Calls : Picture(c)
           /\ Method = "su" => \A w \in late : w.name # None

LEMMA StagedMoves ==
  ASSUME NEW c \in Calls, Command(c), ~Copy(c), ~Unstage(c)
  PROVE  UNCHANGED staged /\ (late' # late => Stage(c))
  BY DEF Command, BringUp, Down, Stage, Execute, Remove, Pull, CheckRunning, LaunchInit, FindInit,
     Report, Target, KillInit, StageIn, Nsenter, Look, Open, Fetch, Hash, Replace, Verify, Install, device

LEMMA LateNamed ==
  ASSUME Unshared, Method = "su", ShotInv, [Next]_vars
  PROVE  \A w \in late' : w.name # None
  <1>1. /\ \A w \in late : w.name # None
        /\ CommandInv /\ Method # "adbd" /\ "copy late" \notin Faults
    BY DEF ShotInv, RoleInv, TypeInv, Unshared
  <1>2. ASSUME NEW c \in Calls, Command(c) PROVE \A w \in late' : w.name # None
    <2>1. CASE Stage(c)
      <3>1. late' = late \/ late' = late \cup {[inst |-> cmd[c].inst, name |-> c, by |-> c]}
        BY <2>1 DEF Stage, Name
      <3>2. [inst |-> cmd[c].inst, name |-> c, by |-> c].name # None
        BY ConstantsAssumption
      <3>3. QED
        BY <1>1, <3>1, <3>2
    <2>2. CASE Copy(c) \/ Unstage(c)
      BY <1>1, <2>2 DEF Copy, Unstage
    <2>3. QED
      BY <1>1, <1>2, <2>1, <2>2, StagedMoves
  <1>3. ASSUME NEW c \in Calls, Begin(c) PROVE \A w \in late' : w.name # None
    BY <1>1, <1>3, Begins
  <1>4. CASE Reboot \/ \E c \in Calls : Cut(c)
    BY <1>1, <1>4, Ends
  <1>5. CASE LateWrite \/ UNCHANGED late
    BY <1>1, <1>5 DEF LateWrite
  <1>6. QED
    BY <1>2, <1>3, <1>4, <1>5, Idle

\* A step of c does not disturb the picture of another command.
LEMMA PictureStays ==
  ASSUME NEW c \in Calls, Picture(c), staged' = staged,
         cmd'[c] = cmd[c] \/ cmd'[c].pc = "failed"
  PROVE  Picture(c)'
  <1>1. CASE cmd'[c] = cmd[c]
    BY <1>1 DEF Picture
  <1>2. CASE cmd'[c].pc = "failed"
    BY <1>2 DEF Picture
  <1>3. QED
    BY <1>1, <1>2

LEMMA PictureKeeps ==
  ASSUME Unshared, ShotInv, NEW c \in Calls, Command(c)
  PROVE  \A d \in Calls : Picture(d)'
  <1>1. /\ CommandInv /\ Role(c) /\ Sole
        /\ \A d \in Calls : Picture(d)
        /\ cmd[c] \in Cmd
    BY DEF ShotInv, RoleInv, TypeInv, CommandInv
  <1>2. /\ Active(c) /\ cmd'[c].op = cmd[c].op
        /\ \A d \in Calls : d # c => cmd'[d] = cmd[d]
        /\ Follows(cmd[c].op, cmd[c].pc, cmd'[c].pc)
    BY <1>1, Paths
  <1>3. ASSUME Copy(c) \/ Unstage(c), NEW d \in Calls, d # c PROVE Picture(d)'
    <2>1. cmd[c].op = "shot" /\ Method = "su"
      BY <1>1, <1>3 DEF Copy, Unstage, Step, Role
    <2>2. "shot" \in Alone
      BY <2>1 DEF Unshared
    <2>3. ~(cmd[d].op = "shot" /\ cmd[d].pc = "pull")
      BY <1>1, <1>2, <1>3, <2>1, <2>2 DEF Sole, Active, Ended
    <2>4. QED
      BY <1>1, <1>2, <1>3, <2>3 DEF Picture
  <1>4. CASE Copy(c)
    <2>1. /\ cmd'[c].pc = "pull" /\ staged' = c
          \/ cmd'[c].pc = "failed"
      BY <1>1, <1>4, GotoOnward DEF Copy, Step, Onward, CommandInv
    <2>2. Picture(c)'
      BY <2>1 DEF Picture
    <2>3. QED
      BY <1>3, <1>4, <2>2
  <1>5. CASE Unstage(c)
    <2>1. /\ cmd[c].pc = "unstage" /\ cmd'[c].got = cmd[c].got
          /\ cmd'[c].pc = IF cmd[c].got = None THEN "failed" ELSE "ok"
      BY <1>1, <1>5, GotoOnward DEF Unstage, Step, Onward, CommandInv
    <2>2. Picture(c)'
      BY <1>1, <1>2, <2>1 DEF Picture
    <2>3. QED
      BY <1>3, <1>5, <2>2
  <1>6. CASE Pull(c)
    <2>1. cmd[c].pc = "pull" /\ cmd[c].op = "shot" /\ UNCHANGED staged
      BY <1>1, <1>6 DEF Pull, Role, device
    <2>2. PICK file, got, to :
            /\ file = (IF Method = "su" THEN staged ELSE IF cmd[c].inst \in up THEN c ELSE None)
            /\ got \in {file, None}
            /\ to = (IF Method = "su" THEN "unstage" ELSE IF got = None THEN "failed" ELSE "ok")
            /\ cmd' = [cmd EXCEPT ![c].got = got, ![c].pc = to]
      BY <1>6 DEF Pull
    <2>3. cmd'[c].got = got /\ cmd'[c].pc = to
      BY <1>1, <2>2 DEF CommandInv, Cmd
    <2>4. /\ to = "ok" => got = c
          /\ to = "unstage" => got \in {c, None}
      BY <1>1, <2>1, <2>2 DEF Picture
    <2>5. Picture(c)'
      BY <2>1, <2>2, <2>3, <2>4 DEF Picture
    <2>6. QED
      BY <1>1, <1>2, <2>1, <2>5, PictureStays
  <1>7. CASE ~Copy(c) /\ ~Unstage(c) /\ ~Pull(c)
    <2>1. UNCHANGED staged
      BY <1>7, StagedMoves
    <2>2. cmd[c].pc \notin {"copy", "pull", "unstage"}
      <3>1. cmd[c].pc \in {"copy", "pull", "unstage"} => Copy(c) \/ Pull(c) \/ Unstage(c)
        BY DEF Command, BringUp, Down, Stage, Execute, Remove, CheckRunning, LaunchInit,
           FindInit, Report, Target, KillInit, StageIn, Nsenter, Look, Open, Fetch, Hash,
           Replace, Verify, Install, Step
      <3>2. QED
        BY <1>7, <3>1
    <2>3. ~(cmd'[c].op = "shot" /\ (\/ cmd'[c].pc \in {"unstage", "ok"}
                                    \/ cmd'[c].pc = "pull" /\ Method = "su"))
      BY <1>1, <1>2, <2>2 DEF Follows, Role, Needs
    <2>4. Picture(c)'
      BY <2>3 DEF Picture
    <2>5. QED
      BY <1>1, <1>2, <2>1, <2>4, PictureStays
  <1>8. QED
    BY <1>4, <1>5, <1>6, <1>7

LEMMA ShotNext ==
  ASSUME Unshared, ShotInv, [Next]_vars
  PROVE  ShotInv'
  <1>1. /\ CommandInv /\ \A c \in Calls : Picture(c)
        /\ Method = "su" => \A w \in late : w.name # None
    BY DEF ShotInv, RoleInv, TypeInv
  <1>2. ASSUME NEW c \in Calls, Begin(c) PROVE \A d \in Calls : Picture(d)'
    <2>1. Picture(c)'
      BY <1>1, <1>2, Begins DEF Picture, Needs
    <2>2. QED
      BY <1>1, <1>2, <2>1, Begins, PictureStays
  <1>3. ASSUME Reboot \/ \E c \in Calls : Cut(c) PROVE \A d \in Calls : Picture(d)'
    BY <1>1, <1>3, Ends, PictureStays
  <1>4. ASSUME LateWrite /\ UNCHANGED cmd PROVE \A d \in Calls : Picture(d)'
    <2>1. Method = "su" => UNCHANGED staged
      BY <1>1, <1>4 DEF LateWrite
    <2>2. QED
      BY <1>1, <1>4, <2>1 DEF Picture
  <1>5. ASSUME UNCHANGED <<cmd, staged>> PROVE \A d \in Calls : Picture(d)'
    BY <1>1, <1>5, PictureStays
  <1>6. \A d \in Calls : Picture(d)'
    BY <1>2, <1>3, <1>4, <1>5, PictureKeeps, Idle
  <1>7. RoleInv'
    BY RoleNext DEF ShotInv
  <1>8. QED
    BY <1>6, <1>7, LateNamed DEF ShotInv

\* A screenshot that succeeds brings its own picture to the host, for every number of
\* commands at once, cuts and reboots, provided that no other is taken at the time and
\* no copy comes late, or that adb pull runs as root (gui.py:624-633).
THEOREM OwnScreenshot ==
  ASSUME Unshared
  PROVE  Spec => []ShotIsOwn
  <1>1. Init => ShotInv
    BY RoleInit DEF Init, ShotInv, Picture
  <1>2. ShotInv /\ [Next]_vars => ShotInv'
    BY ShotNext
  <1>3. ShotInv => ShotIsOwn
    BY DEF ShotInv, Picture, ShotIsOwn
  <1>4. QED
    BY <1>1, <1>2, <1>3, PTL DEF Spec

-----------------------------------------------------------------------------
(* The viewer's package, where no more than two calls download it at once. *)

Paired == \A a, b, c \in Viewers : a = b \/ b = c \/ a = c

\* A call at one of these has a whole .apk, or may get to use one that is there.
Deciding == {"new", "bring up", "look", "open", "verify", "install"}

Inodes == /\ apk \in [Calls -> [by : Calls \cup {None}, whole : BOOLEAN]]
          /\ dest \in Calls \cup {None}

\* A call that is about to move a file into place which the other one has truncated
\* is alone with that one, and that one has still to find out.
Truncated(c) ==
  cmd[c].pc = "replace" /\ part # None /\ ~Whole(part)
    => \A d \in Viewers : d # c => cmd[d].pc \notin Deciding

WholeInv ==
  /\ RoleInv
  /\ Inodes
  /\ \A c \in Calls : (cmd[c].pc = "install" => Whole(dest)) /\ Truncated(c)
  /\ InstalledWhole

\* What remains of WholeInv once RoleInv is known to be kept.
CacheOK == /\ Inodes
           /\ \A c \in Calls : (cmd[c].pc = "install" => Whole(dest)) /\ Truncated(c)
           /\ InstalledWhole

\* A step that touches no file keeps them as they are.
LEMMA FilesStay ==
  ASSUME CacheOK, UNCHANGED <<part, dest, apk, installed>>,
         \A d \in Calls : /\ cmd'[d].pc = "install" => cmd[d].pc = "install" \/ Whole(dest)
                          /\ cmd'[d].pc = "replace" => cmd[d].pc = "replace" \/ Whole(part)
                          /\ d \in Viewers /\ cmd'[d].pc \in Deciding => cmd[d].pc \in Deciding
  PROVE  CacheOK'
  <1>1. Whole(part)' = Whole(part) /\ Whole(dest)' = Whole(dest)
    BY DEF Whole
  <1>2. ASSUME NEW c \in Calls PROVE Truncated(c)'
    BY <1>1, ConstantsAssumption DEF CacheOK, Truncated
  <1>3. \A c \in Calls : cmd'[c].pc = "install" => Whole(dest)'
    BY <1>1 DEF CacheOK
  <1>4. InstalledWhole' /\ Inodes'
    BY DEF CacheOK, InstalledWhole, Inodes
  <1>5. QED
    BY <1>2, <1>3, <1>4 DEF CacheOK

LEMMA OpenWhole ==
  ASSUME Paired, WholeInv, NEW c \in Calls, Open(c)
  PROVE  CacheOK'
  <1>1. /\ CommandInv /\ InodesOK /\ Inodes /\ None \notin Calls /\ Viewers \subseteq Calls
        /\ \A d \in Calls : Role(d)
        /\ part \in Calls \cup {None}
    BY ConstantsAssumption DEF WholeInv, RoleInv, TypeInv, CommandInv, Typed
  <1>2. PICK n : /\ n \in Calls /\ n \in {c, part}
                 /\ part' = n
                 /\ apk' = [apk EXCEPT ![n] = [by |-> c, whole |-> FALSE]]
                 /\ cmd' = [cmd EXCEPT ![c].pc = "fetch", ![c].fd = n]
    BY <1>1 DEF Open
  <1>3. cmd[c].pc = "open" /\ UNCHANGED <<dest, installed>>
    BY DEF Open
  <1>4. cmd'[c].pc = "fetch" /\ \A d \in Calls : d # c => cmd'[d] = cmd[d]
    BY <1>1, <1>2 DEF CommandInv, Cmd
  <1>5. n # dest
    BY <1>1, <1>2, <1>3 DEF InodesOK, Fresh
  <1>6. Inodes'
    BY <1>1, <1>2, <1>3 DEF Inodes
  <1>7. Whole(dest)' = Whole(dest)
    BY <1>1, <1>2, <1>3, <1>5 DEF Whole, Inodes
  <1>8. ASSUME NEW b \in Calls, cmd'[b].pc = "replace", NEW d \in Viewers, d # b
        PROVE  cmd'[d].pc \notin Deciding
    <2>1. b # c /\ cmd[b].pc = "replace"
      BY <1>4, <1>8
    <2>2. b \in Viewers /\ c \in Viewers
      BY <1>1, <1>3, <2>1 DEF Role
    <2>3. d = c
      BY <1>8, <2>1, <2>2 DEF Paired
    <2>4. QED
      BY <1>4, <2>3 DEF Deciding
  <1>9. \A b \in Calls : Truncated(b)'
    BY <1>8 DEF Truncated
  <1>10. QED
    BY <1>3, <1>4, <1>6, <1>7, <1>9 DEF CacheOK, WholeInv, InstalledWhole

LEMMA FetchWhole ==
  ASSUME WholeInv, NEW c \in Calls, Fetch(c)
  PROVE  CacheOK'
  <1>1. /\ CommandInv /\ Inodes /\ None \notin Calls /\ Viewers \subseteq Calls
        /\ part \in Calls \cup {None}
    BY ConstantsAssumption DEF WholeInv, RoleInv, TypeInv, CommandInv, Typed
  <1>2. PICK to \in {"hash", "failed"} : cmd[c].pc = "fetch" /\ Goto(c, to)
    BY DEF Fetch, Step
  <1>3. cmd'[c].pc = to /\ \A d \in Calls : d # c => cmd'[d] = cmd[d]
    BY <1>1, <1>2, GotoOnward DEF CommandInv, Onward
  <1>4. UNCHANGED <<dest, installed>> /\ part' \in {part, None}
    BY DEF Fetch
  <1>5. apk' = apk \/ apk' = [apk EXCEPT ![cmd[c].fd].whole = TRUE]
    BY DEF Fetch
  <1>6. Inodes' /\ \A n \in Calls : apk[n].whole => apk'[n].whole
    <2>1. /\ \A n \in Calls : apk'[n] = apk[n] \/ apk'[n] = [apk[n] EXCEPT !.whole = TRUE]
          /\ \E g : apk' = [n \in Calls |-> g[n]]
      BY <1>1, <1>5 DEF Inodes
    <2>2. \A n \in Calls : LET r == [apk[n] EXCEPT !.whole = TRUE] IN
            r \in [by : Calls \cup {None}, whole : BOOLEAN] /\ r.whole
      BY <1>1 DEF Inodes
    <2>3. \A n \in Calls : /\ apk'[n] \in [by : Calls \cup {None}, whole : BOOLEAN]
                           /\ apk[n].whole => apk'[n].whole
      BY <1>1, <2>1, <2>2 DEF Inodes
    <2>4. QED
      BY <1>1, <1>4, <2>1, <2>3 DEF Inodes
  <1>7. /\ Whole(dest) => Whole(dest)'
        /\ part' # None /\ Whole(part) => Whole(part)'
    BY <1>1, <1>4, <1>6 DEF Whole, Inodes
  <1>8. ASSUME NEW b \in Calls PROVE Truncated(b)'
    BY <1>1, <1>2, <1>3, <1>4, <1>7, <1>8 DEF Truncated, WholeInv, Deciding
  <1>9. \A b \in Calls : cmd'[b].pc = "install" => Whole(dest)'
    BY <1>2, <1>3, <1>7 DEF WholeInv
  <1>10. QED
    BY <1>4, <1>6, <1>8, <1>9 DEF CacheOK, WholeInv, InstalledWhole

LEMMA HashReplaceWhole ==
  ASSUME WholeInv, NEW c \in Calls, Hash(c) \/ Replace(c)
  PROVE  CacheOK'
  <1>1. /\ CommandInv /\ Inodes /\ None \notin Calls /\ Viewers \subseteq Calls
        /\ part \in Calls \cup {None} /\ \A d \in Calls : Role(d)
    BY ConstantsAssumption DEF WholeInv, RoleInv, TypeInv, CommandInv, Typed
  <1>2. UNCHANGED <<apk, installed>>
    BY DEF Hash, Replace
  <1>3. CASE Hash(c)
    <2>1. PICK to \in {"replace", "failed"} :
            /\ cmd[c].pc = "hash" /\ Goto(c, to) /\ (to = "replace" => Whole(part))
            /\ part' = (IF Whole(part) THEN part ELSE None) /\ dest' = dest
      BY <1>3 DEF Hash, Step
    <2>2. cmd'[c].pc = to /\ \A d \in Calls : d # c => cmd'[d] = cmd[d]
      BY <1>1, <2>1, GotoOnward DEF CommandInv, Onward
    <2>3. part' # None => Whole(part)'
      BY <1>2, <2>1 DEF Whole
    <2>4. Whole(dest)' = Whole(dest) /\ Inodes'
      BY <1>1, <1>2, <2>1 DEF Whole, Inodes
    <2>5. \A b \in Calls : Truncated(b)'
      BY <2>3 DEF Truncated
    <2>6. QED
      BY <1>2, <2>1, <2>2, <2>4, <2>5 DEF CacheOK, WholeInv, InstalledWhole
  <1>4. CASE Replace(c)
    <2>1. PICK to \in {"verify", "failed"} :
            /\ cmd[c].pc = "replace" /\ Goto(c, to)
            /\ part' = None /\ dest' = (IF part # None THEN part ELSE dest)
      BY <1>4 DEF Replace, Step
    <2>2. cmd'[c].pc = to /\ \A d \in Calls : d # c => cmd'[d] = cmd[d]
      BY <1>1, <2>1, GotoOnward DEF CommandInv, Onward
    <2>3. \A b \in Calls : Truncated(b)'
      BY <2>1 DEF Truncated
    <2>4. Inodes'
      BY <1>1, <1>2, <2>1 DEF Inodes
    <2>5. ASSUME NEW b \in Calls, cmd'[b].pc = "install" PROVE Whole(dest)'
      <3>1. b # c /\ cmd[b].pc = "install" /\ Whole(dest)
        BY <2>1, <2>2, <2>5 DEF WholeInv
      <3>2. b \in Viewers
        BY <1>1, <3>1 DEF Role
      <3>3. part # None => Whole(part)
        BY <2>1, <3>1, <3>2 DEF WholeInv, Truncated, Deciding
      <3>4. QED
        BY <1>2, <2>1, <3>1, <3>3 DEF Whole
    <2>6. QED
      BY <1>2, <2>3, <2>4, <2>5 DEF CacheOK, WholeInv, InstalledWhole
  <1>5. QED
    BY <1>3, <1>4

LEMMA ElseWhole ==
  ASSUME WholeInv, NEW c \in Calls, Command(c), cmd[c].pc \notin OnCache
  PROVE  CacheOK'
  <1>1. CommandInv /\ CacheOK
    BY DEF WholeInv, CacheOK, RoleInv, TypeInv
  <1>2. /\ \A d \in Calls : d # c => cmd'[d] = cmd[d]
        /\ Follows(cmd[c].op, cmd[c].pc, cmd'[c].pc)
        /\ UNCHANGED <<part, dest, apk>>
        /\ cmd[c].pc # "install" => UNCHANGED installed
    BY <1>1, Paths, CacheMoves
  <1>3. cmd'[c].pc = "install" => Whole(dest)
    <2>1. cmd'[c].pc = "install" => cmd[c].pc = "verify"
      BY <1>2 DEF Follows, Needs
    <2>2. cmd[c].pc = "verify" => Verify(c)
      BY DEF Command, BringUp, Down, Stage, Execute, Remove, Copy, Pull, Unstage, CheckRunning,
         LaunchInit, FindInit, Report, Target, KillInit, StageIn, Nsenter, Look, Open, Fetch, Hash,
         Replace, Install, Step
    <2>3. Verify(c) => Whole(dest) \/ cmd'[c].pc = "failed"
      <3>1. Verify(c) => Goto(c, "failed") \/ Whole(dest)
        BY DEF Verify, Step
      <3>2. QED
        BY <1>1, <3>1, GotoOnward DEF CommandInv, Onward
    <2>4. QED
      BY <2>1, <2>2, <2>3
  <1>4. cmd'[c].pc # "replace" /\ (cmd'[c].pc \in Deciding => cmd[c].pc \in Deciding)
    BY <1>2 DEF Follows, Needs, Deciding, OnCache
  <1>5. CASE Install(c)
    <2>1. installed' \in {installed, "whole"} /\ UNCHANGED <<part, dest, apk>>
      BY <1>5 DEF Install, Step, WholeInv
    <2>2. \A d \in Calls : d # c => cmd'[d] = cmd[d]
      BY <1>2
    <2>3. cmd'[c].pc \in {"ok", "failed"}
      BY <1>1, <1>5, GotoOnward DEF Install, Step, CommandInv, Onward
    <2>4. Whole(part)' = Whole(part) /\ Whole(dest)' = Whole(dest)
      BY <2>1 DEF Whole
    <2>5. ASSUME NEW b \in Calls PROVE Truncated(b)' /\ (cmd'[b].pc = "install" => Whole(dest)')
      BY <1>1, <2>1, <2>2, <2>3, <2>4, ConstantsAssumption DEF CacheOK, Truncated, Deciding
    <2>6. QED
      BY <1>1, <2>1, <2>5 DEF CacheOK, Inodes, InstalledWhole
  <1>6. CASE ~Install(c)
    <2>1. UNCHANGED installed
      <3>1. cmd[c].pc = "install" => Install(c)
        BY DEF Command, BringUp, Down, Stage, Execute, Remove, Copy, Pull, Unstage, CheckRunning,
           LaunchInit, FindInit, Report, Target, KillInit, StageIn, Nsenter, Look, Open, Fetch, Hash,
           Replace, Verify, Step
      <3>2. QED
        BY <1>2, <1>6, <3>1
    <2>2. QED
      BY <1>1, <1>2, <1>3, <1>4, <2>1, FilesStay
  <1>7. QED
    BY <1>5, <1>6

LEMMA WholeNext ==
  ASSUME Paired, WholeInv, [Next]_vars
  PROVE  WholeInv'
  <1>1. CommandInv /\ CacheOK
    BY DEF WholeInv, CacheOK, RoleInv, TypeInv
  <1>2. ASSUME NEW c \in Calls, Begin(c) PROVE CacheOK'
    BY <1>1, <1>2, Begins, FilesStay DEF Needs, Deciding
  <1>3. ASSUME NEW c \in Calls, Command(c) PROVE CacheOK'
    <2>1. cmd[c].pc \in OnCache => Open(c) \/ Fetch(c) \/ Hash(c) \/ Replace(c)
      BY <1>3 DEF Command, BringUp, Down, Stage, Execute, Remove, Copy, Pull, Unstage, CheckRunning,
         LaunchInit, FindInit, Report, Target, KillInit, StageIn, Nsenter, Look, Verify, Install,
         Step, OnCache
    <2>2. QED
      BY <1>3, <2>1, OpenWhole, FetchWhole, HashReplaceWhole, ElseWhole
  <1>4. ASSUME Reboot \/ \E c \in Calls : Cut(c) PROVE CacheOK'
    <2>1. \A d \in Calls : cmd'[d] = cmd[d] \/ cmd'[d].pc = "failed"
      BY <1>1, <1>4, Ends
    <2>2. QED
      BY <1>1, <1>4, <2>1, Ends, FilesStay, ConstantsAssumption DEF Deciding
  <1>5. ASSUME UNCHANGED <<cmd, part, dest, apk, installed>> PROVE CacheOK'
    BY <1>1, <1>5, FilesStay
  <1>6. CacheOK'
    BY <1>2, <1>3, <1>4, <1>5, Idle
  <1>7. RoleInv'
    BY RoleNext DEF WholeInv
  <1>8. QED
    BY <1>6, <1>7 DEF CacheOK, WholeInv

\* A package that is installed has the expected contents, for every number of commands
\* at once, of which no more than two want the viewer: the second truncates what the
\* first has verified and is about to move into place, but nobody installs it
\* (gui.py:436-451, 514).
THEOREM WholeViewer ==
  ASSUME Paired
  PROVE  Spec => []InstalledWhole
  <1>1. Init => WholeInv
    <2>1. Init => /\ part = None /\ dest = None /\ installed = None
                  /\ apk = [n \in Calls |-> [by |-> None, whole |-> FALSE]]
                  /\ \A c \in Calls : cmd[c].pc = "new"
      BY DEF Init
    <2>2. QED
      <3>1. [by |-> None, whole |-> FALSE] \in [by : Calls \cup {None}, whole : BOOLEAN]
        OBVIOUS
      <3>2. Init => Inodes /\ InstalledWhole
        BY <2>1, <3>1 DEF Inodes, InstalledWhole
      <3>3. Init => \A c \in Calls : (cmd[c].pc = "install" => Whole(dest)) /\ Truncated(c)
        BY <2>1 DEF Truncated
      <3>4. QED
        BY <3>2, <3>3, RoleInit DEF WholeInv
  <1>2. WholeInv /\ [Next]_vars => WholeInv'
    BY WholeNext
  <1>3. WholeInv => InstalledWhole
    BY DEF WholeInv
  <1>4. QED
    BY <1>1, <1>2, <1>3, PTL DEF Spec
=============================================================================
