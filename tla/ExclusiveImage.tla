--------------------------- MODULE ExclusiveImage ---------------------------
(***************************************************************************)
(* What the commands of container.py promise together: an image has at     *)
(* most one user at a time.  Either one device has its filesystem mounted, *)
(* or a tool rewrites the file, or nobody touches it.  Everything on the   *)
(* way (loop devices, the mount table, processes, scripts) is left out.    *)
(***************************************************************************)
CONSTANTS Images, Devices

VARIABLES
  file,   \* [i] : what the image file holds
  users   \* [i] : the devices whose filesystem is live on it

vars == <<file, users>>

Init ==
  /\ file \in [Images -> {"absent", "ok"}]
  /\ users = [i \in Images |-> {}]

Unused(i) == users[i] = {}

Mount(i, d) ==
  /\ Unused(i)
  /\ file[i] \in {"ok", "grown"}
  /\ users' = [users EXCEPT ![i] = {d}]
  /\ UNCHANGED file

\* One user, or at a reboot all of them, let go.
Release(S) ==
  /\ users' = [i \in Images |-> IF i \in S THEN {} ELSE users[i]]
  /\ UNCHANGED file

Create(i) ==
  /\ Unused(i)
  /\ file[i] = "absent"
  /\ file' = [file EXCEPT ![i] = "raw"]
  /\ UNCHANGED users

Format(i) ==
  /\ Unused(i)
  /\ file[i] \in {"raw", "grown"}
  /\ file' = [file EXCEPT ![i] = "ok"]
  /\ UNCHANGED users

Extend(i) ==
  /\ Unused(i)
  /\ file[i] = "ok"
  /\ file' = [file EXCEPT ![i] = "grown"]
  /\ UNCHANGED users

Delete(S) ==
  /\ \A i \in S : Unused(i)
  /\ file' = [i \in Images |-> IF i \in S THEN "absent" ELSE file[i]]
  /\ UNCHANGED users

Next ==
  \/ \E i \in Images : \/ \E d \in Devices : Mount(i, d)
                       \/ Create(i) \/ Format(i) \/ Extend(i)
  \/ \E S \in SUBSET Images : Release(S) \/ Delete(S)

Spec == Init /\ [][Next]_vars
=============================================================================
