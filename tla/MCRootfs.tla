------------------------------ MODULE MCRootfs ------------------------------
(***************************************************************************)
(* Instances of Rootfs for TLC: the unnamed instance and named ones, with  *)
(* the path prefixes their names make.                                     *)
(***************************************************************************)
EXTENDS RootfsProps, TLC

CONSTANTS debian, ubuntu, ubuntu22, base

\* Named instances none of whose paths is a prefix of another's.
OneReach == [i \in {debian} |-> {i}]
TwoReach == [i \in {debian, ubuntu} |-> {i}]

\* /data/androlinux/ubuntu is a prefix of /data/androlinux/ubuntu22.
PrefixDirReach == (ubuntu :> {ubuntu, ubuntu22}) @@ (ubuntu22 :> {ubuntu22})
PrefixMntReach == [i \in {ubuntu, ubuntu22} |-> {i}]

\* /data/androlinux is a prefix of everything.
BaseDirReach == (base :> {base, debian}) @@ (debian :> {debian})
BaseMntReach == [i \in {base, debian} |-> {i}]

Symmetry == Permutations(Sessions) \cup Permutations(Loops) \cup Permutations(Procs)
=============================================================================
