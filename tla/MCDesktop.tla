----------------------------- MODULE MCDesktop -----------------------------
(***************************************************************************)
(* Instances of Desktop for TLC.                                           *)
(***************************************************************************)
EXTENDS DesktopProps, TLC

\* The boot scripts were written before a display had been recorded.
BakedFirst == [i \in Instances |-> 1]

Symmetry == Permutations(Sessions \ Jobs) \cup Permutations(Jobs) \cup Permutations(Instances)
=============================================================================
