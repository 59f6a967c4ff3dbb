----------------------------- MODULE MCInstall -----------------------------
(***************************************************************************)
(* Instances of Install for TLC.                                           *)
(***************************************************************************)
EXTENDS InstallProps, TLC

\* Sound for the safety runs; files of the cache are told apart by number.
Symmetry == Permutations(Sessions)
=============================================================================
