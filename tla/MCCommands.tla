---------------------------- MODULE MCCommands -----------------------------
(***************************************************************************)
(* Instances of Commands for TLC.                                          *)
(***************************************************************************)
EXTENDS CommandsProps, TLC

Symmetry == Permutations(Viewers) \cup Permutations(Pids)
=============================================================================
