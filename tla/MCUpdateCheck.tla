---------------------------- MODULE MCUpdateCheck ----------------------------
(***************************************************************************)
(* UpdateCheck with two commands at once on both builds, which are         *)
(* interchangeable.                                                        *)
(***************************************************************************)
EXTENDS UpdateCheck, TLC

Symmetry == Permutations(Procs)
==============================================================================
