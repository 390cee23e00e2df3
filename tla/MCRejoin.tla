------------------------------- MODULE MCRejoin --------------------------------
(* Rejoin for TLC. *)
EXTENDS Rejoin, TLC

Symmetry == Permutations(Servers \ {FirstMaster})
================================================================================
