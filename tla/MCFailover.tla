------------------------------ MODULE MCFailover -------------------------------
(* Instances of Failover for TLC. *)
EXTENDS Failover, TLC

Symmetry == Permutations(Servers) \cup Permutations(Api)
================================================================================
