----------------------------- MODULE MCArbitration -----------------------------
(* Instances of Arbitration for TLC. *)
EXTENDS Arbitration, SequencesExt

(* Every manager has all the others as peers. *)
MCPeerList == [m \in Managers |-> SetToSeq(Managers \ {m})]

Symmetry == Permutations(Managers) \cup Permutations(Hosts)
================================================================================
