-------------------------------- MODULE Arbiter --------------------------------
(***************************************************************************)
(* What the arbitrator promises about one cluster: it hands the election   *)
(* to a manager only when nobody else holds it, so at most one manager is  *)
(* elected and an election ends before another manager gets one.  Module   *)
(* Arbitration shows that the heartbeat table and its concurrent handlers  *)
(* keep this promise.                                                      *)
(***************************************************************************)
CONSTANT Managers    \* the replication-manager instances
VARIABLE elected     \* the managers holding the election

Init == elected = {}

(* A request of m is answered "winner". *)
Elect(m) == elected \subseteq {m} /\ elected' = {m}

(* The election is forgotten: a report replaced or reset its row. *)
Clear == elected' = {}

Next == Clear \/ \E m \in Managers : Elect(m)

Spec == Init /\ [][Next]_elected
================================================================================
