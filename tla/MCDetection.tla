------------------------------ MODULE MCDetection ------------------------------
(* Detection for TLC. *)
EXTENDS Detection
================================================================================
