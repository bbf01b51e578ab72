------------------------------ MODULE MCTrxLife ------------------------------
(* Instances of TrxLife for TLC. *)
EXTENDS TrxLife
====
