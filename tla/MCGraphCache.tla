----------------------------- MODULE MCGraphCache -----------------------------
(* Instances of GraphCache for TLC. *)
EXTENDS GraphCache, TLC

Threads == Permutations(Query)
====
