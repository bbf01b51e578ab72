------------------------ MODULE MCCheckpointRecovery ------------------------
(* Instances of CheckpointRecovery for TLC. *)
EXTENDS CheckpointRecovery, TLC

Interchangeable == Permutations(Logical) \cup Permutations(Remap) \cup Permutations(Row)
=============================================================================
