------------------------------ MODULE MCPageGate ------------------------------
(* Module PageGate for model checking. *)
EXTENDS PageGate, TLC

CONSTANTS c1, c2, c3, r, l

MCCursors == {c1, c2, c3}
MCLeaf == {l}
MCNoLeaf == {}
MCModes == {"READ", "WRITE", "READ_ONLY"}
MCReadWrite == {"READ", "WRITE"}
MCChanges == {WAIT_DATA, WAIT_KEY, WAIT_SPLIT}
MCSplit == {WAIT_SPLIT}
Symmetry == Permutations(MCCursors)
=============================================================================
