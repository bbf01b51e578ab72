---------------------------- MODULE MCLockManager ----------------------------
(* Module LockManager for model checking. *)
EXTENDS LockManager

CONSTANTS t1, t2, t3, a, b

MCTrx == {t1, t2, t3}
MCTwoTrx == {t1, t2}
MCLocks == {a, b}
MCOneLock == {b}
MCPageLocks == {b}
Symmetry == {[x \in MCTrx |-> p[x]] : p \in {q \in [MCTrx -> MCTrx] : \A x, y \in MCTrx : q[x] = q[y] => x = y}}
=============================================================================
