CONSTANTS
  t1 = t1
  t2 = t2
  t3 = t3
  a = a
  b = b
  Trx <- MCTrx
  Locks <- MCLocks
  PageLocks <- MCLocks
  MaxRestarts = 0
SPECIFICATION Spec
SYMMETRY Symmetry
INVARIANTS LockCompatible WokenOwns WaitEdgesMatch WaitGraphAcyclic BlockersReachable
CHECK_DEADLOCK FALSE
