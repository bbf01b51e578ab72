CONSTANTS
  t1 = t1
  t2 = t2
  t3 = t3
  a = a
  b = b
  Trx <- MCTrx
  Locks <- MCLocks
  PageLocks <- MCPageLocks
  MaxRestarts = 0
SPECIFICATION Spec
SYMMETRY Symmetry
INVARIANT SharedCannotDeadlock
CHECK_DEADLOCK FALSE
