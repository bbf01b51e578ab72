CONSTANTS
  t1 = t1
  t2 = t2
  t3 = t3
  a = a
  b = b
  Trx <- MCTwoTrx
  Locks <- MCLocks
  PageLocks <- MCPageLocks
  MaxRestarts = 1
SPECIFICATION Spec
INVARIANTS TypeOK QueueHasOwner WaitsCounted LocksReferenced ClosingHasNoEdges
PROPERTY EveryWaitEnds
CHECK_DEADLOCK FALSE
