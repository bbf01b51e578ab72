-------------------------- MODULE LockManagerProofs --------------------------
(*****************************************************************************)
(* The safety invariants of module LockManager, BlockersReachable apart,     *)
(* for every set of transactions, every set of locks and any bound on the    *)
(* restarts.                                                                 *)
(*****************************************************************************)
EXTENDS LockManager, TLAPS

\* A transaction's status, the place of its thread and of its lt_transact.
Control ==
  \A t \in Trx :
    /\ phase[t] # "none" => lt_status[t] = "CLOSING"
    /\ pc[t] \in {"run", "bust", "log", "thrown", "closed"} => phase[t] = "none"
    /\ lt_close_ack_threads[t] = 1 <=> pc[t] \in {"busting", "ackwait", "closing"}
    /\ phase[t] \in {"none", "array"} => todo[t] = {}
    /\ lt_status[t] = "DELTA_ROLLED_BACK"
         => pc[t] \in {"thrown", "closed"} /\ lt_lock[t] = {}

\* A release holds the latch of its page and has dequeued the cursor of its
\* own transaction where the scan has been.
Releasing ==
  \A t \in Trx :
    /\ phase[t] \in {"release", "signal"} =>
         /\ cur[t] \in Locks
         /\ latch[cur[t]] = t
         /\ scan[t] \in Nat \ {0}
         /\ \A i \in 1..Len(pl_waiting[cur[t]]) :
              i < scan[t] => pl_waiting[cur[t]][i].lt # t
    /\ phase[t] = "signal" <=> victim[t] # NoTrx

\* A waiter about to be signalled is in no queue, and only one release has it.
VictimsApart ==
  \A u, v \in Trx : victim[u] # NoTrx =>
    /\ victim[u] = victim[v] => u = v
    /\ \A l \in Locks : ~Waits(victim[u], l)

\* What a queued cursor is waiting for, and what one about to be signalled got.
Entitled ==
  /\ \A l \in Locks : \A i \in 1..Len(pl_waiting[l]) :
       wanted[pl_waiting[l][i].lt] = IF pl_waiting[l][i].acq THEN l ELSE NoLock
  /\ \A u \in Trx : victim[u] # NoTrx =>
       LET w == victim[u] IN
       lt_status[w] = "PENDING" /\ wanted[w] # NoLock => w \in pl_owner[wanted[w]]

\* LocksReferenced also while a page is latched.
Referenced ==
  \A t \in Trx, l \in Locks :
    t \in pl_owner[l] \/ Waits(t, l)
      => l \in lt_lock[t] \cup todo[t] \/ (latch[l] = t /\ t \notin pl_owner[l])

IInv ==
  /\ TypeOK
  /\ LockCompatible /\ WaitEdgesMatch /\ ClosingHasNoEdges /\ WaitGraphAcyclic
  /\ WaitsCounted /\ QueueHasOwner /\ WokenOwns
  /\ Control /\ Releasing /\ VictimsApart /\ Entitled /\ Referenced
-----------------------------------------------------------------------------
(* Queues *)

(* The length and the elements of two sequences end to end. *)
LEMMA ConcatFacts ==
  ASSUME NEW S, NEW a \in Seq(S), NEW b \in Seq(S)
  PROVE  /\ a \o b \in Seq(S)
         /\ Len(a \o b) = Len(a) + Len(b)
         /\ \A j \in 1..(Len(a) + Len(b)) :
              (a \o b)[j] = IF j <= Len(a) THEN a[j] ELSE b[j - Len(a)]
  OBVIOUS

(* Taking the i-th cursor out of a queue keeps the others in order. *)
LEMMA TakeOutFacts ==
  ASSUME NEW S, NEW q \in Seq(S), NEW i \in 1..Len(q)
  PROVE  /\ TakeOut(q, i) \in Seq(S)
         /\ Len(TakeOut(q, i)) = Len(q) - 1
         /\ \A j \in 1..(Len(q) - 1) :
              TakeOut(q, i)[j] = IF j < i THEN q[j] ELSE q[j + 1]
<1> DEFINE a == SubSeq(q, 1, i - 1)
           b == SubSeq(q, i + 1, Len(q))
<1>1. a \in Seq(S) /\ Len(a) = i - 1 /\ \A j \in 1..(i - 1) : a[j] = q[j]
  OBVIOUS
<1>2. /\ b \in Seq(S) /\ Len(b) = Len(q) - i
      /\ \A j \in 1..(Len(q) - i) : b[j] = q[i + j]
  OBVIOUS
<1>3. TakeOut(q, i) = a \o b
  BY Zenon DEF TakeOut
<1>4. /\ a \o b \in Seq(S)
      /\ Len(a \o b) = Len(a) + Len(b)
      /\ \A j \in 1..(Len(a) + Len(b)) :
           (a \o b)[j] = IF j <= Len(a) THEN a[j] ELSE b[j - Len(a)]
  BY Zenon, <1>1, <1>2, ConcatFacts
<1> HIDE DEF a, b
<1>5. ASSUME NEW j \in 1..(Len(q) - 1)
      PROVE  TakeOut(q, i)[j] = IF j < i THEN q[j] ELSE q[j + 1]
  <2>1. TakeOut(q, i)[j] = IF j <= i - 1 THEN a[j] ELSE b[j - (i - 1)]
    <3>1. Len(a) = i - 1 /\ j \in 1..(Len(a) + Len(b))
      BY <1>1, <1>2
    <3>2. QED
      BY Zenon, <1>3, <1>4, <3>1
  <2>2. CASE j < i
    BY <2>1, <2>2, <1>1
  <2>3. CASE ~(j < i)
    <3>1. j - (i - 1) \in 1..(Len(q) - i) /\ i + (j - (i - 1)) = j + 1
      BY <2>3
    <3>2. QED
      BY <2>1, <2>3, <3>1, <1>2
  <2>4. QED
    BY Zenon, <2>2, <2>3
<1>6. QED
  BY SMTT(30), <1>1, <1>2, <1>3, <1>4, <1>5

(* What is queued once the i-th cursor is taken out. *)
LEMMA DequeueFacts ==
  ASSUME NEW q \in Seq(Waiter), NEW i \in 1..Len(q), Distinct(q)
  PROVE  /\ TakeOut(q, i) \in Seq(Waiter)
         /\ Queued(TakeOut(q, i)) = Queued(q) \ {q[i].lt}
         /\ Distinct(TakeOut(q, i))
         /\ \A j \in 1..Len(TakeOut(q, i)) :
              TakeOut(q, i)[j] = q[IF j < i THEN j ELSE j + 1]
<1> DEFINE r == TakeOut(q, i)
           old(j) == IF j < i THEN j ELSE j + 1
<1>1. /\ r \in Seq(Waiter)
      /\ Len(q) \in Nat /\ Len(r) = Len(q) - 1
      /\ \A j \in 1..Len(r) : r[j] = q[old(j)] /\ old(j) \in 1..Len(q) /\ old(j) # i
  <2>1. r \in Seq(Waiter) /\ Len(q) \in Nat /\ Len(r) = Len(q) - 1
    BY TakeOutFacts
  <2>2. ASSUME NEW j \in 1..Len(r)
        PROVE  r[j] = q[old(j)] /\ old(j) \in 1..Len(q) /\ old(j) # i
    <3>1. j \in 1..(Len(q) - 1)
      BY Zenon, <2>1
    <3>2. r[j] = IF j < i THEN q[j] ELSE q[j + 1]
      BY Zenon, <3>1, TakeOutFacts
    <3>3. QED
      BY <3>1, <3>2
  <2>3. QED
    BY Zenon, <2>1, <2>2
<1>2. \A k \in 1..Len(q) : k # i => \E j \in 1..Len(r) : old(j) = k
  <2> SUFFICES ASSUME NEW k \in 1..Len(q), k # i
               PROVE  \E j \in 1..Len(r) : old(j) = k
    BY Zenon
  <2>1. CASE k < i
    <3>1. k \in 1..Len(r) /\ old(k) = k
      BY <1>1, <2>1
    <3>2. QED
      BY Zenon, <3>1
  <2>2. CASE ~(k < i)
    <3>1. k - 1 \in 1..Len(r) /\ old(k - 1) = k
      BY <1>1, <2>2
    <3>2. QED
      BY Zenon, <3>1
  <2>3. QED
    BY Zenon, <2>1, <2>2
<1>3. \A j, k \in 1..Len(r) : old(j) = old(k) => j = k
  BY <1>1
<1> HIDE DEF r, old
<1>4. Queued(r) = Queued(q) \ {q[i].lt}
  <2>1. ASSUME NEW j \in 1..Len(r) PROVE r[j].lt \in Queued(q) /\ r[j].lt # q[i].lt
    BY Zenon, <1>1 DEF Queued, Distinct
  <2>2. ASSUME NEW k \in 1..Len(q), q[k].lt # q[i].lt PROVE q[k].lt \in Queued(r)
    <3>1. PICK j \in 1..Len(r) : old(j) = k
      BY Zenon, <1>2, <2>2
    <3>2. QED
      BY Zenon, <3>1, <1>1 DEF Queued
  <2>3. QED
    BY Zenon, <2>1, <2>2 DEF Queued
<1>5. Distinct(r)
  BY <1>1, <1>3 DEF Distinct
<1>6. QED
  BY Zenon, <1>1, <1>4, <1>5 DEF r, old

(* What is queued once the head is let go. *)
LEMMA TailFacts ==
  ASSUME NEW q \in Seq(Waiter), q # <<>>, Distinct(q)
  PROVE  /\ Tail(q) \in Seq(Waiter)
         /\ Queued(Tail(q)) = Queued(q) \ {Head(q).lt}
         /\ Distinct(Tail(q))
         /\ Head(q) \in Waiter /\ Head(q).lt \in Queued(q)
         /\ Head(q) = q[1] /\ 1 \in 1..Len(q)
         /\ \A j \in 1..Len(Tail(q)) : Tail(q)[j] = q[j + 1] /\ j + 1 \in 1..Len(q)
<1>1. /\ Tail(q) \in Seq(Waiter) /\ Len(q) \in Nat \ {0}
      /\ Len(Tail(q)) = Len(q) - 1 /\ Head(q) = q[1] /\ Head(q) \in Waiter
      /\ \A j \in 1..Len(Tail(q)) : Tail(q)[j] = q[j + 1]
  OBVIOUS
<1>2. /\ \A j \in 1..Len(Tail(q)) : j + 1 \in 1..Len(q) /\ j + 1 # 1
      /\ \A k \in 1..Len(q) : k # 1 => \E j \in 1..Len(Tail(q)) : j + 1 = k
      /\ 1 \in 1..Len(q)
  <2>1. ASSUME NEW k \in 1..Len(q), k # 1
        PROVE  \E j \in 1..Len(Tail(q)) : j + 1 = k
    <3>1. k - 1 \in 1..Len(Tail(q)) /\ (k - 1) + 1 = k
      BY <1>1, <2>1
    <3>2. QED
      BY Zenon, <3>1
  <2>2. QED
    BY <1>1, <2>1
<1>3. \A j, k \in 1..Len(Tail(q)) : j + 1 = k + 1 => j = k
  BY <1>1
<1> DEFINE r == Tail(q)
           old(j) == j + 1
<1>4. /\ \A j \in 1..Len(r) : r[j] = q[old(j)] /\ old(j) \in 1..Len(q) /\ old(j) # 1
      /\ \A k \in 1..Len(q) : k # 1 => \E j \in 1..Len(r) : old(j) = k
      /\ \A j, k \in 1..Len(r) : old(j) = old(k) => j = k
      /\ Head(q) = q[1] /\ 1 \in 1..Len(q)
  BY Zenon, <1>1, <1>2, <1>3
<1> HIDE DEF r, old
<1>5. Queued(r) = Queued(q) \ {Head(q).lt}
  <2>1. ASSUME NEW j \in 1..Len(r) PROVE r[j].lt \in Queued(q) /\ r[j].lt # q[1].lt
    BY <1>4 DEF Queued, Distinct
  <2>2. ASSUME NEW k \in 1..Len(q), q[k].lt # q[1].lt PROVE q[k].lt \in Queued(r)
    <3>1. PICK j \in 1..Len(r) : old(j) = k
      BY Zenon, <1>4, <2>2
    <3>2. QED
      BY <3>1, <1>4 DEF Queued
  <2>3. Queued(r) = Queued(q) \ {q[1].lt}
    BY Zenon, <2>1, <2>2 DEF Queued
  <2>4. QED
    BY Zenon, <2>3, <1>4
<1>6. Distinct(r)
  BY <1>4 DEF Distinct
<1>7. Head(q).lt \in Queued(q)
  BY Zenon, <1>4 DEF Queued
<1>8. QED
  BY Zenon, <1>1, <1>2, <1>5, <1>6, <1>7 DEF r

(* What is queued once w has been put at the end. *)
LEMMA EnqueueFacts ==
  ASSUME NEW q \in Seq(Waiter), NEW w \in Waiter, Distinct(q), w.lt \notin Queued(q)
  PROVE  /\ Append(q, w) \in Seq(Waiter)
         /\ Append(q, w) # <<>>
         /\ Queued(Append(q, w)) = Queued(q) \cup {w.lt}
         /\ Distinct(Append(q, w))
         /\ \A j \in 1..Len(Append(q, w)) :
              \/ j \in 1..Len(q) /\ Append(q, w)[j] = q[j]
              \/ Append(q, w)[j] = w
<1> DEFINE r == Append(q, w)
<1>1. /\ r \in Seq(Waiter) /\ Len(q) \in Nat /\ Len(r) = Len(q) + 1
      /\ \A j \in 1..Len(q) : r[j] = q[j]
      /\ r[Len(q) + 1] = w /\ r # <<>>
  OBVIOUS
<1>2. \A j \in 1..Len(r) : j \in 1..Len(q) \/ j = Len(q) + 1
  BY <1>1
<1>3. \A j \in 1..Len(q) : j \in 1..Len(r)
  BY <1>1
<1>4. Len(q) + 1 \in 1..Len(r)
  BY <1>1
<1> HIDE DEF r
<1>5. Queued(r) = Queued(q) \cup {w.lt}
  BY Zenon, <1>1, <1>2, <1>3, <1>4 DEF Queued
<1>6. Distinct(r)
  <2>1. \A j \in 1..Len(q) : r[j].lt = q[j].lt /\ r[j].lt # w.lt
    BY Zenon, <1>1 DEF Queued
  <2>2. r[Len(q) + 1].lt = w.lt
    BY Zenon, <1>1
  <2>3. QED
    BY ONLY Zenon, Distinct(q), <2>1, <2>2, <1>2 DEF Distinct
<1>7. QED
  BY Zenon, <1>1, <1>2, <1>5, <1>6 DEF r

-----------------------------------------------------------------------------

(* lock_add_owner keeps the lock's type and its owners compatible. *)
LEMMA OwnKeepsCompatible ==
  ASSUME TypeOK, LockCompatible, NEW l \in Locks, NEW t \in Trx, NEW mode \in Mode,
         NEW was_waiting \in BOOLEAN, MayOwn(l, t, mode, was_waiting),
         pl_type' = [pl_type EXCEPT ![l] = TypeOwned(l, t, mode)],
         pl_owner' = [pl_owner EXCEPT ![l] = @ \cup {t}]
  PROVE  LockCompatible'
<1>1. /\ pl_type'[l] = TypeOwned(l, t, mode) /\ pl_owner'[l] = pl_owner[l] \cup {t}
      /\ \A m \in Locks : m # l => pl_type'[m] = pl_type[m] /\ pl_owner'[m] = pl_owner[m]
  BY Zenon DEF TypeOK
<1>2. TypeOwned(l, t, mode) # "FREE"
  BY Zenon DEF TypeOwned, Mode
<1>3. ASSUME TypeOwned(l, t, mode) = "X" PROVE pl_owner[l] \cup {t} = {t}
  <2>1. CASE pl_type[l] = "FREE" \/ pl_owner[l] = {t}
    BY Zenon, <2>1 DEF LockCompatible
  <2>2. CASE pl_type[l] = "S" /\ mode = "S"
    BY Zenon, <1>3, <2>2 DEF TypeOwned
  <2>3. QED
    BY Zenon, <2>1, <2>2 DEF MayOwn
<1>4. QED
  BY <1>1, <1>2, <1>3 DEF LockCompatible

(* A thread that runs is in no queue. *)
LEMMA OnlyWaitersQueue ==
  ASSUME WaitsCounted, NEW t \in Trx, pc[t] # "wait"
  PROVE  /\ \A l \in Locks : ~Waits(t, l)
         /\ \A u \in Trx : victim[u] # t
BY Zenon DEF WaitsCounted

(* Every position of a lock queue holds a cursor of a transaction. *)
LEMMA QueuedAreWaiters ==
  ASSUME TypeOK, NEW l \in Locks, NEW i \in 1..Len(pl_waiting[l])
  PROVE  pl_waiting[l][i] \in Waiter /\ pl_waiting[l][i].lt \in Trx
<1>1. pl_waiting[l] \in Seq(Waiter)
  BY Zenon DEF TypeOK
<1>2. pl_waiting[l][i] \in Waiter
  BY <1>1
<1>3. QED
  BY Zenon, <1>2 DEF Waiter

(* The scan has dequeued the cursors of its own transaction. *)
LEMMA GrantingFacts ==
  ASSUME IInv, NEW t \in Trx, Granting(t), pl_waiting[cur[t]] # <<>>
  PROVE  LET l == cur[t]
             q == pl_waiting[l]
             w == Head(q).lt
             r == Tail(q)
         IN /\ l \in Locks /\ phase[t] = "release"
            /\ q \in Seq(Waiter) /\ Head(q) \in Waiter /\ w \in Trx /\ w # t
            /\ w \in Queued(q) /\ Head(q) = q[1] /\ 1 \in 1..Len(q)
            /\ r \in Seq(Waiter) /\ Queued(r) = Queued(q) \ {w} /\ Distinct(r)
            /\ \A j \in 1..Len(r) : /\ \E k \in 1..Len(q) : r[j] = q[k]
                                    /\ j < scan[t] => r[j].lt # t
            /\ w \notin pl_owner[l]
            /\ wanted[w] = IF Head(q).acq THEN l ELSE NoLock
<1> DEFINE l == cur[t]
           q == pl_waiting[l]
           w == Head(q).lt
           r == Tail(q)
<1>1. /\ l \in Locks /\ phase[t] = "release" /\ scan[t] \in Nat /\ scan[t] > Len(q)
      /\ \A j \in 1..Len(q) : j < scan[t] => q[j].lt # t
  BY Zenon DEF Granting, IInv, Releasing, TypeOK
<1>2. q \in Seq(Waiter) /\ Len(q) \in Nat /\ Distinct(q) /\ q # <<>>
  BY <1>1 DEF IInv, TypeOK, WaitsCounted
<1>3. \A j \in 1..Len(q) : q[j].lt # t
  <2> HIDE DEF q
  <2>1. QED
    BY ONLY <1>1, <1>2
<1>4. /\ r \in Seq(Waiter) /\ Queued(r) = Queued(q) \ {w} /\ Distinct(r)
      /\ Head(q) \in Waiter /\ w \in Queued(q) /\ Head(q) = q[1] /\ 1 \in 1..Len(q)
      /\ \A j \in 1..Len(r) : r[j] = q[j + 1] /\ j + 1 \in 1..Len(q)
  BY Zenon, <1>2, TailFacts
<1>5. w \in Trx /\ w # t
  BY Zenon, <1>3, <1>4 DEF Waiter
<1>6. w \notin pl_owner[l]
  BY Zenon, <1>1, <1>4 DEF IInv, QueueHasOwner, Waits
<1>7. wanted[w] = IF Head(q).acq THEN l ELSE NoLock
  <2>1. wanted[q[1].lt] = IF q[1].acq THEN l ELSE NoLock
    BY Zenon, <1>1, <1>4 DEF IInv, Entitled
  <2>2. QED
    BY Zenon, <2>1, <1>4
<1>8. \A j \in 1..Len(r) : /\ \E k \in 1..Len(q) : r[j] = q[k]
                           /\ j < scan[t] => r[j].lt # t
  BY Zenon, <1>3, <1>4
<1>9. QED
  BY Zenon, <1>1, <1>2, <1>4, <1>5, <1>6, <1>7, <1>8

(* No transaction has a lock, waits or ends at first. *)
LEMMA InitIInv == Init => IInv
<1> SUFFICES ASSUME Init PROVE IInv
  BY Zenon
<1> USE DEF Init
<1>1. \A l \in Locks : pl_waiting[l] = <<>> /\ Len(pl_waiting[l]) = 0
                       /\ Queued(pl_waiting[l]) = {} /\ pl_waiting[l] \in Seq(Waiter)
  <2>1. <<>> \in Seq(Waiter) /\ Len(<<>>) = 0
    OBVIOUS
  <2>2. QED
    <3>1. \A l \in Locks : pl_waiting[l] = <<>>
      BY Zenon
    <3>2. 1..0 = {}
      OBVIOUS
    <3>3. Queued(<<>>) = {}
      BY ONLY Zenon, <2>1, <3>2 DEF Queued
    <3>4. QED
      BY ONLY Zenon, <2>1, <3>1, <3>3
<1>2. TypeOK
  BY <1>1, MaxRestartsIsNat DEF TypeOK, Status, Mode, NoTrx, NoLock
<1>3. LockCompatible /\ WaitEdgesMatch /\ ClosingHasNoEdges /\ WaitGraphAcyclic
  BY Zenon DEF LockCompatible, WaitEdgesMatch, ClosingHasNoEdges, WaitGraphAcyclic
<1>4. WaitsCounted /\ QueueHasOwner /\ WokenOwns
  BY <1>1, NamesDiffer DEF WaitsCounted, QueueHasOwner, WokenOwns, Waits, Distinct
<1>5. Control /\ Releasing /\ VictimsApart
  BY <1>1 DEF Control, Releasing, VictimsApart
<1>6. Entitled /\ Referenced
  BY <1>1 DEF Entitled, Referenced, Waits
<1>7. QED
  BY Zenon, <1>2, <1>3, <1>4, <1>5, <1>6 DEF IInv

(* What the actions that touch no lock leave as it is. *)
LEMMA LocksFrame ==
  ASSUME IInv, UNCHANGED lockVars
  PROVE  /\ \A u, m : Waits(u, m)' <=> Waits(u, m)
         /\ LockCompatible' /\ QueueHasOwner'
<1> USE DEF lockVars
<1>1. \A u, m : Waits(u, m)' <=> Waits(u, m)
  BY Zenon DEF Waits
<1>2. LockCompatible'
  BY Zenon DEF IInv, LockCompatible
<1>3. QueueHasOwner'
  BY Zenon, <1>1 DEF IInv, QueueHasOwner
<1>4. QED
  BY Zenon, <1>1, <1>2, <1>3

(* What the actions that touch no wait edge leave as it is. *)
LEMMA EdgesFrame ==
  ASSUME IInv, UNCHANGED waitVars
  PROVE  WaitEdgesMatch' /\ WaitGraphAcyclic'
<1> USE DEF waitVars
<1>1. WaitEdgesMatch'
  BY Zenon DEF IInv, WaitEdgesMatch
<1>2. WaitGraphAcyclic'
  BY DEF IInv, WaitGraphAcyclic, WaitReach, Closed
<1>3. QED
  BY Zenon, <1>1, <1>2

(* A wait begins in lock_wait and ends in Signal only. *)
LEMMA WaitsCountedFrame ==
  ASSUME IInv, UNCHANGED <<pl_waiting, lt_lw_threads, victim>>,
         \A u \in Trx : pc'[u] = "wait" <=> pc[u] = "wait"
  PROVE  WaitsCounted'
<1>1. \A u, m : Waits(u, m)' <=> Waits(u, m)
  BY Zenon DEF Waits
<1>2. QED
  BY Zenon, <1>1 DEF IInv, WaitsCounted

(* What a waiting cursor is entitled to depends on its own wait only. *)
LEMMA EntitledFrame ==
  ASSUME IInv, UNCHANGED <<pl_waiting, pl_owner, victim>>,
         \A u \in Trx : pc[u] = "wait" =>
           /\ wanted'[u] = wanted[u]
           /\ lt_status'[u] = "PENDING" => lt_status[u] = "PENDING"
  PROVE  Entitled'
<1>1. ASSUME NEW l \in Locks, NEW i \in 1..Len(pl_waiting[l])
      PROVE  wanted'[pl_waiting[l][i].lt] = wanted[pl_waiting[l][i].lt]
  <2>1. pl_waiting[l][i].lt \in Trx
    BY Zenon, QueuedAreWaiters DEF IInv, Waiter
  <2>2. Waits(pl_waiting[l][i].lt, l)
    BY Zenon DEF Waits, Queued
  <2>3. QED
    BY Zenon, <2>1, <2>2, OnlyWaitersQueue DEF IInv
<1>2. ASSUME NEW u \in Trx, victim[u] # NoTrx
      PROVE  /\ wanted'[victim[u]] = wanted[victim[u]]
             /\ lt_status'[victim[u]] = "PENDING" => lt_status[victim[u]] = "PENDING"
  <2>1. victim[u] \in Trx
    BY Zenon, <1>2 DEF IInv, TypeOK
  <2>2. QED
    BY Zenon, <2>1, OnlyWaitersQueue DEF IInv
<1>3. QED
  BY <1>1, <1>2 DEF IInv, Entitled

(* The transactions reached from y are the least closed set that has y. *)
LEMMA ReachClosed ==
  ASSUME TypeOK, NEW y \in Trx
  PROVE  WaitReach(y) \in SUBSET Trx /\ y \in WaitReach(y) /\ Closed(WaitReach(y))
<1>1. WaitReach(y) \in SUBSET Trx /\ y \in WaitReach(y)
  BY Zenon DEF WaitReach
<1>2. ASSUME NEW u \in WaitReach(y), NEW v \in lt_waits_for[u] PROVE v \in WaitReach(y)
  BY Zenon DEF WaitReach, Closed, TypeOK
<1>3. QED
  BY Zenon, <1>1, <1>2 DEF Closed

(* lt_is_deadlock_1 visits nothing outside a closed set it starts in. *)
LEMMA ReachLeast ==
  ASSUME NEW y, NEW S \in SUBSET Trx, y \in S, Closed(S)
  PROVE  WaitReach(y) \subseteq S
BY Zenon DEF WaitReach

\* S is closed in the next state's graph.
ClosedNext(S) == \A u \in S : lt_waits_for'[u] \subseteq S

(* To show the next graph acyclic: every edge leaves a closed set. *)
LEMMA AcyclicByClosedSets ==
  ASSUME \A x \in Trx : \A y \in lt_waits_for'[x] :
           \E S \in SUBSET Trx : y \in S /\ x \notin S /\ ClosedNext(S)
  PROVE  WaitGraphAcyclic'
BY Zenon DEF WaitGraphAcyclic, WaitReach, Closed, ClosedNext

(* No transaction waits for itself. *)
LEMMA NoSelfWait ==
  ASSUME TypeOK, WaitGraphAcyclic, NEW t \in Trx
  PROVE  t \notin lt_waits_for[t]
BY Zenon, ReachClosed DEF WaitGraphAcyclic

(* lt_waits_for: edges from t to transactions that do not wait for it, even *)
(* indirectly, close no cycle.                                              *)
LEMMA WaitEdgesFacts ==
  ASSUME TypeOK, WaitEdgesMatch, WaitGraphAcyclic, NEW t \in Trx,
         NEW P \in SUBSET Trx, WaitEdges(P, t), \A u \in P : t \notin WaitReach(u)
  PROVE  /\ lt_waits_for' \in [Trx -> SUBSET Trx]
         /\ lt_waiting_for_this' \in [Trx -> SUBSET Trx]
         /\ WaitEdgesMatch' /\ WaitGraphAcyclic'
<1>1. /\ lt_waits_for' \in [Trx -> SUBSET Trx]
      /\ lt_waiting_for_this' \in [Trx -> SUBSET Trx]
      /\ lt_waits_for'[t] = lt_waits_for[t] \cup P
      /\ \A u \in Trx : u # t => lt_waits_for'[u] = lt_waits_for[u]
  BY Zenon DEF WaitEdges, TypeOK
<1>2. WaitEdgesMatch'
  BY Zenon DEF WaitEdges, TypeOK, WaitEdgesMatch
<1>3. ASSUME NEW x \in Trx, NEW y \in lt_waits_for'[x]
      PROVE  \E S \in SUBSET Trx : y \in S /\ x \notin S /\ ClosedNext(S)
  <2>0. y \in Trx
    BY Zenon, <1>1
  <2>1. WaitReach(y) \in SUBSET Trx /\ y \in WaitReach(y) /\ Closed(WaitReach(y))
    BY Zenon, <2>0, ReachClosed
  <2>2. CASE t \notin WaitReach(y)
    <3>1. ClosedNext(WaitReach(y))
      BY Zenon, <2>1, <2>2, <1>1 DEF Closed, ClosedNext
    <3>2. x \notin WaitReach(y)
      BY Zenon, <2>2, <1>1 DEF WaitGraphAcyclic
    <3>3. QED
      BY Zenon, <2>1, <3>1, <3>2
  <2>3. CASE t \in WaitReach(y)
    <3> DEFINE S == WaitReach(y) \cup UNION {WaitReach(u) : u \in P}
    <3>1. \A u \in P : WaitReach(u) \in SUBSET Trx /\ u \in WaitReach(u) /\ Closed(WaitReach(u))
      BY Zenon, ReachClosed
    <3>2. S \in SUBSET Trx /\ y \in S /\ P \subseteq S
      BY Zenon, <3>1, <2>1
    <3>3. ClosedNext(S)
      <4>1. ASSUME NEW v \in S PROVE lt_waits_for[v] \subseteq S
        BY Zenon, <3>1, <2>1 DEF Closed
      <4>2. QED
        BY Zenon, <4>1, <3>2, <1>1 DEF ClosedNext
    <3>4. y \notin P
      BY Zenon, <2>3
    <3>5. y \in lt_waits_for[x]
      BY Zenon, <3>4, <1>1
    <3>6. x \notin WaitReach(y)
      BY Zenon, <3>5 DEF WaitGraphAcyclic
    <3>7. ASSUME NEW u \in P PROVE x \notin WaitReach(u)
      <4>1. SUFFICES ASSUME x \in WaitReach(u) PROVE FALSE
        BY Zenon
      <4>2. y \in WaitReach(u)
        BY Zenon, <4>1, <3>1, <3>5 DEF Closed
      <4>3. WaitReach(y) \subseteq WaitReach(u)
        BY Zenon, <4>2, <3>1, ReachLeast
      <4>4. QED
        BY Zenon, <4>3, <2>3
    <3>8. QED
      BY Zenon, <3>2, <3>3, <3>6, <3>7
  <2>4. QED
    BY Zenon, <2>2, <2>3
<1>4. WaitGraphAcyclic'
  BY Zenon, <1>3, AcyclicByClosedSets
<1>5. QED
  BY Zenon, <1>1, <1>2, <1>4

(* lt_clear_waits takes t out of the graph and adds no cycle. *)
LEMMA ClearWaitsFacts ==
  ASSUME TypeOK, WaitEdgesMatch, WaitGraphAcyclic, NEW t \in Trx, lt_clear_waits(t)
  PROVE  /\ lt_waits_for' \in [Trx -> SUBSET Trx]
         /\ lt_waiting_for_this' \in [Trx -> SUBSET Trx]
         /\ WaitEdgesMatch' /\ WaitGraphAcyclic'
         /\ lt_waits_for'[t] = {} /\ lt_waiting_for_this'[t] = {}
         /\ \A u \in Trx : lt_waits_for[u] = {} /\ lt_waiting_for_this[u] = {}
                             => lt_waits_for'[u] = {} /\ lt_waiting_for_this'[u] = {}
<1>0. t \notin lt_waits_for[t]
  BY Zenon, NoSelfWait
<1>1. /\ lt_waits_for' \in [Trx -> SUBSET Trx]
      /\ lt_waiting_for_this' \in [Trx -> SUBSET Trx]
      /\ lt_waits_for'[t] = {} /\ lt_waiting_for_this'[t] = {}
  BY Zenon DEF lt_clear_waits, TypeOK
<1>2. WaitEdgesMatch'
  BY Zenon, <1>0 DEF lt_clear_waits, TypeOK, WaitEdgesMatch
<1>3. \A u \in Trx : lt_waits_for[u] = {} /\ lt_waiting_for_this[u] = {}
                       => lt_waits_for'[u] = {} /\ lt_waiting_for_this'[u] = {}
  BY Zenon DEF lt_clear_waits, WaitEdgesMatch
<1>4. \A v \in Trx : /\ v # t => lt_waits_for'[v] =
                                   IF t \in lt_waits_for[v]
                                   THEN (lt_waits_for[v] \ {t}) \cup lt_waits_for[t]
                                   ELSE lt_waits_for[v]
  BY Zenon DEF lt_clear_waits, WaitEdgesMatch
<1>5. ASSUME NEW x \in Trx, NEW y \in lt_waits_for'[x]
      PROVE  \E S \in SUBSET Trx : y \in S /\ x \notin S /\ ClosedNext(S)
  <2>0. x # t /\ y \in Trx /\ y # t
    BY Zenon, <1>0, <1>1, <1>4
  <2>1. WaitReach(y) \in SUBSET Trx /\ y \in WaitReach(y) /\ Closed(WaitReach(y))
    BY Zenon, <2>0, ReachClosed
  <2>2. x \notin WaitReach(y)
    <3>1. CASE y \in lt_waits_for[x]
      BY Zenon, <3>1 DEF WaitGraphAcyclic
    <3>2. CASE y \notin lt_waits_for[x]
      <4>1. t \in lt_waits_for[x] /\ y \in lt_waits_for[t]
        BY Zenon, <3>2, <2>0, <1>4
      <4>2. x \notin WaitReach(t)
        BY Zenon, <4>1 DEF WaitGraphAcyclic
      <4>3. WaitReach(t) \in SUBSET Trx /\ y \in WaitReach(t) /\ Closed(WaitReach(t))
        BY Zenon, <4>1, ReachClosed DEF Closed
      <4>4. QED
        BY Zenon, <4>2, <4>3, ReachLeast
    <3>3. QED
      BY Zenon, <3>1, <3>2
  <2>3. ClosedNext(WaitReach(y) \ {t})
    <3>1. ASSUME NEW v \in WaitReach(y), v # t
          PROVE  lt_waits_for'[v] \subseteq WaitReach(y) \ {t}
      <4>1. v \in Trx /\ lt_waits_for[v] \subseteq WaitReach(y)
        BY Zenon, <2>1 DEF Closed
      <4>2. CASE t \in lt_waits_for[v]
        <5>1. lt_waits_for[t] \subseteq WaitReach(y)
          BY Zenon, <4>1, <4>2, <2>1 DEF Closed
        <5>2. QED
          BY Zenon, <3>1, <4>1, <4>2, <5>1, <1>0, <1>4
      <4>3. CASE t \notin lt_waits_for[v]
        BY Zenon, <3>1, <4>1, <4>3, <1>4
      <4>4. QED
        BY Zenon, <4>2, <4>3
    <3>2. QED
      BY Zenon, <3>1 DEF ClosedNext
  <2>4. QED
    BY Zenon, <2>0, <2>1, <2>2, <2>3
<1>6. WaitGraphAcyclic'
  BY Zenon, <1>5, AcyclicByClosedSets
<1>7. QED
  BY Zenon, <1>1, <1>2, <1>3, <1>6

(* lt_drop_wait only deletes edges. *)
LEMMA DropWaitFacts ==
  ASSUME TypeOK, WaitEdgesMatch, WaitGraphAcyclic, ClosingHasNoEdges,
         NEW w \in Trx, NEW after \in SUBSET Trx, lt_drop_wait(w, after),
         UNCHANGED lt_status
  PROVE  /\ lt_waits_for' \in [Trx -> SUBSET Trx]
         /\ lt_waiting_for_this' \in [Trx -> SUBSET Trx]
         /\ WaitEdgesMatch' /\ WaitGraphAcyclic' /\ ClosingHasNoEdges'
<1>1. /\ lt_waits_for' \in [Trx -> SUBSET Trx]
      /\ lt_waiting_for_this' \in [Trx -> SUBSET Trx]
      /\ \A u \in Trx : /\ lt_waits_for'[u] \subseteq lt_waits_for[u]
                        /\ lt_waiting_for_this'[u] \subseteq lt_waiting_for_this[u]
  BY Zenon DEF lt_drop_wait, TypeOK
<1>2. WaitEdgesMatch'
  BY Zenon DEF lt_drop_wait, TypeOK, WaitEdgesMatch
<1>3. ASSUME NEW x \in Trx, NEW y \in lt_waits_for'[x]
      PROVE  \E S \in SUBSET Trx : y \in S /\ x \notin S /\ ClosedNext(S)
  <2>1. y \in Trx /\ y \in lt_waits_for[x]
    BY Zenon, <1>1
  <2>2. WaitReach(y) \in SUBSET Trx /\ y \in WaitReach(y) /\ Closed(WaitReach(y))
    BY Zenon, <2>1, ReachClosed
  <2>3. x \notin WaitReach(y) /\ ClosedNext(WaitReach(y))
    BY Zenon, <2>1, <2>2, <1>1 DEF WaitGraphAcyclic, Closed, ClosedNext
  <2>4. QED
    BY Zenon, <2>2, <2>3
<1>4. WaitGraphAcyclic'
  BY Zenon, <1>3, AcyclicByClosedSets
<1>5. ClosingHasNoEdges'
  BY Zenon, <1>1 DEF ClosingHasNoEdges
<1>6. QED
  BY Zenon, <1>1, <1>2, <1>4, <1>5

(* lt_clear_waits, by the transaction that becomes closing or closed. *)
LEMMA ClosingEdges ==
  ASSUME IInv, NEW t \in Trx, lt_clear_waits(t),
         \A u \in Trx : u # t => lt_status'[u] = lt_status[u]
  PROVE  /\ lt_waits_for' \in [Trx -> SUBSET Trx]
         /\ lt_waiting_for_this' \in [Trx -> SUBSET Trx]
         /\ WaitEdgesMatch' /\ WaitGraphAcyclic' /\ ClosingHasNoEdges'
<1>1. /\ lt_waits_for' \in [Trx -> SUBSET Trx]
      /\ lt_waiting_for_this' \in [Trx -> SUBSET Trx]
      /\ WaitEdgesMatch' /\ WaitGraphAcyclic'
      /\ lt_waits_for'[t] = {} /\ lt_waiting_for_this'[t] = {}
      /\ \A u \in Trx : lt_waits_for[u] = {} /\ lt_waiting_for_this[u] = {}
                          => lt_waits_for'[u] = {} /\ lt_waiting_for_this'[u] = {}
  BY Zenon, ClearWaitsFacts DEF IInv
<1>2. ClosingHasNoEdges'
  BY Zenon, <1>1 DEF IInv, ClosingHasNoEdges
<1>3. QED
  BY Zenon, <1>1, <1>2

-----------------------------------------------------------------------------
(* A step of t that touches neither locks nor wait edges, starts and ends no *)
(* wait, and begins or ends no lt_transact.                                  *)
Quiet(t) ==
  /\ UNCHANGED <<lockVars, waitVars, txVars, lt_lw_threads, lt_lock>>
  /\ \A u \in Trx : u # t => /\ pc'[u] = pc[u] /\ wanted'[u] = wanted[u]
                             /\ lt_status'[u] = lt_status[u]
  /\ pc'[t] = "wait" <=> pc[t] = "wait"
  /\ pc'[t] = "woken" => pc[t] = "woken"
  /\ pc'[t] \in {"wait", "woken"} =>
       /\ wanted'[t] = wanted[t]
       /\ lt_status'[t] = "PENDING" => lt_status[t] = "PENDING"
  /\ lt_status'[t] \in {"CLOSING", "DELTA_ROLLED_BACK"} => lt_status'[t] = lt_status[t]

(* Such a step keeps the invariant: all but the types and the control state *)
(* is about locks, edges and waits.                                         *)
LEMMA QuietStep ==
  ASSUME IInv, TypeOK', Control', NEW t \in Trx, Quiet(t)
  PROVE  IInv'
<1> USE DEF Quiet
<1>1. /\ LockCompatible' /\ QueueHasOwner' /\ WaitEdgesMatch' /\ WaitGraphAcyclic'
      /\ \A u, m : Waits(u, m)' <=> Waits(u, m)
  BY Zenon, LocksFrame, EdgesFrame
<1>2. WaitsCounted'
  BY Zenon, WaitsCountedFrame DEF lockVars, txVars
<1>3. ClosingHasNoEdges'
  BY Zenon DEF IInv, ClosingHasNoEdges, waitVars
<1>4. WokenOwns'
  BY Zenon DEF IInv, WokenOwns, lockVars
<1>5. Releasing' /\ VictimsApart'
  BY <1>1 DEF IInv, Releasing, VictimsApart, lockVars, txVars
<1>6. Entitled'
  BY Zenon, EntitledFrame DEF lockVars, txVars
<1>7. Referenced'
  BY Zenon, <1>1 DEF IInv, Referenced, lockVars, txVars
<1>8. QED
  BY Zenon, <1>1, <1>2, <1>3, <1>4, <1>5, <1>6, <1>7 DEF IInv

(* A step of t that clears its wait edges and is at the start or at the end *)
(* of its lt_transact.                                                      *)
Closes(t) ==
  /\ lt_clear_waits(t)
  /\ UNCHANGED <<lockVars, todo, cur, scan, victim, lt_lw_threads, lt_lock>>
  /\ victim[t] = NoTrx /\ phase'[t] \in {"none", "array"} /\ lt_status'[t] # "PENDING"
  /\ \A u \in Trx : u # t => /\ pc'[u] = pc[u] /\ wanted'[u] = wanted[u]
                             /\ lt_status'[u] = lt_status[u] /\ phase'[u] = phase[u]
  /\ pc'[t] = "wait" <=> pc[t] = "wait"
  /\ pc[t] = "wait" => wanted'[t] = wanted[t]

(* Such a step keeps the invariant: no edge of t is left, and nothing is *)
(* asked of a transaction that is not pending.                           *)
LEMMA ClosingStep ==
  ASSUME IInv, TypeOK', Control', NEW t \in Trx, Closes(t)
  PROVE  IInv'
<1> USE DEF Closes
<1>1. WaitEdgesMatch' /\ WaitGraphAcyclic' /\ ClosingHasNoEdges'
  BY Zenon, ClosingEdges
<1>2. /\ LockCompatible' /\ QueueHasOwner'
      /\ \A u, m : Waits(u, m)' <=> Waits(u, m)
  BY Zenon, LocksFrame
<1>3. WaitsCounted'
  BY Zenon, WaitsCountedFrame DEF lockVars
<1>4. WokenOwns'
  BY Zenon DEF IInv, WokenOwns, lockVars
<1>5. Releasing' /\ VictimsApart'
  BY <1>2 DEF IInv, Releasing, VictimsApart, lockVars
<1>6. Entitled'
  BY Zenon, EntitledFrame DEF lockVars
<1>7. Referenced'
  BY Zenon, <1>2 DEF IInv, Referenced, lockVars
<1>8. QED
  BY Zenon, <1>1, <1>2, <1>3, <1>4, <1>5, <1>6, <1>7 DEF IInv

(* lock_wait that throws to itc_bust_this_trx. *)
LEMMA lock_wait_bustIInv ==
  ASSUME IInv, NEW t \in Trx, NEW l, NEW mode, NEW acq, lock_wait_bust(t, l, mode, acq)
  PROVE  IInv'
<1>1. TypeOK'
  BY Zenon DEF IInv, TypeOK, lock_wait_bust, MustWait, histVars, Status, lockVars, waitVars, txVars
<1>2. Control'
  BY DEF IInv, TypeOK, lock_wait_bust, MustWait, histVars, Control, txVars
<1>3. Quiet(t)
  BY Zenon DEF IInv, TypeOK, lock_wait_bust, MustWait, histVars, Quiet
<1>4. QED
  BY Zenon, <1>1, <1>2, <1>3, QuietStep

(* The return of lock_wait to a pending transaction. *)
LEMMA WaitOverIInv ==
  ASSUME IInv, NEW t \in Trx, WaitOver(t)
  PROVE  IInv'
<1>1. TypeOK'
  BY Zenon DEF IInv, TypeOK, WaitOver, histVars, Status, lockVars, waitVars, txVars
<1>2. Control'
  BY Zenon DEF IInv, TypeOK, WaitOver, histVars, Control, txVars
<1>3. Quiet(t)
  BY Zenon DEF IInv, TypeOK, WaitOver, histVars, Quiet
<1>4. QED
  BY Zenon, <1>1, <1>2, <1>3, QuietStep

(* lt_ack_close of a transaction that is being closed. *)
LEMMA BustAcknowledgesIInv ==
  ASSUME IInv, NEW t \in Trx, BustAcknowledges(t)
  PROVE  IInv'
<1>1. TypeOK'
  <2> USE DEF IInv, BustAcknowledges, Busts, histVars
  <2>1. pc[t] \notin {"busting", "ackwait", "closing"}
    BY Zenon
  <2>2. lt_close_ack_threads[t] # 1 /\ lt_close_ack_threads[t] \in 0..1
    BY Zenon, <2>1 DEF Control, TypeOK
  <2>3. QED
    BY <2>2 DEF TypeOK, Status, lockVars, waitVars, txVars
<1>2. Control'
  BY DEF IInv, BustAcknowledges, Busts, histVars, Control, TypeOK, txVars
<1>3. Quiet(t)
  BY Zenon DEF IInv, BustAcknowledges, Busts, TypeOK, Quiet
<1>4. QED
  BY Zenon, <1>1, <1>2, <1>3, QuietStep

(* lt_commit up to log_commit. *)
LEMMA lt_commitIInv ==
  ASSUME IInv, NEW t \in Trx, lt_commit(t)
  PROVE  IInv'
<1>1. TypeOK'
  BY Zenon DEF IInv, TypeOK, lt_commit, histVars, Status, lockVars, waitVars, txVars
<1>2. Control'
  BY DEF IInv, TypeOK, lt_commit, histVars, Control, txVars
<1>3. Quiet(t)
  BY Zenon DEF IInv, TypeOK, lt_commit, histVars, Quiet
<1>4. QED
  BY Zenon, <1>1, <1>2, <1>3, QuietStep

(* lt_rollback_1 up to log_cl_final. *)
LEMMA lt_rollbackIInv ==
  ASSUME IInv, NEW t \in Trx, lt_rollback(t)
  PROVE  IInv'
<1>1. TypeOK'
  BY Zenon DEF IInv, TypeOK, lt_rollback, histVars, Status, lockVars, waitVars, txVars
<1>2. Control'
  BY DEF IInv, TypeOK, lt_rollback, histVars, Control, txVars
<1>3. Quiet(t)
  BY Zenon DEF IInv, TypeOK, lt_rollback, histVars, Quiet
<1>4. QED
  BY Zenon, <1>1, <1>2, <1>3, QuietStep

(* lt_restart. *)
LEMMA lt_restartIInv ==
  ASSUME IInv, NEW t \in Trx, lt_restart(t)
  PROVE  IInv'
<1>1. TypeOK'
  BY DEF IInv, TypeOK, lt_restart, histVars, Status, lockVars, waitVars, txVars
<1>2. Control'
  BY DEF IInv, TypeOK, lt_restart, histVars, Control, txVars
<1>3. Quiet(t)
  BY Zenon DEF IInv, TypeOK, lt_restart, histVars, Quiet
<1>4. QED
  BY Zenon, <1>1, <1>2, <1>3, QuietStep

(* lt_kill_other_trx of a running transaction. *)
LEMMA KillRunningIInv ==
  ASSUME IInv, NEW t \in Trx, KillRunning(t)
  PROVE  IInv'
<1>1. TypeOK'
  BY Zenon DEF IInv, TypeOK, KillRunning, histVars, Status, lockVars, waitVars, txVars
<1>2. Control'
  BY Zenon DEF IInv, TypeOK, KillRunning, histVars, Control, txVars
<1>3. Quiet(t)
  BY Zenon DEF IInv, TypeOK, KillRunning, histVars, Quiet
<1>4. QED
  BY Zenon, <1>1, <1>2, <1>3, QuietStep

(* lt_ack_close that rolls back its own transaction. *)
LEMMA BustRollsBackIInv ==
  ASSUME IInv, NEW t \in Trx, BustRollsBack(t)
  PROVE  IInv'
<1> USE DEF BustRollsBack, Busts, lt_transact, histVars
<1>1. /\ phase[t] = "none" /\ todo[t] = {} /\ pc[t] # "wait"
      /\ lt_close_ack_threads[t] = 0
  <2>1. phase[t] = "none" /\ pc[t] \notin {"wait", "busting", "ackwait", "closing"}
    BY Zenon DEF IInv, Control, TypeOK
  <2>2. lt_close_ack_threads[t] # 1 /\ lt_close_ack_threads[t] \in 0..1
    BY Zenon, <2>1 DEF IInv, Control, TypeOK
  <2>3. QED
    BY <2>1, <2>2 DEF IInv, Control
<1>2. /\ lt_waits_for' \in [Trx -> SUBSET Trx]
      /\ lt_waiting_for_this' \in [Trx -> SUBSET Trx]
  <2>1. \A u \in Trx : u # t => lt_status'[u] = lt_status[u]
    BY Zenon DEF IInv, TypeOK
  <2>2. QED
    BY Zenon, <2>1, ClosingEdges
<1>3. TypeOK'
  <2>1. lt_close_ack_threads' \in [Trx -> 0..1]
    BY <1>1 DEF IInv, TypeOK
  <2>2. QED
    BY Zenon, <2>1, <1>2 DEF IInv, TypeOK, Status, lockVars
<1>4. Control'
  BY <1>1 DEF IInv, Control, TypeOK
<1>5. Closes(t)
  <2>1. victim[t] = NoTrx
    BY Zenon, <1>1 DEF IInv, Releasing
  <2>2. QED
    BY Zenon, <1>1, <2>1 DEF IInv, TypeOK, Closes
<1> HIDE DEF BustRollsBack, Busts, lt_transact
<1>6. QED
  BY Zenon, <1>3, <1>4, <1>5, ClosingStep

(* lt_transact by the committing thread. *)
LEMMA AfterLogIInv ==
  ASSUME IInv, NEW t \in Trx, AfterLog(t)
  PROVE  IInv'
<1> USE DEF AfterLog, lt_transact, histVars
<1>1. /\ phase[t] = "none" /\ todo[t] = {} /\ pc[t] # "wait"
      /\ lt_close_ack_threads[t] = 0
  <2>1. phase[t] = "none" /\ pc[t] \notin {"wait", "busting", "ackwait", "closing"}
    BY Zenon DEF IInv, Control, TypeOK
  <2>2. lt_close_ack_threads[t] # 1 /\ lt_close_ack_threads[t] \in 0..1
    BY Zenon, <2>1 DEF IInv, Control, TypeOK
  <2>3. QED
    BY <2>1, <2>2 DEF IInv, Control
<1>2. /\ lt_waits_for' \in [Trx -> SUBSET Trx]
      /\ lt_waiting_for_this' \in [Trx -> SUBSET Trx]
  <2>1. \A u \in Trx : u # t => lt_status'[u] = lt_status[u]
    BY Zenon DEF IInv, TypeOK
  <2>2. QED
    BY Zenon, <2>1, ClosingEdges
<1>3. TypeOK'
  <2>1. lt_close_ack_threads' \in [Trx -> 0..1]
    BY <1>1 DEF IInv, TypeOK
  <2>2. QED
    BY Zenon, <2>1, <1>2 DEF IInv, TypeOK, Status, lockVars
<1>4. Control'
  BY <1>1 DEF IInv, Control, TypeOK
<1>5. Closes(t)
  <2>1. victim[t] = NoTrx
    BY Zenon, <1>1 DEF IInv, Releasing
  <2>2. QED
    BY Zenon, <1>1, <2>1 DEF IInv, TypeOK, Closes
<1> HIDE DEF AfterLog, lt_transact
<1>6. QED
  BY Zenon, <1>3, <1>4, <1>5, ClosingStep

(* lt_rollback_other of a transaction that waits for a lock. *)
LEMMA KillWaitingIInv ==
  ASSUME IInv, NEW t \in Trx, KillWaiting(t)
  PROVE  IInv'
<1> USE DEF KillWaiting, lt_transact, histVars
<1>1. phase[t] = "none" /\ todo[t] = {} /\ pc[t] = "wait"
  <2>1. lt_lw_threads[t] = 1
    BY DEF IInv, TypeOK
  <2>2. phase[t] = "none" /\ pc[t] = "wait"
    BY Zenon, <2>1 DEF IInv, Control, WaitsCounted
  <2>3. QED
    BY Zenon, <2>2 DEF IInv, Control
<1>2. /\ lt_waits_for' \in [Trx -> SUBSET Trx]
      /\ lt_waiting_for_this' \in [Trx -> SUBSET Trx]
  <2>1. \A u \in Trx : u # t => lt_status'[u] = lt_status[u]
    BY Zenon DEF IInv, TypeOK
  <2>2. QED
    BY Zenon, <2>1, ClosingEdges
<1>3. TypeOK'
  BY Zenon, <1>2 DEF IInv, TypeOK, Status, lockVars
<1>4. Control'
  BY <1>1 DEF IInv, Control, TypeOK
<1>5. Closes(t)
  <2>1. victim[t] = NoTrx
    BY Zenon, <1>1 DEF IInv, Releasing
  <2>2. QED
    BY Zenon, <1>1, <2>1 DEF IInv, TypeOK, Closes
<1> HIDE DEF KillWaiting, lt_transact
<1>6. QED
  BY Zenon, <1>3, <1>4, <1>5, ClosingStep

(* The end of lt_transact. *)
LEMMA lt_transact_endIInv ==
  ASSUME IInv, NEW t \in Trx, lt_transact_end(t)
  PROVE  IInv'
<1> USE DEF lt_transact_end, histVars
<1>1. todo[t] = {} /\ pc[t] \in {"busting", "ackwait", "closing"}
  <2>1. lt_close_ack_threads[t] = 1
    BY DEF IInv, TypeOK
  <2>2. QED
    BY Zenon, <2>1 DEF IInv, Control
<1>2. UNCHANGED lt_lw_threads
  <2>1. lt_lw_threads[t] # 1 /\ lt_lw_threads[t] \in 0..1
    BY Zenon, <1>1 DEF IInv, WaitsCounted, TypeOK
  <2>2. QED
    BY <2>1 DEF IInv, TypeOK
<1>3. TypeOK'
  <2>1. \A u \in Trx : u # t => lt_status'[u] = lt_status[u]
    BY Zenon DEF IInv, TypeOK
  <2>2. /\ lt_waits_for' \in [Trx -> SUBSET Trx]
        /\ lt_waiting_for_this' \in [Trx -> SUBSET Trx]
    BY Zenon, <2>1, ClosingEdges
  <2>3. lt_close_ack_threads' \in [Trx -> 0..1]
    BY DEF IInv, TypeOK
  <2>4. QED
    BY Zenon, <2>2, <2>3, <1>2 DEF IInv, TypeOK, Status, lockVars
<1>4. Control'
  BY <1>1 DEF IInv, Control, TypeOK
<1>5. Closes(t)
  <2>1. victim[t] = NoTrx
    BY Zenon DEF IInv, Releasing
  <2>2. QED
    BY Zenon, <1>1, <1>2, <2>1 DEF IInv, TypeOK, Closes
<1> HIDE DEF lt_transact_end
<1>6. QED
  BY Zenon, <1>3, <1>4, <1>5, ClosingStep

(* lt_locks_to_array. *)
LEMMA lt_locks_to_arrayIInv ==
  ASSUME IInv, NEW t \in Trx, lt_locks_to_array(t)
  PROVE  IInv'
<1> USE DEF IInv, lt_locks_to_array, histVars
<1>0. UNCHANGED <<lockVars, waitVars>> /\ todo[t] = {} /\ lt_status[t] = "CLOSING"
  BY Zenon DEF lockVars, waitVars, Control
<1>1. TypeOK'
  BY Zenon, <1>0 DEF TypeOK, lockVars, waitVars
<1>2. /\ LockCompatible' /\ QueueHasOwner' /\ WaitEdgesMatch' /\ WaitGraphAcyclic'
      /\ \A u, m : Waits(u, m)' <=> Waits(u, m)
  BY Zenon, <1>0, LocksFrame, EdgesFrame
<1>3. WaitsCounted'
  BY Zenon, <1>0, WaitsCountedFrame DEF lockVars
<1>4. ClosingHasNoEdges' /\ WokenOwns'
  BY Zenon, <1>0 DEF ClosingHasNoEdges, WokenOwns, lockVars, waitVars
<1>5. Control'
  BY <1>0 DEF Control, TypeOK
<1>6. Releasing' /\ VictimsApart'
  BY SMTT(15), ZenonT(40), <1>0, <1>2 DEF Releasing, VictimsApart, lockVars, TypeOK
<1>7. Entitled'
  BY Zenon, <1>0, EntitledFrame DEF lockVars
<1>8. Referenced'
  <2>1. \A u \in Trx : lt_lock'[u] \cup todo'[u] = lt_lock[u] \cup todo[u]
    BY Zenon, <1>0 DEF TypeOK
  <2>2. QED
    BY Zenon, <1>0, <1>2, <2>1 DEF Referenced, lockVars
<1>9. QED
  BY Zenon, <1>1, <1>2, <1>3, <1>4, <1>5, <1>6, <1>7, <1>8

(* itc_set_lock_on_row and lock_enter without a wait. *)
LEMMA TakeLockIInv ==
  ASSUME IInv, NEW t \in Trx, NEW l \in Locks, NEW mode \in Mode, TakeLock(t, l, mode)
  PROVE  IInv'
<1> USE DEF IInv, TakeLock, waitVars, txVars, histVars
<1>0. \A u, m : Waits(u, m)' <=> Waits(u, m)
  BY Zenon DEF Waits
<1>1. TypeOK'
  BY DEF TypeOK, TypeOwned
<1>2. LockCompatible'
  BY Zenon, OwnKeepsCompatible
<1>3. WaitEdgesMatch' /\ ClosingHasNoEdges' /\ WaitGraphAcyclic'
  <2>1. WaitEdgesMatch' /\ WaitGraphAcyclic'
    BY Zenon, EdgesFrame
  <2>2. ClosingHasNoEdges'
    BY Zenon DEF ClosingHasNoEdges
  <2>3. QED
    BY Zenon, <2>1, <2>2
<1>4. WaitsCounted'
  BY Zenon, <1>0 DEF WaitsCounted
<1>5. QueueHasOwner'
  <2>1. \A m \in Locks : ~Waits(t, m)
    BY Zenon, OnlyWaitersQueue
  <2>2. \A m \in Locks : pl_owner'[m] \in {pl_owner[m], pl_owner[m] \cup {t}}
    BY Zenon DEF TypeOK
  <2>3. QED
    BY SMTT(15), ZenonT(40), <1>0, <2>1, <2>2 DEF QueueHasOwner
<1>6. WokenOwns'
  BY Zenon DEF WokenOwns, TypeOK
<1>7. Control'
  BY DEF Control, TypeOK
<1>8. Releasing' /\ VictimsApart'
  BY SMTT(15), ZenonT(40), <1>0 DEF Releasing, VictimsApart, TypeOK
<1>9. Entitled'
  BY ZenonT(60) DEF Entitled, TypeOK
<1>10. Referenced'
  BY SMTT(15), ZenonT(40), <1>0 DEF Referenced, TypeOK
<1>11. QED
  BY Zenon, <1>1, <1>2, <1>3, <1>4, <1>5, <1>6, <1>7, <1>8, <1>9, <1>10

-----------------------------------------------------------------------------
(* lock_release: the steps that free nobody, and those that take a waiter out of the queue *)

(* lock_release up to the scan of the waiters. *)
LEMMA lock_releaseIInv ==
  ASSUME IInv, NEW t \in Trx, NEW l \in Locks, lock_release(t, l)
  PROVE  IInv'
<1> USE DEF IInv, lock_release, histVars
<1>0. /\ lt_status[t] = "CLOSING" /\ victim[t] = NoTrx /\ t # NoTrx
      /\ UNCHANGED waitVars
      /\ pl_owner'[l] = pl_owner[l] \ {t} /\ latch'[l] = t
      /\ \A m \in Locks : m # l => /\ pl_owner'[m] = pl_owner[m]
                                   /\ pl_type'[m] = pl_type[m]
                                   /\ latch'[m] = latch[m]
  BY NamesDiffer DEF Control, Releasing, waitVars, TypeOK
<1>1. TypeOK'
  BY Zenon DEF TypeOK, waitVars
<1>2. \A u, m : Waits(u, m)' <=> Waits(u, m)
  BY Zenon DEF Waits
<1>3. LockCompatible'
  <2>1. pl_type'[l] = IF pl_owner'[l] = {} THEN "FREE" ELSE pl_type[l]
    BY Zenon DEF TypeOK
  <2>2. QED
    BY <1>0, <2>1 DEF LockCompatible
<1>4. WaitEdgesMatch' /\ WaitGraphAcyclic' /\ ClosingHasNoEdges'
  BY Zenon, <1>0, EdgesFrame DEF ClosingHasNoEdges, waitVars
<1>5. WaitsCounted'
  BY Zenon, WaitsCountedFrame
<1>6. QueueHasOwner'
  BY Zenon, <1>0, <1>2 DEF QueueHasOwner
<1>7. WokenOwns'
  BY <1>0 DEF WokenOwns, TypeOK
<1>8. Control'
  BY <1>0 DEF Control, TypeOK
<1>9. Releasing' /\ VictimsApart'
  <2>1. cur'[t] = l /\ scan'[t] = 1 /\ phase'[t] = "release"
    BY Zenon DEF TypeOK
  <2>2. \A u \in Trx : u # t => cur'[u] = cur[u] /\ scan'[u] = scan[u]
                                /\ phase'[u] = phase[u]
    BY Zenon DEF TypeOK
  <2>3. \A u \in Trx : phase[u] \in {"release", "signal"} => cur[u] # l
    BY NamesDiffer DEF Releasing
  <2>4. Releasing'
    BY <1>0, <2>1, <2>2, <2>3 DEF Releasing
  <2>5. VictimsApart'
    BY Zenon, <1>2 DEF VictimsApart
  <2>6. QED
    BY Zenon, <2>4, <2>5
<1>10. Entitled'
  <2>1. ASSUME NEW u \in Trx, victim[u] # NoTrx, lt_status[victim[u]] = "PENDING",
               wanted[victim[u]] # NoLock
        PROVE  victim[u] \in pl_owner'[wanted[victim[u]]]
    <3>1. victim[u] \in Trx /\ wanted[victim[u]] \in Locks /\ victim[u] # t
      BY <2>1, <1>0 DEF TypeOK
    <3>2. victim[u] \in pl_owner[wanted[victim[u]]]
      BY Zenon, <2>1 DEF Entitled
    <3>3. QED
      BY Zenon, <3>1, <3>2, <1>0
  <2>2. UNCHANGED <<pl_waiting, wanted, victim, lt_status>>
    BY Zenon
  <2>3. QED
    BY ONLY Zenon, IInv, <2>1, <2>2 DEF IInv, Entitled
<1>11. Referenced'
  <2>1. \A u \in Trx : todo'[u] = IF u = t THEN todo[u] \ {l} ELSE todo[u]
    BY Zenon DEF TypeOK
  <2>2. UNCHANGED lt_lock /\ latch[l] = NoTrx
    BY Zenon
  <2>3. ASSUME NEW u \in Trx, NEW m \in Locks, u \in pl_owner'[m] \/ Waits(u, m)
        PROVE  m \in lt_lock[u] \cup todo'[u] \/ (latch'[m] = u /\ u \notin pl_owner'[m])
    <3>1. u \in pl_owner[m] \/ Waits(u, m)
      BY Zenon, <2>3, <1>0
    <3>2. m \in lt_lock[u] \cup todo[u] \/ (latch[m] = u /\ u \notin pl_owner[m])
      BY ZenonT(60), <3>1 DEF Referenced
    <3>3. CASE m = l
      BY SMTT(30), <3>2, <3>3, <1>0, <2>1, <2>2, NamesDiffer
    <3>4. CASE m # l
      BY <3>2, <3>4, <1>0, <2>1
    <3>5. QED
      BY Zenon, <3>3, <3>4
  <2>4. QED
    BY ONLY Zenon, <1>2, <2>2, <2>3 DEF Referenced
<1>12. QED
  BY Zenon, <1>1, <1>3, <1>4, <1>5, <1>6, <1>7, <1>8, <1>9, <1>10, <1>11

(* The scan of lock_release passes a live waiter. *)
LEMMA ScanLiveIInv ==
  ASSUME IInv, NEW t \in Trx, ScanLive(t)
  PROVE  IInv'
<1> USE DEF IInv, ScanLive, histVars
<1>0. UNCHANGED <<lockVars, waitVars>>
  BY Zenon DEF lockVars, waitVars
<1>1. TypeOK'
  BY <1>0 DEF TypeOK, lockVars, waitVars
<1>2. /\ LockCompatible' /\ QueueHasOwner' /\ WaitEdgesMatch' /\ WaitGraphAcyclic'
      /\ \A u, m : Waits(u, m)' <=> Waits(u, m)
  BY Zenon, <1>0, LocksFrame, EdgesFrame
<1>3. WaitsCounted'
  BY Zenon, <1>0, WaitsCountedFrame DEF lockVars
<1>4. ClosingHasNoEdges' /\ WokenOwns'
  BY Zenon, <1>0 DEF ClosingHasNoEdges, WokenOwns, lockVars, waitVars
<1>5. Control'
  BY Zenon DEF Control
<1>6. Releasing'
  <2>1. scan'[t] = scan[t] + 1 /\ \A u \in Trx : u # t => scan'[u] = scan[u]
    BY Zenon DEF TypeOK
  <2>2. /\ cur[t] \in Locks /\ scan[t] \in Nat \ {0}
        /\ Len(pl_waiting[cur[t]]) \in Nat
    BY DEF Releasing, TypeOK
  <2>3. ASSUME NEW i \in 1..Len(pl_waiting[cur[t]]), i < scan[t] + 1
        PROVE  pl_waiting[cur[t]][i].lt # t
    <3>1. i < scan[t] \/ i = scan[t]
      BY ONLY <2>2, <2>3, i \in 1..Len(pl_waiting[cur[t]])
    <3>2. QED
      BY ZenonT(30), <3>1 DEF Releasing
  <2>4. QED
    BY SMTT(15), ZenonT(40), <1>0, <2>1, <2>2, <2>3 DEF Releasing, lockVars
<1>7. VictimsApart' /\ Referenced'
  BY Zenon, <1>0, <1>2 DEF VictimsApart, Referenced, lockVars
<1>8. Entitled'
  BY Zenon, <1>0, EntitledFrame DEF lockVars
<1>9. QED
  BY Zenon, <1>1, <1>2, <1>3, <1>4, <1>5, <1>6, <1>7, <1>8

(* lock_release wakes a cursor it has dequeued. *)
LEMMA SignalIInv ==
  ASSUME IInv, NEW t \in Trx, Signal(t)
  PROVE  IInv'
<1> DEFINE w == victim[t]
<1> USE DEF IInv, Signal, histVars
<1>0. /\ UNCHANGED <<lockVars, waitVars>>
      /\ w \in Trx /\ w # NoTrx /\ pc[w] = "wait" /\ lt_lw_threads[w] = 1
      /\ \A m \in Locks : ~Waits(w, m)
      /\ \A u \in Trx : u # t => victim[u] # w
  <2>1. w \in Trx /\ w # NoTrx
    BY DEF Releasing, TypeOK
  <2>2. pc[w] = "wait" /\ lt_lw_threads[w] = 1
    BY Zenon, <2>1 DEF WaitsCounted
  <2>3. QED
    BY Zenon, <2>1, <2>2 DEF VictimsApart, lockVars, waitVars
<1>1. /\ victim'[t] = NoTrx /\ phase'[t] = "release"
      /\ \A u \in Trx : u # t => victim'[u] = victim[u] /\ phase'[u] = phase[u]
      /\ pc'[w] = "woken" /\ lt_lw_threads'[w] = 0
      /\ \A u \in Trx : u # w => pc'[u] = pc[u] /\ lt_lw_threads'[u] = lt_lw_threads[u]
  BY <1>0 DEF TypeOK
<1>2. TypeOK'
  <2>1. lt_lw_threads' \in [Trx -> 0..1]
    BY <1>0 DEF TypeOK
  <2>2. QED
    BY Zenon, <1>0, <2>1 DEF TypeOK, lockVars, waitVars
<1>3. /\ LockCompatible' /\ QueueHasOwner' /\ WaitEdgesMatch' /\ WaitGraphAcyclic'
      /\ \A u, m : Waits(u, m)' <=> Waits(u, m)
  BY Zenon, <1>0, LocksFrame, EdgesFrame
<1> HIDE DEF w
<1>4. WaitsCounted'
  <2>1. \A u \in Trx : u # w => ((\E v \in Trx : victim'[v] = u) <=> (\E v \in Trx : victim[v] = u))
    BY <1>0, <1>1, NamesDiffer DEF w
  <2>2. ~ \E v \in Trx : victim'[v] = w
    BY Zenon, <1>0, <1>1
  <2>3. UNCHANGED pl_waiting
    BY Zenon, <1>0 DEF lockVars
  <2>4. QED
    BY ONLY SMTT(30), IInv, <1>0, <1>1, <1>3, <2>1, <2>2, <2>3 DEF IInv, WaitsCounted
<1>5. ClosingHasNoEdges'
  BY Zenon, <1>0 DEF ClosingHasNoEdges, waitVars
<1>6. WokenOwns'
  <2>1. lt_status[w] = "PENDING" /\ wanted[w] # NoLock => w \in pl_owner[wanted[w]]
    BY Zenon, <1>0 DEF Entitled, w
  <2>2. UNCHANGED <<lt_status, wanted, pl_owner>>
    BY Zenon, <1>0 DEF lockVars
  <2>3. QED
    BY ONLY Zenon, IInv, <1>1, <2>1, <2>2 DEF IInv, WokenOwns
<1>7. Control'
  <2>1. UNCHANGED <<lt_status, lt_close_ack_threads, todo, lt_lock>> /\ phase[t] = "signal"
    BY Zenon
  <2>2. QED
    BY ONLY IInv, <1>0, <1>1, <2>1 DEF IInv, Control
<1>8. Releasing'
  <2>1. UNCHANGED <<lockVars, cur, scan>> /\ phase[t] = "signal"
    BY Zenon, <1>0
  <2>2. QED
    BY ONLY IInv, <1>1, <2>1 DEF IInv, Releasing, lockVars
<1>9. VictimsApart'
  BY ONLY SMTT(15), ZenonT(40), IInv, <1>1, <1>3 DEF IInv, VictimsApart
<1>10. Entitled'
  <2>1. UNCHANGED <<pl_waiting, pl_owner, wanted, lt_status>>
    BY Zenon, <1>0 DEF lockVars
  <2>2. QED
    BY ONLY ZenonT(60), IInv, <1>1, <2>1 DEF IInv, Entitled
<1>11. Referenced'
  BY Zenon, <1>0, <1>3 DEF Referenced, lockVars
<1>12. QED
  BY Zenon, <1>2, <1>3, <1>4, <1>5, <1>6, <1>7, <1>8, <1>9, <1>10, <1>11

(* lock_release returns. *)
LEMMA ReleaseDoneIInv ==
  ASSUME IInv, NEW t \in Trx, ReleaseDone(t)
  PROVE  IInv'
<1> DEFINE l == cur[t]
<1> USE DEF IInv, ReleaseDone, Granting
<1>0. /\ UNCHANGED <<pl_type, pl_owner, pl_waiting, waitVars>>
      /\ l \in Locks /\ latch[l] = t /\ victim[t] = NoTrx /\ lt_status[t] = "CLOSING"
      /\ ~Waits(t, l)
  <2>1. l \in Locks /\ latch[l] = t /\ victim[t] = NoTrx /\ lt_status[t] = "CLOSING"
    BY Zenon DEF Releasing, Control
  <2>2. ASSUME NEW i \in 1..Len(pl_waiting[l]) PROVE pl_waiting[l][i].lt # t
    <3>1. Len(pl_waiting[l]) \in Nat /\ scan[t] \in Nat /\ scan[t] > Len(pl_waiting[l])
      BY <2>1 DEF TypeOK
    <3>2. i < scan[t]
      BY ONLY <3>1, i \in 1..Len(pl_waiting[l])
    <3>3. QED
      BY Zenon, <3>2 DEF Releasing
  <2>3. QED
    BY Zenon, <2>1, <2>2 DEF Waits, Queued, waitVars
<1>1. /\ latch'[l] = NoTrx /\ phase'[t] = IF todo[t] = {} THEN "array" ELSE "pages"
      /\ \A m \in Locks : m # l => latch'[m] = latch[m]
      /\ \A u \in Trx : u # t => /\ cur'[u] = cur[u] /\ scan'[u] = scan[u]
                                 /\ phase'[u] = phase[u]
  BY Zenon, <1>0 DEF TypeOK
<1>2. TypeOK'
  <2>1. 0 \in Nat
    BY Zenon
  <2>2. phase'[t] \in {"none", "array", "pages", "release", "signal"}
    BY Zenon, <1>1
  <2>3. QED
    BY ZenonT(40), <1>0, <2>1, <2>2 DEF TypeOK, waitVars
<1>3. \A u, m : Waits(u, m)' <=> Waits(u, m)
  BY Zenon DEF Waits
<1>4. LockCompatible' /\ WaitEdgesMatch' /\ WaitGraphAcyclic' /\ ClosingHasNoEdges'
  <2>1. WaitEdgesMatch' /\ WaitGraphAcyclic'
    BY Zenon, <1>0, EdgesFrame
  <2>2. UNCHANGED <<pl_type, pl_owner, lt_status, lt_waits_for, lt_waiting_for_this>>
    BY Zenon, <1>0 DEF waitVars
  <2>3. QED
    BY ONLY Zenon, IInv, <2>1, <2>2 DEF IInv, LockCompatible, ClosingHasNoEdges
<1>5. WaitsCounted'
  BY Zenon, WaitsCountedFrame
<1>6. QueueHasOwner'
  <2>1. pl_waiting[l] # <<>> => pl_type[l] # "FREE"
    BY Zenon DEF MayGo, MayOwn
  <2>2. pl_waiting[l] # <<>> => pl_owner[l] # {}
    BY Zenon, <1>0, <2>1 DEF LockCompatible
  <2>3. UNCHANGED <<pl_owner, pl_waiting>>
    BY Zenon, <1>0
  <2> HIDE DEF l
  <2>4. QED
    BY ONLY Zenon, IInv, <1>0, <1>1, <1>3, <2>2, <2>3 DEF IInv, QueueHasOwner
<1>7. WokenOwns'
  BY Zenon DEF WokenOwns
<1>8. Control'
  <2>1. UNCHANGED <<lt_status, lt_close_ack_threads, todo, lt_lock, pc>>
        /\ phase[t] = "release"
    BY Zenon
  <2>2. QED
    <3>1. phase'[t] = "pages" \/ (phase'[t] = "array" /\ todo[t] = {})
      BY ONLY Zenon, <1>1
    <3>2. lt_status[t] = "CLOSING" /\ \A u \in Trx : u # t => phase'[u] = phase[u]
      BY ONLY Zenon, <1>0, <1>1
    <3>3. QED
      BY ONLY ZenonT(30), IInv, <2>1, <3>1, <3>2 DEF IInv, Control
<1>9. Releasing' /\ VictimsApart'
  <2>1. \A u \in Trx : u # t /\ phase[u] \in {"release", "signal"} => cur[u] # l
    BY ONLY Zenon, IInv, <1>0 DEF IInv, Releasing
  <2>2. UNCHANGED <<pl_waiting, victim>>
    BY Zenon
  <2>3. VictimsApart'
    BY Zenon, <1>3, <2>2 DEF VictimsApart
  <2> HIDE DEF l
  <2>4. Releasing'
    <3>1. phase'[t] \notin {"release", "signal"} /\ victim'[t] = NoTrx
      BY ONLY Zenon, <1>0, <1>1, <2>2
    <3>2. ASSUME NEW u \in Trx, u # t, phase[u] \in {"release", "signal"}
          PROVE  cur[u] \in Locks /\ latch'[cur[u]] = u
      BY ONLY Zenon, IInv, <3>2, <1>1, <2>1 DEF IInv, Releasing
    <3>3. Releasing
      BY Zenon
    <3>4. QED
      <4>1. ASSUME NEW u \in Trx, u # t, phase'[u] \in {"release", "signal"}
            PROVE  /\ cur'[u] \in Locks /\ latch'[cur'[u]] = u
                   /\ scan'[u] \in Nat \ {0}
                   /\ \A i \in 1..Len(pl_waiting'[cur'[u]]) :
                        i < scan'[u] => pl_waiting'[cur'[u]][i].lt # u
        <5>1. phase[u] \in {"release", "signal"} /\ cur'[u] = cur[u] /\ scan'[u] = scan[u]
          BY ONLY Zenon, <4>1, <1>1
        <5>2. /\ cur[u] \in Locks /\ latch'[cur[u]] = u /\ scan[u] \in Nat \ {0}
              /\ \A i \in 1..Len(pl_waiting[cur[u]]) :
                   i < scan[u] => pl_waiting[cur[u]][i].lt # u
          BY ONLY Zenon, u \in Trx, <4>1, <5>1, <3>2, <3>3 DEF Releasing
        <5>3. QED
          BY ONLY Zenon, <5>1, <5>2, <2>2
      <4>2. ASSUME NEW u \in Trx PROVE phase'[u] = "signal" <=> victim'[u] # NoTrx
        <5>1. CASE u = t
          BY ONLY Zenon, <5>1, <3>1
        <5>2. CASE u # t
          BY ONLY Zenon, u \in Trx, <5>2, <1>1, <2>2, <3>3 DEF Releasing
        <5>3. QED
          BY ONLY Zenon, <5>1, <5>2
      <4>3. QED
        BY ONLY Zenon, <3>1, <4>1, <4>2 DEF Releasing
  <2>5. QED
    BY Zenon, <2>3, <2>4
<1>10. Entitled'
  BY Zenon DEF Entitled
<1>11. Referenced'
  <2>1. UNCHANGED <<pl_owner, lt_lock, todo>>
    BY Zenon
  <2> HIDE DEF l
  <2>2. ASSUME NEW u \in Trx, NEW m \in Locks, u \in pl_owner[m] \/ Waits(u, m)
        PROVE  m \in lt_lock[u] \cup todo[u] \/ (latch'[m] = u /\ u \notin pl_owner[m])
    <3>1. m \in lt_lock[u] \cup todo[u] \/ (latch[m] = u /\ u \notin pl_owner[m])
      BY Zenon, <2>2 DEF Referenced
    <3>2. CASE m = l
      BY Zenon, <2>2, <3>1, <3>2, <1>0
    <3>3. CASE m # l
      BY Zenon, <3>1, <3>3, <1>1
    <3>4. QED
      BY Zenon, <3>2, <3>3
  <2>3. QED
    BY ONLY Zenon, <1>3, <2>1, <2>2 DEF Referenced
<1>12. QED
  BY Zenon, <1>2, <1>4, <1>5, <1>6, <1>7, <1>8, <1>9, <1>10, <1>11

\* What the three actions that let a queued cursor go have in common: w leaves
\* the queue of l, which becomes r, and the page of which t has latched; t is
\* about to signal w; the owners of l grow at most by w; in lt_lock and wanted
\* only what concerns w changes.
LetsGo(t, l, w, r) ==
  /\ phase[t] = "release" /\ cur[t] = l
  /\ w \in Queued(pl_waiting[l])
  /\ r \in Seq(Waiter)
  /\ Distinct(r) /\ Queued(r) = Queued(pl_waiting[l]) \ {w}
  /\ \A j \in 1..Len(r) : /\ \E k \in 1..Len(pl_waiting[l]) : r[j] = pl_waiting[l][k]
                          /\ j < scan[t] => r[j].lt # t
  /\ pl_waiting' = [pl_waiting EXCEPT ![l] = r]
  /\ victim' = [victim EXCEPT ![t] = w]
  /\ phase' = [phase EXCEPT ![t] = "signal"]
  /\ UNCHANGED <<latch, lt_lw_threads, pc, lt_status, lt_close_ack_threads, todo, cur,
                 scan, killer, histVars>>
  /\ pl_type' \in [Locks -> Mode \cup {"FREE"}]
  /\ pl_owner' \in [Locks -> SUBSET Trx]
  /\ lt_lock' \in [Trx -> SUBSET Locks]
  /\ wanted' \in [Trx -> Locks \cup {NoLock}]
  /\ lt_waits_for' \in [Trx -> SUBSET Trx]
  /\ lt_waiting_for_this' \in [Trx -> SUBSET Trx]
  /\ LockCompatible' /\ WaitEdgesMatch' /\ WaitGraphAcyclic' /\ ClosingHasNoEdges'
  /\ \A m \in Locks : m # l => pl_owner'[m] = pl_owner[m]
  /\ pl_owner'[l] \in {pl_owner[l], pl_owner[l] \cup {w}}
  /\ \A u \in Trx : u # w => lt_lock'[u] = lt_lock[u] /\ wanted'[u] = wanted[u]
  /\ lt_lock'[w] \in {lt_lock[w], lt_lock[w] \ {l}}
  /\ w \in pl_owner'[l] => w # t /\ lt_lock'[w] = lt_lock[w]
  /\ lt_status[w] = "PENDING" /\ wanted'[w] # NoLock => w \in pl_owner'[wanted'[w]]

(* A step that lets one queued cursor go keeps the invariant. *)
LEMMA LetsGoIInv ==
  ASSUME IInv, NEW t \in Trx, NEW l \in Locks, NEW w \in Trx, NEW r, LetsGo(t, l, w, r)
  PROVE  IInv'
<1> USE DEF LetsGo
<1>1. /\ latch[l] = t /\ lt_status[t] = "CLOSING" /\ pc[w] = "wait"
      /\ \A u \in Trx : victim[u] # w
      /\ \A u \in Trx : u # t /\ phase[u] \in {"release", "signal"} => cur[u] # l
      /\ pl_waiting'[l] = r /\ \A m \in Locks : m # l => pl_waiting'[m] = pl_waiting[m]
      /\ victim'[t] = w /\ \A u \in Trx : u # t => victim'[u] = victim[u]
      /\ \A u \in Trx, m \in Locks : Waits(u, m)' <=> Waits(u, m) /\ u # w
      /\ WaitsCounted' /\ VictimsApart'
  <2> USE DEF IInv
  <2>1. latch[l] = t /\ lt_status[t] = "CLOSING" /\ victim[t] = NoTrx
    BY Zenon DEF Releasing, Control
  <2>2. \A u \in Trx : u # t /\ phase[u] \in {"release", "signal"} => cur[u] # l
    BY <2>1 DEF Releasing
  <2>3. /\ pl_waiting'[l] = r /\ \A m \in Locks : m # l => pl_waiting'[m] = pl_waiting[m]
        /\ victim'[t] = w /\ \A u \in Trx : u # t => victim'[u] = victim[u]
    BY ZenonT(60) DEF TypeOK
  <2>4. Waits(w, l) /\ pc[w] = "wait" /\ \A m \in Locks : m # l => ~Waits(w, m)
    <3>1. Waits(w, l)
      BY Zenon DEF Waits
    <3>2. QED
      BY Zenon, <3>1 DEF WaitsCounted
  <2>5. w # NoTrx /\ \A u \in Trx : victim[u] # w
    <3>1. NoTrx \notin Trx
      BY Zenon, NamesDiffer
    <3>2. \A u \in Trx : victim[u] # NoTrx => ~Waits(victim[u], l)
      BY Zenon DEF VictimsApart
    <3>3. ASSUME NEW u \in Trx, victim[u] = w PROVE FALSE
      <4>1. victim[u] # NoTrx
        BY Zenon, <3>1, <3>3
      <4>2. ~Waits(victim[u], l)
        BY ONLY Zenon, u \in Trx, <3>2, <4>1
      <4>3. QED
        BY ONLY Zenon, <2>4, <3>3, <4>2
    <3>4. QED
      BY Zenon, <3>1, <3>3
  <2>6. \A u \in Trx, m \in Locks : Waits(u, m)' <=> Waits(u, m) /\ u # w
    BY <2>3, <2>4 DEF Waits
  <2>7. WaitsCounted'
    <3>1. \A m \in Locks : Distinct(pl_waiting'[m])
      <4>1. Distinct(r) /\ \A m \in Locks : Distinct(pl_waiting[m])
        BY ZenonT(30) DEF WaitsCounted
      <4>2. QED
        BY ONLY ZenonT(30), <2>3, <4>1
    <3>2. \A u \in Trx : (\E v \in Trx : victim'[v] = u)
                           <=> (\E v \in Trx : victim[v] = u) \/ u = w
      <4>1. NoTrx \notin Trx
        BY Zenon, NamesDiffer
      <4>2. QED
        BY ONLY ZenonT(30), t \in Trx, <2>1, <2>3, <4>1
    <3>3. ASSUME NEW u \in Trx
          PROVE  (\E m \in Locks : Waits(u, m)') \/ (\E v \in Trx : victim'[v] = u)
                   <=> (\E m \in Locks : Waits(u, m)) \/ (\E v \in Trx : victim[v] = u)
      BY <2>4, <2>6, <3>2
    <3>4. \A u \in Trx : pc'[u] = "wait" <=> (\E m \in Locks : Waits(u, m)')
                                             \/ (\E v \in Trx : victim'[v] = u)
      BY ZenonT(30), <3>3 DEF WaitsCounted
    <3>5. /\ \A u \in Trx : lt_lw_threads'[u] = 1 <=> pc'[u] = "wait"
          /\ \A m, n \in Locks, u \in Trx : Waits(u, m)' /\ Waits(u, n)' => m = n
      BY Zenon, <2>6 DEF WaitsCounted
    <3>6. QED
      BY ZenonT(60), <3>1, <3>4, <3>5 DEF WaitsCounted
  <2>8. VictimsApart'
    BY <2>3, <2>5, <2>6 DEF VictimsApart, TypeOK
  <2>9. QED
    BY Zenon, <2>1, <2>2, <2>3, <2>4, <2>5, <2>6, <2>7, <2>8
<1>2. phase'[t] = "signal" /\ \A u \in Trx : u # t => phase'[u] = phase[u]
  BY Zenon DEF IInv, TypeOK
<1>3. /\ Waits(w, l) /\ w \notin pl_owner[l] /\ t # NoTrx /\ w # NoTrx
      /\ \A m \in Locks : m # l => ~Waits(w, m)
  <2>1. Waits(w, l)
    BY Zenon DEF Waits
  <2>2. w \notin pl_owner[l] /\ \A m \in Locks : m # l => ~Waits(w, m)
    BY ONLY Zenon, IInv, l \in Locks, w \in Trx, <2>1 DEF IInv, QueueHasOwner, WaitsCounted
  <2>3. t # NoTrx /\ w # NoTrx
    BY ONLY Zenon, t \in Trx, w \in Trx, NamesDiffer
  <2>4. QED
    BY ONLY Zenon, <2>1, <2>2, <2>3
<1>4. TypeOK'
  BY Zenon DEF IInv, TypeOK, histVars
<1>5. QueueHasOwner'
  <2>1. UNCHANGED latch
    BY SMTT(30)
  <2>2. ASSUME NEW m \in Locks, latch[m] = NoTrx, pl_waiting'[m] # <<>>
        PROVE  pl_owner'[m] # {}
    <3>1. m # l
      BY ONLY Zenon, <2>2, <1>1, <1>3
    <3>2. pl_owner'[m] = pl_owner[m]
      BY Zenon, <3>1
    <3>3. QED
      BY ONLY Zenon, IInv, m \in Locks, <2>2, <3>1, <3>2, <1>1 DEF IInv, QueueHasOwner
  <2>3. ASSUME NEW m \in Locks, NEW u \in pl_owner'[m] PROVE ~Waits(u, m)'
    <3>1. u \in Trx /\ (u = w \/ u \in pl_owner[m])
      BY SMTT(30)
    <3>2. QED
      BY Zenon, <3>1, <1>1 DEF IInv, QueueHasOwner
  <2>4. QED
    BY ZenonT(60), <2>1, <2>2, <2>3 DEF QueueHasOwner
<1>6. WokenOwns'
  <2>1. ASSUME NEW u \in Trx, pc[u] = "woken", lt_status[u] = "PENDING",
               wanted'[u] # NoLock
        PROVE  u \in pl_owner'[wanted'[u]]
    <3>1. u # w /\ wanted'[u] = wanted[u] /\ wanted[u] \in Locks
      BY Zenon, <2>1, <1>1
    <3>2. u \in pl_owner[wanted[u]]
      BY Zenon, <2>1, <3>1 DEF IInv, WokenOwns
    <3>3. \A m \in Locks : pl_owner[m] \subseteq pl_owner'[m]
      BY Zenon
    <3>4. QED
      BY ONLY Zenon, <3>1, <3>2, <3>3
  <2>2. UNCHANGED <<pc, lt_status>>
    BY Zenon
  <2>3. QED
    BY ONLY Zenon, <2>1, <2>2 DEF WokenOwns
<1>7. Control'
  <2>1. /\ UNCHANGED <<lt_status, pc, lt_close_ack_threads, todo>> /\ phase[t] = "release"
        /\ \A u \in Trx : lt_lock[u] = {} => lt_lock'[u] = {}
    BY Zenon
  <2>2. QED
    BY ONLY ZenonT(60), IInv, <1>2, <2>1 DEF IInv, Control
<1>8. Releasing'
  <2>1. /\ UNCHANGED <<latch, cur, scan>> /\ phase[t] = "release" /\ cur[t] = l
        /\ \A j \in 1..Len(r) : j < scan[t] => r[j].lt # t
    BY Zenon
  <2>2. QED
    BY ONLY SMTT(30), IInv, <1>1, <1>2, <1>3, <2>1 DEF IInv, Releasing
<1>9. Entitled'
  <2>0. /\ \A j \in 1..Len(r) : \E k \in 1..Len(pl_waiting[l]) : r[j] = pl_waiting[l][k]
        /\ \A u \in Trx : u # w => wanted'[u] = wanted[u]
        /\ wanted' \in [Trx -> Locks \cup {NoLock}]
        /\ \A m \in Locks : pl_owner[m] \subseteq pl_owner'[m]
        /\ lt_status[w] = "PENDING" /\ wanted'[w] # NoLock => w \in pl_owner'[wanted'[w]]
    BY Zenon
  <2> HIDE DEF LetsGo
  <2>1. ASSUME NEW m \in Locks, NEW i \in 1..Len(pl_waiting'[m])
        PROVE  wanted'[pl_waiting'[m][i].lt] = IF pl_waiting'[m][i].acq THEN m ELSE NoLock
    <3>1. PICK k \in 1..Len(pl_waiting[m]) : pl_waiting'[m][i] = pl_waiting[m][k]
      <4>1. CASE m = l
        BY ONLY Zenon, i \in 1..Len(pl_waiting'[m]), <4>1, <1>1, <2>0
      <4>2. CASE m # l
        BY Zenon, <4>2, <1>1
      <4>3. QED
        BY Zenon, <4>1, <4>2
    <3>2. pl_waiting'[m][i].lt \in Trx
      BY Zenon, <3>1, QueuedAreWaiters DEF IInv
    <3>3. pl_waiting'[m][i].lt \in Queued(pl_waiting'[m])
      BY Zenon DEF Queued
    <3>4. pl_waiting'[m][i].lt # w
      <4>1. \A u \in Trx : u \in Queued(pl_waiting'[m]) => u # w
        BY ONLY Zenon, m \in Locks, <1>1 DEF Waits
      <4>2. QED
        BY ONLY Zenon, <3>2, <3>3, <4>1
    <3>5. wanted'[pl_waiting'[m][i].lt] = wanted[pl_waiting[m][k].lt]
      BY ONLY Zenon, <3>1, <3>2, <3>4, <2>0
    <3>6. wanted[pl_waiting[m][k].lt] = IF pl_waiting[m][k].acq THEN m ELSE NoLock
      BY ONLY Zenon, IInv, m \in Locks, k \in 1..Len(pl_waiting[m]) DEF IInv, Entitled
    <3>7. QED
      BY ONLY Zenon, <3>1, <3>5, <3>6
  <2>2. ASSUME NEW u \in Trx, victim'[u] # NoTrx, lt_status[victim'[u]] = "PENDING",
               wanted'[victim'[u]] # NoLock
        PROVE  victim'[u] \in pl_owner'[wanted'[victim'[u]]]
    <3>1. CASE u = t
      BY ONLY Zenon, <2>2, <3>1, <1>1, <2>0
    <3>2. CASE u # t
      <4>1. victim'[u] = victim[u] /\ victim[u] # w /\ victim[u] # NoTrx
        BY ONLY Zenon, u \in Trx, <2>2, <3>2, <1>1
      <4>2. victim[u] \in Trx
        BY ONLY Zenon, IInv, u \in Trx, <4>1 DEF IInv, TypeOK
      <4>3. wanted'[victim[u]] = wanted[victim[u]] /\ wanted[victim[u]] \in Locks
        BY ONLY Zenon, <2>2, <4>1, <4>2, <2>0
      <4>4. victim[u] \in pl_owner[wanted[victim[u]]]
        BY ONLY Zenon, IInv, u \in Trx, <2>2, <4>1, <4>3 DEF IInv, Entitled
      <4>5. QED
        BY ONLY Zenon, <4>1, <4>3, <4>4, <2>0
    <3>3. QED
      BY ONLY Zenon, <3>1, <3>2
  <2>3. UNCHANGED lt_status
    BY Zenon DEF LetsGo
  <2>4. QED
    BY ONLY Zenon, <2>1, <2>2, <2>3 DEF Entitled
<1>10. Referenced'
  <2>0. /\ UNCHANGED <<latch, todo>>
        /\ \A m \in Locks : m # l => pl_owner'[m] = pl_owner[m]
        /\ pl_owner'[l] \in {pl_owner[l], pl_owner[l] \cup {w}}
        /\ \A u \in Trx : u # w => lt_lock'[u] = lt_lock[u]
    BY Zenon
  <2>1. ASSUME NEW u \in Trx, NEW m \in Locks, u \in pl_owner'[m] \/ Waits(u, m)'
        PROVE  m \in lt_lock'[u] \cup todo[u] \/ (latch[m] = u /\ u \notin pl_owner'[m])
    <3>1. CASE u # w
      <4>0. (u \in pl_owner'[m] => u \in pl_owner[m]) /\ (Waits(u, m)' => Waits(u, m))
        <5>1. u \in pl_owner'[m] => u \in pl_owner[m]
          BY ONLY ZenonT(30), m \in Locks, <3>1, <2>0
        <5>2. Waits(u, m)' => Waits(u, m)
          BY ONLY Zenon, u \in Trx, m \in Locks, <1>1
        <5>3. QED
          BY ONLY Zenon, <5>1, <5>2
      <4>1. u \in pl_owner[m] \/ Waits(u, m)
        BY ONLY Zenon, <2>1, <4>0
      <4>2. m \in lt_lock[u] \cup todo[u] \/ (latch[m] = u /\ u \notin pl_owner[m])
        BY Zenon, <4>1 DEF IInv, Referenced
      <4>3. QED
        BY ONLY Zenon, u \in Trx, <3>1, <4>2, <4>0, <2>0
    <3>2. CASE u = w /\ m # l
      <4>1. w \in pl_owner[m]
        BY Zenon, <2>1, <3>2, <1>1
      <4>2. m \in lt_lock[w] \cup todo[w]
        BY Zenon, <4>1 DEF IInv, Referenced
      <4>3. QED
        BY Zenon, <3>2, <4>2
    <3>3. CASE u = w /\ m = l
      <4>1. w \in pl_owner'[l] /\ w # t /\ lt_lock'[w] = lt_lock[w]
        BY Zenon, <2>1, <3>3, <1>1
      <4>2. l \in lt_lock[w] \cup todo[w]
        <5>1. Waits(w, l) /\ latch[l] = t
          BY Zenon, <1>1 DEF Waits
        <5>2. QED
          BY ONLY Zenon, IInv, <4>1, <5>1, l \in Locks, w \in Trx DEF IInv, Referenced
      <4>3. QED
        BY Zenon, <3>3, <4>1, <4>2
    <3>4. QED
      BY ZenonT(30), <3>1, <3>2, <3>3
  <2>2. UNCHANGED <<latch, todo>>
    BY Zenon
  <2>3. QED
    BY ONLY Zenon, <2>1, <2>2 DEF Referenced
<1>11. QED
  BY Zenon, <1>1, <1>4, <1>5, <1>6, <1>7, <1>8, <1>9, <1>10 DEF IInv

(* The scan of lock_release dequeues a dead waiter. *)
LEMMA ScanDeadIInv ==
  ASSUME IInv, NEW t \in Trx, ScanDead(t)
  PROVE  IInv'
<1> DEFINE l == cur[t]
           q == pl_waiting[l]
           i == scan[t]
           w == q[i].lt
           r == TakeOut(q, i)
<1> USE DEF IInv, ScanDead, histVars
<1>1. /\ l \in Locks /\ q \in Seq(Waiter) /\ Distinct(q) /\ i \in 1..Len(q)
      /\ lt_status[t] = "CLOSING" /\ Len(q) \in Nat
  <2>1. /\ l \in Locks /\ i \in Nat \ {0} /\ lt_status[t] = "CLOSING"
        /\ i <= Len(q)
    BY ZenonT(60) DEF Releasing, Control
  <2>2. q \in Seq(Waiter) /\ Len(q) \in Nat /\ Distinct(q)
    BY SMTT(15), ZenonT(40), <2>1 DEF TypeOK, WaitsCounted
  <2> HIDE DEF q, i, l
  <2>3. QED
    BY ONLY <2>1, <2>2
<1>2. w \in Trx /\ w \in Queued(q)
  BY Zenon, <1>1, QueuedAreWaiters DEF Queued
<1>3. /\ r \in Seq(Waiter) /\ Queued(r) = Queued(q) \ {w} /\ Distinct(r)
      /\ \A j \in 1..Len(r) : r[j] = q[IF j < i THEN j ELSE j + 1]
      /\ Len(r) = Len(q) - 1
  BY Zenon, <1>1, DequeueFacts, TakeOutFacts
<1>4. \A j \in 1..Len(r) : /\ \E k \in 1..Len(q) : r[j] = q[k]
                           /\ j < i => r[j].lt # t
  <2>1. ASSUME NEW j \in 1..Len(r)
        PROVE  /\ \E k \in 1..Len(q) : r[j] = q[k]
               /\ j < i => r[j].lt # t
    <3>1. j \in 1..Len(q) /\ j + 1 \in 1..Len(q)
      <4>1. j \in 1..(Len(q) - 1) /\ Len(q) \in Nat
        BY Zenon, <1>1, <1>3
      <4> HIDE DEF q
      <4>2. QED
        BY ONLY <4>1
    <3>2. j < i => q[j].lt # t
      BY Zenon, <3>1 DEF Releasing
    <3>3. QED
      BY Zenon, <3>1, <3>2, <1>3
  <2>2. QED
    BY Zenon, <2>1
<1>5. UNCHANGED <<pl_type, pl_owner, wanted, lt_waits_for, lt_waiting_for_this>>
  BY ZenonT(30) DEF waitVars
<1>6. LockCompatible' /\ WaitEdgesMatch' /\ WaitGraphAcyclic' /\ ClosingHasNoEdges'
  BY ZenonT(60), <1>5, EdgesFrame DEF LockCompatible, ClosingHasNoEdges, waitVars
<1>7. /\ lt_lock' \in [Trx -> SUBSET Locks]
      /\ \A u \in Trx : u # w => lt_lock'[u] = lt_lock[u]
      /\ lt_lock'[w] \in {lt_lock[w], lt_lock[w] \ {l}}
  <2>1. lt_lock' = lt_lock \/ lt_lock' = [lt_lock EXCEPT ![w] = @ \ {l}]
    BY Zenon DEF lt_clear_pl_wait_ref
  <2>2. lt_lock \in [Trx -> SUBSET Locks]
    BY Zenon DEF TypeOK
  <2> HIDE DEF w, l
  <2>3. QED
    BY ONLY Zenon, <1>2, <2>1, <2>2
<1>8. w \notin pl_owner[l]
  BY Zenon, <1>1, <1>2 DEF QueueHasOwner, Waits
<1>9. lt_status[w] # "PENDING"
  BY Zenon, <1>1
<1>10. LetsGo(t, l, w, r)
  BY Zenon, <1>2, <1>3, <1>4, <1>5, <1>6, <1>7, <1>8, <1>9 DEF LetsGo, TypeOK
<1>11. QED
  BY Zenon, <1>1, <1>2, <1>10, LetsGoIInv

(* lock_release gives the lock to the head of the queue. *)
LEMMA GrantOwnerIInv ==
  ASSUME IInv, NEW t \in Trx, GrantOwner(t)
  PROVE  IInv'
<1> DEFINE l == cur[t]
           q == pl_waiting[l]
           w == Head(q).lt
           r == Tail(q)
<1>1. /\ l \in Locks /\ phase[t] = "release"
      /\ q \in Seq(Waiter) /\ Head(q) \in Waiter /\ w \in Trx /\ w # t
      /\ w \in Queued(q)
      /\ r \in Seq(Waiter) /\ Queued(r) = Queued(q) \ {w} /\ Distinct(r)
      /\ \A j \in 1..Len(r) : /\ \E k \in 1..Len(q) : r[j] = q[k]
                              /\ j < scan[t] => r[j].lt # t
      /\ w \notin pl_owner[l]
      /\ wanted[w] = l
  BY Zenon, GrantingFacts DEF GrantOwner
<1>2. MayOwn(l, w, Head(q).mode, TRUE) /\ Head(q).mode \in Mode
  BY Zenon, <1>1 DEF GrantOwner, MayGo, Waiter
<1>3. /\ pl_type' = [pl_type EXCEPT ![l] = TypeOwned(l, w, Head(q).mode)]
      /\ pl_owner' = [pl_owner EXCEPT ![l] = @ \cup {w}]
  BY Zenon DEF GrantOwner
<1>4. LockCompatible'
  BY Zenon, <1>1, <1>2, <1>3, OwnKeepsCompatible DEF IInv
<1>5. UNCHANGED <<lt_lock, wanted, lt_waits_for, lt_waiting_for_this, lt_status>>
  BY Zenon DEF GrantOwner, waitVars
<1>6. WaitEdgesMatch' /\ WaitGraphAcyclic' /\ ClosingHasNoEdges'
  BY Zenon, <1>5, EdgesFrame DEF IInv, ClosingHasNoEdges, waitVars
<1>7. /\ pl_type' \in [Locks -> Mode \cup {"FREE"}]
      /\ pl_owner' \in [Locks -> SUBSET Trx]
      /\ pl_owner'[l] = pl_owner[l] \cup {w}
      /\ \A m \in Locks : m # l => pl_owner'[m] = pl_owner[m]
  BY Zenon, <1>1, <1>2, <1>3 DEF IInv, TypeOK, TypeOwned
<1>8. /\ lt_lock' \in [Trx -> SUBSET Locks]
      /\ wanted' \in [Trx -> Locks \cup {NoLock}]
      /\ lt_waits_for' \in [Trx -> SUBSET Trx]
      /\ lt_waiting_for_this' \in [Trx -> SUBSET Trx]
  BY Zenon, <1>5 DEF IInv, TypeOK
<1>9. /\ pl_waiting' = [pl_waiting EXCEPT ![l] = r]
      /\ victim' = [victim EXCEPT ![t] = w]
      /\ phase' = [phase EXCEPT ![t] = "signal"]
      /\ UNCHANGED <<latch, lt_lw_threads, pc, lt_status, lt_close_ack_threads, todo, cur,
                     scan, killer, histVars>>
  BY Zenon DEF GrantOwner, histVars
<1>10. LetsGo(t, l, w, r)
  <2>1. cur[t] = l
    BY Zenon
  <2> HIDE DEF l, w, r
  <2>2. QED
    BY ONLY Zenon, <2>1, <1>1, <1>4, <1>5, <1>6, <1>7, <1>8, <1>9 DEF LetsGo, q
<1>11. QED
  BY Zenon, <1>1, <1>10, LetsGoIInv

(* lock_release lets the head of the queue pass. *)
LEMMA GrantPassIInv ==
  ASSUME IInv, NEW t \in Trx, GrantPass(t)
  PROVE  IInv'
<1> DEFINE l == cur[t]
           q == pl_waiting[l]
           w == Head(q).lt
           r == Tail(q)
<1>1. /\ l \in Locks /\ phase[t] = "release"
      /\ q \in Seq(Waiter) /\ Head(q) \in Waiter /\ w \in Trx /\ w # t
      /\ w \in Queued(q)
      /\ r \in Seq(Waiter) /\ Queued(r) = Queued(q) \ {w} /\ Distinct(r)
      /\ \A j \in 1..Len(r) : /\ \E k \in 1..Len(q) : r[j] = q[k]
                              /\ j < scan[t] => r[j].lt # t
      /\ w \notin pl_owner[l]
  BY Zenon, GrantingFacts DEF GrantPass
<1>2. Dropped(q) \in SUBSET Trx
  <2>1. \A j \in 1..Len(r) : r[j].lt \in Trx
    <3>1. r \in Seq(Waiter)
      BY Zenon, <1>1
    <3> HIDE DEF r
    <3>2. \A j \in 1..Len(r) : r[j] \in Waiter
      BY ONLY <3>1
    <3>3. QED
      BY Zenon, <3>2 DEF Waiter
  <2>2. QED
    BY Zenon, <2>1 DEF Dropped
<1>3. /\ lt_drop_wait(w, Dropped(q)) /\ lt_clear_pl_wait_ref(w, l)
      /\ wanted' = [wanted EXCEPT ![w] = NoLock]
      /\ UNCHANGED <<pl_type, pl_owner, lt_status>>
  BY Zenon DEF GrantPass
<1>4. LockCompatible'
  BY Zenon, <1>3 DEF IInv, LockCompatible
<1>5. /\ lt_waits_for' \in [Trx -> SUBSET Trx]
      /\ lt_waiting_for_this' \in [Trx -> SUBSET Trx]
      /\ WaitEdgesMatch' /\ WaitGraphAcyclic' /\ ClosingHasNoEdges'
  BY Zenon, <1>1, <1>2, <1>3, DropWaitFacts DEF IInv
<1>6. /\ pl_type' \in [Locks -> Mode \cup {"FREE"}]
      /\ pl_owner' \in [Locks -> SUBSET Trx]
      /\ wanted' \in [Trx -> Locks \cup {NoLock}]
      /\ wanted'[w] = NoLock /\ \A u \in Trx : u # w => wanted'[u] = wanted[u]
  BY Zenon, <1>1, <1>3 DEF IInv, TypeOK
<1>7. /\ lt_lock' \in [Trx -> SUBSET Locks]
      /\ \A u \in Trx : u # w => lt_lock'[u] = lt_lock[u]
      /\ lt_lock'[w] \in {lt_lock[w], lt_lock[w] \ {l}}
  <2>1. lt_lock' = lt_lock \/ lt_lock' = [lt_lock EXCEPT ![w] = @ \ {l}]
    BY Zenon, <1>3 DEF lt_clear_pl_wait_ref
  <2>2. lt_lock \in [Trx -> SUBSET Locks]
    BY Zenon DEF IInv, TypeOK
  <2> HIDE DEF w, l
  <2>3. QED
    BY ONLY Zenon, <1>1, <2>1, <2>2
<1>8. /\ pl_waiting' = [pl_waiting EXCEPT ![l] = r]
      /\ victim' = [victim EXCEPT ![t] = w]
      /\ phase' = [phase EXCEPT ![t] = "signal"]
      /\ UNCHANGED <<latch, lt_lw_threads, pc, lt_status, lt_close_ack_threads, todo, cur,
                     scan, killer, histVars>>
  BY Zenon DEF GrantPass, histVars
<1>9. LetsGo(t, l, w, r)
  <2>1. cur[t] = l
    BY Zenon
  <2> HIDE DEF l, w, r
  <2>2. QED
    BY ONLY Zenon, <2>1, <1>1, <1>3, <1>4, <1>5, <1>6, <1>7, <1>8 DEF LetsGo, q
<1>10. QED
  BY Zenon, <1>1, <1>9, LetsGoIInv

-----------------------------------------------------------------------------
(* lock_wait *)


(* lock_check_deadlock_1 never returns a transaction that is closing or at *)
(* its end as one to wait for.                                             *)
LEMMA PredecessorsFacts ==
  ASSUME IInv, NEW l \in Locks, NEW mode \in Mode, latch[l] = NoTrx
  PROVE  /\ Predecessors(l, mode) \in SUBSET Trx
         /\ \A u \in Predecessors(l, mode) :
              lt_status[u] \notin {"CLOSING", "DELTA_ROLLED_BACK"}
<1> DEFINE live == {pl_waiting[l][i].lt : i \in LiveQueue(l)}
<1>1. Predecessors(l, mode) \subseteq LiveOwners(l) \cup live
  BY Zenon DEF Predecessors, Mode
<1>2. ASSUME NEW u \in live
      PROVE  u \in Trx /\ lt_status[u] \notin {"CLOSING", "DELTA_ROLLED_BACK"}
  <2>1. PICK i \in 1..Len(pl_waiting[l]) :
          u = pl_waiting[l][i].lt /\ lt_status[pl_waiting[l][i].lt] # "CLOSING"
    BY Zenon DEF LiveQueue
  <2>2. u \in Trx /\ Waits(u, l)
    BY Zenon, <2>1, QueuedAreWaiters DEF IInv, Waits, Queued
  <2>3. pc[u] = "wait"
    BY Zenon, <2>2 DEF IInv, WaitsCounted
  <2>4. QED
    BY Zenon, <2>1, <2>2, <2>3 DEF IInv, Control
<1>3. ASSUME NEW u \in LiveOwners(l)
      PROVE  u \in Trx /\ lt_status[u] \notin {"CLOSING", "DELTA_ROLLED_BACK"}
  <2>1. u \in pl_owner[l] /\ u \in Trx /\ lt_status[u] # "CLOSING"
    BY Zenon DEF LiveOwners, IInv, TypeOK
  <2>2. l \in lt_lock[u] \cup todo[u]
    BY Zenon, <2>1 DEF IInv, Referenced
  <2>3. phase[u] = "none"
    BY Zenon, <2>1 DEF IInv, Control, TypeOK
  <2>4. l \in lt_lock[u]
    BY Zenon, <2>1, <2>2, <2>3 DEF IInv, Control
  <2>5. QED
    BY Zenon, <2>1, <2>4 DEF IInv, Control
<1>4. QED
  BY Zenon, <1>1, <1>2, <1>3

(* lock_wait that queues the cursor. *)
LEMMA lock_waitIInv ==
  ASSUME IInv, NEW t \in Trx, NEW l \in Locks, NEW mode \in Mode, NEW acq \in BOOLEAN,
         lock_wait(t, l, mode, acq)
  PROVE  IInv'
<1> DEFINE w == [lt |-> t, mode |-> mode, acq |-> acq]
           q == pl_waiting[l]
           r == Append(q, w)
           P == Predecessors(l, mode)
<1>1. /\ pc[t] = "run" /\ latch[l] = NoTrx /\ lt_status[t] = "PENDING"
      /\ t \notin pl_owner[l] /\ pl_type[l] # "FREE"
      /\ \A u \in P : t \notin WaitReach(u)
  BY Zenon DEF lock_wait, MustWait, WaitRefused, lt_is_deadlock_1, MayOwn, lock_is_acquirable
<1>2. (\A m \in Locks : ~Waits(t, m)) /\ (\A u \in Trx : victim[u] # t)
  BY Zenon, <1>1, OnlyWaitersQueue DEF IInv
<1>3. /\ r \in Seq(Waiter) /\ r # <<>> /\ Queued(r) = Queued(q) \cup {t} /\ Distinct(r)
      /\ \A j \in 1..Len(r) : \/ j \in 1..Len(q) /\ r[j] = q[j]
                              \/ r[j] = w
  <2>1. w \in Waiter /\ w.lt = t /\ q \in Seq(Waiter) /\ Distinct(q) /\ w.lt \notin Queued(q)
    BY Zenon, <1>2 DEF Waiter, IInv, TypeOK, WaitsCounted, Waits
  <2> HIDE DEF w, q
  <2>2. QED
    BY ONLY Zenon, <2>1, EnqueueFacts
<1>4. /\ P \in SUBSET Trx
      /\ \A u \in P : lt_status[u] \notin {"CLOSING", "DELTA_ROLLED_BACK"}
  BY Zenon, <1>1, PredecessorsFacts
<1>5. /\ lt_waits_for' \in [Trx -> SUBSET Trx]
      /\ lt_waiting_for_this' \in [Trx -> SUBSET Trx]
      /\ WaitEdgesMatch' /\ WaitGraphAcyclic'
  <2>1. WaitEdges(P, t)
    BY Zenon DEF lock_wait
  <2> HIDE DEF P
  <2>2. QED
    BY Zenon, <2>1, <1>1, <1>4, WaitEdgesFacts DEF IInv
<1>6. UNCHANGED <<pl_type, pl_owner, latch, lt_status, lt_close_ack_threads, phase, todo,
                  cur, scan, victim, killer, restarts>>
  BY Zenon DEF lock_wait, txVars
<1>7. /\ pl_waiting' = [pl_waiting EXCEPT ![l] = r]
      /\ lt_lw_threads' = [lt_lw_threads EXCEPT ![t] = @ + 1]
      /\ lt_lock' = [lt_lock EXCEPT ![t] = @ \cup {l}]
      /\ pc' = [pc EXCEPT ![t] = "wait"]
      /\ wanted' = [wanted EXCEPT ![t] = IF acq THEN l ELSE NoLock]
      /\ unlinked' \in {unlinked, unlinked \cup {l}}
  BY Zenon DEF lock_wait
<1>8. ClosingHasNoEdges'
  <2>1. \A u \in Trx : u # t /\ u \notin P => /\ lt_waits_for'[u] = lt_waits_for[u]
                                              /\ lt_waiting_for_this'[u] = lt_waiting_for_this[u]
    BY Zenon DEF lock_wait, WaitEdges, IInv, TypeOK
  <2> HIDE DEF P
  <2>2. QED
    BY Zenon, <2>1, <1>1, <1>4, <1>6 DEF IInv, ClosingHasNoEdges
<1> HIDE DEF w, q, r, P
<1>9. /\ pl_waiting'[l] = r /\ \A m \in Locks : m # l => pl_waiting'[m] = pl_waiting[m]
      /\ pc'[t] = "wait" /\ \A u \in Trx : u # t => pc'[u] = pc[u]
      /\ lt_lw_threads'[t] = 1 /\ \A u \in Trx : u # t => lt_lw_threads'[u] = lt_lw_threads[u]
      /\ lt_lock'[t] = lt_lock[t] \cup {l} /\ \A u \in Trx : u # t => lt_lock'[u] = lt_lock[u]
      /\ wanted'[t] = (IF acq THEN l ELSE NoLock)
      /\ \A u \in Trx : u # t => wanted'[u] = wanted[u]
  <2>1. lt_lw_threads[t] \in 0..1 /\ lt_lw_threads[t] # 1
    BY Zenon, <1>1 DEF IInv, TypeOK, WaitsCounted
  <2>2. lt_lw_threads[t] = 0
    BY <2>1
  <2>3. QED
    BY <2>2, <1>7 DEF IInv, TypeOK
<1>10. TypeOK'
  <2>1. lt_lw_threads' \in [Trx -> 0..1]
    BY <1>7, <1>9 DEF IInv, TypeOK
  <2>2. pl_waiting' \in [Locks -> Seq(Waiter)]
    BY Zenon, <1>3, <1>7 DEF IInv, TypeOK
  <2>3. /\ lt_lock' \in [Trx -> SUBSET Locks]
        /\ wanted' \in [Trx -> Locks \cup {NoLock}]
        /\ unlinked' \subseteq Locks
    BY Zenon, <1>7 DEF IInv, TypeOK
  <2>4. QED
    BY ZenonT(60), <2>1, <2>2, <2>3, <1>5, <1>6, <1>7 DEF IInv, TypeOK
<1>11. \A u \in Trx, m \in Locks : Waits(u, m)' <=> Waits(u, m) \/ (u = t /\ m = l)
  BY ONLY Zenon, l \in Locks, <1>3, <1>9 DEF Waits, q
<1>12. LockCompatible'
  BY Zenon, <1>6 DEF IInv, LockCompatible
<1>13. WaitsCounted'
  <2>1. \A m \in Locks : Distinct(pl_waiting'[m])
    BY Zenon, <1>3, <1>9 DEF IInv, WaitsCounted
  <2>2. UNCHANGED victim
    BY Zenon, <1>6
  <2>3. WaitsCounted
    BY Zenon DEF IInv
  <2>4. /\ \A u \in Trx : lt_lw_threads'[u] = 1 <=> pc'[u] = "wait"
        /\ \A k, m \in Locks, u \in Trx : Waits(u, k)' /\ Waits(u, m)' => k = m
    BY ONLY ZenonT(60), <2>3, <1>2, <1>9, <1>11 DEF WaitsCounted
  <2>5. ASSUME NEW u \in Trx
        PROVE  pc'[u] = "wait" <=> \/ \E m \in Locks : Waits(u, m)'
                                   \/ \E v \in Trx : victim'[v] = u
    <3>1. CASE u = t
      BY ONLY Zenon, t \in Trx, l \in Locks, <3>1, <1>9, <1>11
    <3>2. CASE u # t
      <4>1. /\ \A m \in Locks : Waits(u, m)' <=> Waits(u, m)
            /\ pc'[u] = pc[u]
        BY ONLY Zenon, u \in Trx, <3>2, <1>9, <1>11
      <4>2. QED
        BY ONLY Zenon, u \in Trx, <4>1, <2>2, <2>3 DEF WaitsCounted
    <3>3. QED
      BY ONLY Zenon, <3>1, <3>2
  <2>6. QED
    BY ONLY Zenon, <2>1, <2>4, <2>5 DEF WaitsCounted
<1>14. QueueHasOwner'
  <2>1. pl_owner[l] # {}
    BY Zenon, <1>1 DEF IInv, LockCompatible
  <2>2. \A m \in Locks : pl_owner[m] \subseteq Trx
    BY Zenon DEF IInv, TypeOK
  <2>3. QED
    BY ONLY ZenonT(60), IInv, l \in Locks, <2>1, <2>2, <1>1, <1>6, <1>9, <1>11 DEF IInv, QueueHasOwner
<1>15. WokenOwns'
  BY Zenon, <1>6, <1>9 DEF IInv, WokenOwns
<1>16. Control'
  BY ONLY Zenon, IInv, <1>1, <1>6, <1>9 DEF IInv, Control
<1>17. Releasing'
  <2>1. \A u \in Trx : phase[u] \in {"release", "signal"} => cur[u] # l
    <3>1. Releasing
      BY Zenon DEF IInv
    <3>2. QED
      <4>1. ASSUME NEW u \in Trx, phase[u] \in {"release", "signal"}, cur[u] = l PROVE FALSE
        <5>1. latch[cur[u]] = u
          BY ONLY Zenon, u \in Trx, <4>1, <3>1 DEF Releasing
        <5>2. QED
          BY ONLY Zenon, u \in Trx, <5>1, <4>1, <1>1, NamesDiffer
      <4>2. QED
        BY ONLY Zenon, <4>1
  <2>2. \A u \in Trx : phase[u] \in {"release", "signal"} =>
          pl_waiting'[cur[u]] = pl_waiting[cur[u]]
    BY ONLY Zenon, IInv, <2>1, <1>9 DEF IInv, Releasing
  <2>3. Releasing
    BY Zenon DEF IInv
  <2>4. ASSUME NEW u \in Trx, phase[u] \in {"release", "signal"},
               NEW i \in 1..Len(pl_waiting'[cur[u]]), i < scan[u]
        PROVE  pl_waiting'[cur[u]][i].lt # u
    <3>1. pl_waiting'[cur[u]] = pl_waiting[cur[u]]
      BY ONLY Zenon, u \in Trx, <2>2, <2>4
    <3>2. i \in 1..Len(pl_waiting[cur[u]])
      BY ONLY Zenon, i \in 1..Len(pl_waiting'[cur[u]]), <3>1
    <3>3. pl_waiting[cur[u]][i].lt # u
      BY ONLY Zenon, u \in Trx, <3>2, <2>3, <2>4 DEF Releasing
    <3>4. QED
      BY ONLY Zenon, <3>1, <3>3
  <2>5. QED
    BY ONLY ZenonT(30), <2>3, <2>4, <1>6 DEF Releasing
<1>18. VictimsApart'
  <2>1. \A u \in Trx : victim[u] \in Trx \cup {NoTrx}
    BY Zenon DEF IInv, TypeOK
  <2>2. QED
    BY ONLY Zenon, IInv, <2>1, <1>2, <1>6, <1>11 DEF IInv, VictimsApart
<1>19. Entitled'
  <2>1. ASSUME NEW m \in Locks, NEW i \in 1..Len(pl_waiting[m])
        PROVE  wanted'[pl_waiting[m][i].lt] = IF pl_waiting[m][i].acq THEN m ELSE NoLock
    <3>1. pl_waiting[m][i].lt \in Trx /\ Waits(pl_waiting[m][i].lt, m)
      BY Zenon, QueuedAreWaiters DEF IInv, Waits, Queued
    <3>2. pl_waiting[m][i].lt # t
      BY Zenon, <3>1, <1>2
    <3>3. QED
      BY ONLY ZenonT(60), IInv, m \in Locks, i \in 1..Len(pl_waiting[m]), <3>1, <3>2, <1>9
         DEF IInv, Entitled
  <2>2. ASSUME NEW m \in Locks, NEW i \in 1..Len(pl_waiting'[m])
        PROVE  wanted'[pl_waiting'[m][i].lt] = IF pl_waiting'[m][i].acq THEN m ELSE NoLock
    <3>1. CASE m # l
      <4>1. pl_waiting'[m] = pl_waiting[m]
        BY ONLY Zenon, m \in Locks, <3>1, <1>9
      <4>2. QED
        BY ONLY m \in Locks, i \in 1..Len(pl_waiting'[m]), <4>1, <2>1
    <3>2. CASE m = l
      <4>1. pl_waiting'[m][i] = w \/ \E k \in 1..Len(q) : pl_waiting'[m][i] = q[k]
        BY Zenon, <3>2, <1>3, <1>9
      <4>2. CASE pl_waiting'[m][i] = w
        BY ONLY <4>2, <3>2, <1>9 DEF w
      <4>3. CASE \E k \in 1..Len(q) : pl_waiting'[m][i] = q[k]
        BY ONLY l \in Locks, <4>3, <3>2, <2>1 DEF q
      <4>4. QED
        BY Zenon, <4>1, <4>2, <4>3
    <3>3. QED
      BY Zenon, <3>1, <3>2
  <2>3. ASSUME NEW u \in Trx, victim[u] # NoTrx
        PROVE  wanted'[victim[u]] = wanted[victim[u]]
    BY Zenon, <2>3, <1>2, <1>9 DEF IInv, TypeOK
  <2>4. QED
    BY ONLY Zenon, IInv, <2>2, <2>3, <1>6 DEF IInv, Entitled
<1>20. Referenced'
  <2>1. ASSUME NEW u \in Trx, NEW m \in Locks, u \in pl_owner'[m] \/ Waits(u, m)'
        PROVE  m \in lt_lock'[u] \cup todo[u] \/ (latch[m] = u /\ u \notin pl_owner'[m])
    <3>1. CASE u = t /\ m = l
      BY ONLY Zenon, <3>1, <1>9
    <3>2. CASE ~(u = t /\ m = l)
      <4>1. u \in pl_owner[m] \/ Waits(u, m)
        BY ONLY Zenon, u \in Trx, m \in Locks, <2>1, <3>2, <1>6, <1>11
      <4>2. m \in lt_lock[u] \cup todo[u] \/ (latch[m] = u /\ u \notin pl_owner[m])
        BY ONLY Zenon, IInv, u \in Trx, m \in Locks, <4>1 DEF IInv, Referenced
      <4>3. lt_lock[u] \subseteq lt_lock'[u]
        BY ONLY Zenon, u \in Trx, <1>9
      <4>4. QED
        BY ONLY Zenon, <4>2, <4>3, <1>6
    <3>3. QED
      BY ONLY Zenon, <3>1, <3>2
  <2>2. QED
    BY ONLY Zenon, <2>1, <1>6 DEF Referenced
<1>21. QED
  BY Zenon, <1>5, <1>8, <1>10, <1>12, <1>13, <1>14, <1>15, <1>16, <1>17, <1>18, <1>19, <1>20
     DEF IInv

(* A step that changes nothing. *)
LEMMA StutterIInv ==
  ASSUME IInv, UNCHANGED vars
  PROVE  IInv'
<1> USE DEF vars
<1>1. \A u, m : Waits(u, m)' <=> Waits(u, m)
  BY Zenon DEF Waits
<1>2. WaitEdgesMatch' /\ WaitGraphAcyclic'
  BY Zenon, EdgesFrame DEF waitVars
<1>3. TypeOK' /\ LockCompatible' /\ ClosingHasNoEdges' /\ WokenOwns'
  <2>1. TypeOK'
    BY Zenon DEF IInv, TypeOK
  <2>2. LockCompatible' /\ ClosingHasNoEdges'
    BY Zenon DEF IInv, LockCompatible, ClosingHasNoEdges
  <2>3. WokenOwns'
    BY Zenon DEF IInv, WokenOwns
  <2>4. QED
    BY Zenon, <2>1, <2>2, <2>3
<1>4. WaitsCounted' /\ QueueHasOwner' /\ VictimsApart' /\ Referenced'
  BY Zenon, <1>1 DEF IInv, WaitsCounted, QueueHasOwner, VictimsApart, Referenced
<1>5. Control'
  BY Zenon DEF IInv, Control
<1>6. Releasing'
  BY Zenon DEF IInv, Releasing
<1>7. Entitled'
  BY Zenon DEF IInv, Entitled
<1>8. QED
  BY Zenon, <1>2, <1>3, <1>4, <1>5, <1>6, <1>7 DEF IInv

(* Every step keeps the invariant. *)
LEMMA NextIInv == IInv /\ [Next]_vars => IInv'
<1> SUFFICES ASSUME IInv, [Next]_vars PROVE IInv'
  BY Zenon
<1>1. CASE UNCHANGED vars
  BY Zenon, <1>1, StutterIInv
<1>2. ASSUME NEW t \in Trx, Thread(t) PROVE IInv'
  <2>1. ASSUME NEW l \in Locks, NEW mode \in Mode, TakeLock(t, l, mode) PROVE IInv'
    BY Zenon, <2>1, TakeLockIInv
  <2>2. ASSUME NEW l \in Locks, NEW mode \in Mode, NEW acq \in BOOLEAN,
               lock_wait_bust(t, l, mode, acq)
        PROVE  IInv'
    BY Zenon, <2>2, lock_wait_bustIInv
  <2>3. ASSUME NEW l \in Locks, NEW mode \in Mode, NEW acq \in BOOLEAN,
               lock_wait(t, l, mode, acq)
        PROVE  IInv'
    BY Zenon, <2>3, lock_waitIInv
  <2>4. CASE WaitOver(t)
    BY Zenon, <2>4, WaitOverIInv
  <2>5. CASE BustRollsBack(t)
    BY Zenon, <2>5, BustRollsBackIInv
  <2>6. CASE BustAcknowledges(t)
    BY Zenon, <2>6, BustAcknowledgesIInv
  <2>7. CASE lt_commit(t)
    BY Zenon, <2>7, lt_commitIInv
  <2>8. CASE lt_rollback(t)
    BY Zenon, <2>8, lt_rollbackIInv
  <2>9. CASE AfterLog(t)
    BY Zenon, <2>9, AfterLogIInv
  <2>10. CASE lt_restart(t)
    BY Zenon, <2>10, lt_restartIInv
  <2>11. QED
    BY Zenon, <1>2, <2>1, <2>2, <2>3, <2>4, <2>5, <2>6, <2>7, <2>8, <2>9, <2>10 DEF Thread
<1>3. ASSUME NEW t \in Trx, Transact(t) PROVE IInv'
  <2>1. CASE lt_locks_to_array(t)
    BY Zenon, <2>1, lt_locks_to_arrayIInv
  <2>2. ASSUME NEW l \in Locks, lock_release(t, l) PROVE IInv'
    BY Zenon, <2>2, lock_releaseIInv
  <2>3. CASE ScanDead(t)
    BY Zenon, <2>3, ScanDeadIInv
  <2>4. CASE ScanLive(t)
    BY Zenon, <2>4, ScanLiveIInv
  <2>5. CASE Signal(t)
    BY Zenon, <2>5, SignalIInv
  <2>6. CASE GrantOwner(t)
    BY Zenon, <2>6, GrantOwnerIInv
  <2>7. CASE GrantPass(t)
    BY Zenon, <2>7, GrantPassIInv
  <2>8. CASE ReleaseDone(t)
    BY Zenon, <2>8, ReleaseDoneIInv
  <2>9. CASE lt_transact_end(t)
    BY Zenon, <2>9, lt_transact_endIInv
  <2>10. QED
    BY Zenon, <1>3, <2>1, <2>2, <2>3, <2>4, <2>5, <2>6, <2>7, <2>8, <2>9 DEF Transact
<1>4. ASSUME NEW t \in Trx, KillRunning(t) PROVE IInv'
  BY Zenon, <1>4, KillRunningIInv
<1>5. ASSUME NEW t \in Trx, KillWaiting(t) PROVE IInv'
  BY Zenon, <1>5, KillWaitingIInv
<1>6. QED
  BY Zenon, <1>1, <1>2, <1>3, <1>4, <1>5 DEF Next

(* IInv is an invariant. *)
LEMMA SpecIInv == Spec => []IInv
BY InitIInv, NextIInv, PTL DEF Spec

(* Locks: an exclusive lock has one owner and a free one none, nobody is   *)
(* queued on a free lock between releases, and a transaction finds every   *)
(* lock it owns or waits for.                                              *)
THEOREM LocksCorrect ==
  Spec => [](TypeOK /\ LockCompatible /\ QueueHasOwner /\ LocksReferenced)
<1>1. IInv => TypeOK /\ LockCompatible /\ QueueHasOwner /\ LocksReferenced
  BY Zenon, NamesDiffer DEF IInv, Referenced, LocksReferenced
<1>2. QED
  BY <1>1, SpecIInv, PTL

(* Wait edges: the two sides of the graph agree, transactions that end are *)
(* not in it, and it has no cycle, so that lt_is_deadlock_1 returns.       *)
THEOREM WaitGraphCorrect ==
  Spec => [](WaitEdgesMatch /\ ClosingHasNoEdges /\ WaitGraphAcyclic)
<1>1. IInv => WaitEdgesMatch /\ ClosingHasNoEdges /\ WaitGraphAcyclic
  BY Zenon DEF IInv
<1>2. QED
  BY <1>1, SpecIInv, PTL

(* Waits: lt_lw_threads counts the threads that wait, each of which is in  *)
(* one queue or about to be signalled once.                                *)
THEOREM WaitsCountedCorrect == Spec => []WaitsCounted
<1>1. IInv => WaitsCounted
  BY Zenon DEF IInv
<1>2. QED
  BY <1>1, SpecIInv, PTL

(* Grants: an acquiring waiter that comes back pending owns the lock.      *)
THEOREM WokenOwnsCorrect == Spec => []WokenOwns
<1>1. IInv => WokenOwns
  BY Zenon DEF IInv
<1>2. QED
  BY <1>1, SpecIInv, PTL

(* lock_release leaves no queue behind on a free lock, whichever waiters   *)
(* it let go.                                                              *)
THEOREM QueueHasOwnerCorrect == Spec => []QueueHasOwner
BY LocksCorrect, PTL

(* No lock outlives the transaction that owns or awaits it.                *)
THEOREM LocksReferencedCorrect == Spec => []LocksReferenced
BY LocksCorrect, PTL

(* The two sides of the wait graph agree.                                  *)
THEOREM WaitEdgesMatchCorrect == Spec => []WaitEdgesMatch
BY WaitGraphCorrect, PTL

(* A transaction that ends has no wait edge.                               *)
THEOREM ClosingHasNoEdgesCorrect == Spec => []ClosingHasNoEdges
BY WaitGraphCorrect, PTL

(* Statuses, counts, queues and the places of the threads stay in their    *)
(* ranges through every grant, kill and restart.                           *)
THEOREM TypeCorrect == Spec => []TypeOK
BY LocksCorrect, PTL
==============================================================================
