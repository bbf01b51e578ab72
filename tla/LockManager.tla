----------------------------- MODULE LockManager -----------------------------
(***************************************************************************)
(* Locks, lock waits, wait edges and the end of transactions: lock.c and   *)
(* rltrx.c of libsrc/Wi.                                                   *)
(*                                                                         *)
(* Each transaction has one thread, always inside it (lt_threads = 1, no   *)
(* mt branches, no vdb section).  A gen_lock_t is touched only under the   *)
(* exclusive latch of its page, so asking for a lock, which holds the      *)
(* latch throughout and enters the txn mutex once, is one action.          *)
(* lock_release also holds the latch throughout but enters the txn mutex   *)
(* once per waiter: it is a loop of actions between which kills, requests  *)
(* on other pages and other ends of transactions take place.  The          *)
(* lt_transact of transaction t is run by t's thread or by the killer      *)
(* (lt_killall, the_grim_lock_reaper); its program counter is phase[t].    *)
(***************************************************************************)
EXTENDS Naturals, Sequences, FiniteSets

CONSTANTS Trx,               \* lock_trx_t's, each with its thread
          Locks,             \* gen_lock_t's, each alone on its page
          PageLocks,         \* those that are page locks (PL_IS_PAGE)
          MaxRestarts        \* bound on the calls of lt_restart

ASSUME TrxFinite == IsFiniteSet(Trx)
ASSUME MaxRestartsIsNat == MaxRestarts \in Nat
ASSUME PageLocksAreLocks == PageLocks \subseteq Locks

Mode == {"S", "X"}           \* PL_SHARED, PL_EXCLUSIVE
NoTrx == "none"
NoLock == "none"

ASSUME NamesDiffer == NoTrx \notin Trx /\ NoLock \notin Locks

Status == {"PENDING", "COMMITTED", "BLOWN_OFF", "CLOSING", "DELTA_ROLLED_BACK"}

VARIABLES pl_type,             \* per lock: "FREE", "S" or "X"
          pl_owner,            \* per lock: its owners (a list if several)
          pl_waiting,          \* per lock: queue of [lt, mode, acq]
          latch,               \* per lock: the transact holding its page
          lt_status,
          lt_lw_threads,       \* 0 or 1
          lt_close_ack_threads,
          lt_waits_for, lt_waiting_for_this,
          lt_lock,             \* per trx: the locks it references
          pc,                  \* per trx: where its thread is
          wanted,              \* per trx: the lock an acquiring wait is for
          phase,               \* per trx: where its lt_transact is
          todo,                \* per trx: pl_arr, locks yet to be released
          cur,                 \* per trx: the lock being released
          scan,                \* per trx: position in the dead waiter scan
          victim,              \* per trx: the waiter about to be signalled
          killer,              \* the trx it rolls back or awaits, or NoTrx
          unlinked,            \* history: see lock_wait
          restarts             \* history: calls of lt_restart

lockVars == <<pl_type, pl_owner, pl_waiting, latch>>
waitVars == <<lt_waits_for, lt_waiting_for_this>>
txVars == <<phase, todo, cur, scan, victim>>
histVars == <<unlinked, restarts>>
vars == <<pl_type, pl_owner, pl_waiting, latch, lt_status, lt_lw_threads,
          lt_close_ack_threads, lt_waits_for, lt_waiting_for_this, lt_lock,
          pc, wanted, phase, todo, cur, scan, victim, killer, unlinked,
          restarts>>

Init ==
  /\ pl_type = [l \in Locks |-> "FREE"]
  /\ pl_owner = [l \in Locks |-> {}]
  /\ pl_waiting = [l \in Locks |-> <<>>]
  /\ latch = [l \in Locks |-> NoTrx]
  /\ lt_status = [t \in Trx |-> "PENDING"]
  /\ lt_lw_threads = [t \in Trx |-> 0]
  /\ lt_close_ack_threads = [t \in Trx |-> 0]
  /\ lt_waits_for = [t \in Trx |-> {}]
  /\ lt_waiting_for_this = [t \in Trx |-> {}]
  /\ lt_lock = [t \in Trx |-> {}]
  /\ pc = [t \in Trx |-> "run"]
  /\ wanted = [t \in Trx |-> NoLock]
  /\ phase = [t \in Trx |-> "none"]
  /\ todo = [t \in Trx |-> {}]
  /\ cur = [t \in Trx |-> NoLock]
  /\ scan = [t \in Trx |-> 0]
  /\ victim = [t \in Trx |-> NoTrx]
  /\ killer = NoTrx
  /\ unlinked = {}
  /\ restarts = 0
-----------------------------------------------------------------------------

\* Variant: one of several shared owners may upgrade.
MayOwnAnyOwner(l, t, mode, was_waiting) ==
  \/ pl_type[l] = "FREE"
  \/ t \in pl_owner[l]
  \/ /\ pl_type[l] = "S" /\ mode = "S"
     /\ pl_waiting[l] = <<>> \/ was_waiting

\* lock_add_owner: may t have the lock in this mode now?
MayOwn(l, t, mode, was_waiting) ==
  \/ pl_type[l] = "FREE"
  \/ pl_owner[l] = {t}
  \/ /\ pl_type[l] = "S" /\ mode = "S"
     /\ pl_waiting[l] = <<>> \/ was_waiting \/ t \in pl_owner[l]

\* The type of the lock once lock_add_owner has given it to t.
TypeOwned(l, t, mode) ==
  IF pl_type[l] = "FREE" \/ mode = "X" THEN mode ELSE pl_type[l]

\* lock_is_acquirable, also true where there is no lock yet.
lock_is_acquirable(l, t, mode) ==
  \/ pl_type[l] = "FREE"
  \/ pl_owner[l] = {t}
  \/ pl_type[l] = "S" /\ t \in pl_owner[l]
  \/ pl_type[l] = "S" /\ mode = "S" /\ pl_waiting[l] = <<>>

\* The positions of the waiters whose transaction is not closing.
LiveQueue(l) ==
  {i \in 1..Len(pl_waiting[l]) : lt_status[pl_waiting[l][i].lt] # "CLOSING"}

\* Variant: closing owners count.
AllOwners(l) == pl_owner[l]

LiveOwners(l) == {t \in pl_owner[l] : lt_status[t] # "CLOSING"}

\* waits[first_pred .. last_pred] of lock_check_deadlock_1: the transactions a
\* new waiter goes behind.
Predecessors(l, mode) ==
  LET excl == {i \in LiveQueue(l) : pl_waiting[l][i].mode = "X"}
      lastExcl == {pl_waiting[l][i].lt : i \in {j \in excl : \A k \in excl : k <= j}}
      tail == {pl_waiting[l][i].lt : i \in {j \in LiveQueue(l) : \A k \in excl : k < j}}
  IN CASE mode = "S" /\ excl # {} -> lastExcl
       [] mode = "S" /\ excl = {} -> IF pl_type[l] = "X" THEN LiveOwners(l) ELSE {}
       [] mode = "X" /\ excl # {} -> IF tail = {} THEN lastExcl ELSE tail
       [] mode = "X" /\ excl = {} -> IF pl_type[l] = "X" /\ tail # {} THEN tail
                                     ELSE tail \cup LiveOwners(l)

\* A set of transactions that with each one has those it waits for.
Closed(S) == \A u \in S : lt_waits_for[u] \subseteq S

\* What lt_is_deadlock_1 walks: from, those it waits for, and so on.
WaitReach(from) ==
  {u \in Trx : \A S \in SUBSET Trx : from \in S /\ Closed(S) => u \in S}

lt_is_deadlock_1(before, after) == after \in WaitReach(before)

\* lt_waits_for (before, after) for every before.
WaitEdges(befores, t) ==
  /\ lt_waiting_for_this' = [u \in Trx |-> IF u \in befores
                               THEN lt_waiting_for_this[u] \cup {t}
                               ELSE lt_waiting_for_this[u]]
  /\ lt_waits_for' = [lt_waits_for EXCEPT ![t] = @ \cup befores]

\* Variant: those before t do not learn of those behind it.
ClearWaitsOneSided(t) ==
  /\ lt_waits_for' = [u \in Trx |->
       IF u = t THEN {}
       ELSE IF u \in lt_waiting_for_this[t]
            THEN (lt_waits_for[u] \ {t}) \cup lt_waits_for[t]
            ELSE lt_waits_for[u]]
  /\ lt_waiting_for_this' = [u \in Trx |-> IF u = t THEN {}
                                           ELSE lt_waiting_for_this[u] \ {t}]

\* Variant: the edges of t are deleted, not passed on.
ClearWaitsCut(t) ==
  /\ lt_waits_for' = [u \in Trx |-> IF u = t THEN {} ELSE lt_waits_for[u] \ {t}]
  /\ lt_waiting_for_this' = [u \in Trx |-> IF u = t THEN {}
                                           ELSE lt_waiting_for_this[u] \ {t}]

\* lt_clear_waits: t leaves the graph, those behind it go behind those before.
lt_clear_waits(t) ==
  /\ lt_waits_for' = [u \in Trx |->
       IF u = t THEN {}
       ELSE IF u \in lt_waiting_for_this[t]
            THEN (lt_waits_for[u] \ {t}) \cup lt_waits_for[t]
            ELSE lt_waits_for[u]]
  /\ lt_waiting_for_this' = [u \in Trx |->
       IF u = t THEN {}
       ELSE IF u \in lt_waits_for[t]
            THEN (lt_waiting_for_this[u] \ {t}) \cup lt_waiting_for_this[t]
            ELSE lt_waiting_for_this[u]]
-----------------------------------------------------------------------------
\* Threads of transactions.

\* itc_set_lock_on_row, lock_enter without waiting.
TakeLock(t, l, mode) ==
  /\ pc[t] = "run"
  /\ latch[l] = NoTrx
  /\ MayOwn(l, t, mode, FALSE)
  /\ pl_type' = [pl_type EXCEPT ![l] = TypeOwned(l, t, mode)]
  /\ pl_owner' = [pl_owner EXCEPT ![l] = @ \cup {t}]
  /\ lt_lock' = [lt_lock EXCEPT ![t] = @ \cup {l}]
  /\ UNCHANGED <<histVars, pl_waiting, latch, lt_status, lt_lw_threads, killer,
                 lt_close_ack_threads, waitVars, pc, wanted, txVars>>

\* The condition under which a request goes to lock_wait.
MustWait(t, l, mode, acq) ==
  /\ pc[t] = "run"
  /\ latch[l] = NoTrx
  /\ IF acq THEN ~MayOwn(l, t, mode, FALSE)
            ELSE ~lock_is_acquirable(l, t, mode)

\* Variant: no walk of the wait graph.
RefusedUnwalked(t, l, mode) == lt_status[t] # "PENDING" \/ t \in pl_owner[l]

\* lock_wait, lock_live_deadlocks: not pending any more, a shared owner among
\* others asking for exclusive, or a cycle.
WaitRefused(t, l, mode) ==
  \/ lt_status[t] # "PENDING"
  \/ t \in pl_owner[l]
  \/ \E u \in Predecessors(l, mode) : lt_is_deadlock_1(u, t)

\* lock_wait throws to itc_bust_this_trx.
lock_wait_bust(t, l, mode, acq) ==
  /\ MustWait(t, l, mode, acq)
  /\ WaitRefused(t, l, mode)
  /\ pc' = [pc EXCEPT ![t] = "bust"]
  /\ UNCHANGED <<histVars, lockVars, lt_status, lt_lw_threads, lt_close_ack_threads,
                 waitVars, lt_lock, wanted, txVars, killer>>

\* Variant: lt_add_pl is not called for the waiter.
QueueUnreferenced(t, l, mode, acq) ==
  /\ MustWait(t, l, mode, acq)
  /\ ~WaitRefused(t, l, mode)
  /\ WaitEdges(Predecessors(l, mode), t)
  /\ lt_lw_threads' = [lt_lw_threads EXCEPT ![t] = @ + 1]
  /\ pl_waiting' = [pl_waiting EXCEPT
                      ![l] = Append(@, [lt |-> t, mode |-> mode, acq |-> acq])]
  /\ pc' = [pc EXCEPT ![t] = "wait"]
  /\ wanted' = [wanted EXCEPT ![t] = IF acq THEN l ELSE NoLock]
  /\ unlinked' = IF mode = "S" /\ Predecessors(l, mode) = {}
                 THEN unlinked \cup {l} ELSE unlinked
  /\ UNCHANGED <<pl_type, pl_owner, latch, lt_status, lt_close_ack_threads,
                 lt_lock, txVars, killer, restarts>>

\* lock_wait queues the cursor and goes to ITC_SEM_WAIT.  A shared request that
\* finds only closing exclusive waiters before it gets no edge; unlinked records
\* the locks whose queue has held such a waiter since it was last empty.
lock_wait(t, l, mode, acq) ==
  /\ MustWait(t, l, mode, acq)
  /\ ~WaitRefused(t, l, mode)
  /\ WaitEdges(Predecessors(l, mode), t)
  /\ lt_lw_threads' = [lt_lw_threads EXCEPT ![t] = @ + 1]
  /\ lt_lock' = [lt_lock EXCEPT ![t] = @ \cup {l}]
  /\ pl_waiting' = [pl_waiting EXCEPT
                      ![l] = Append(@, [lt |-> t, mode |-> mode, acq |-> acq])]
  /\ pc' = [pc EXCEPT ![t] = "wait"]
  /\ wanted' = [wanted EXCEPT ![t] = IF acq THEN l ELSE NoLock]
  /\ unlinked' = IF mode = "S" /\ Predecessors(l, mode) = {}
                 THEN unlinked \cup {l} ELSE unlinked
  /\ UNCHANGED <<pl_type, pl_owner, latch, lt_status, lt_close_ack_threads,
                 txVars, killer, restarts>>

\* Back from ITC_SEM_WAIT and still pending.
WaitOver(t) ==
  /\ pc[t] = "woken"
  /\ lt_status[t] = "PENDING"
  /\ pc' = [pc EXCEPT ![t] = "run"]
  /\ wanted' = [wanted EXCEPT ![t] = NoLock]
  /\ UNCHANGED <<histVars, lockVars, lt_status, lt_lw_threads,
                 lt_close_ack_threads, waitVars, lt_lock, txVars, killer>>

\* The thread calls itc_bust_this_trx: thrown by lock_wait, or finding itself
\* not pending after the wait or in CHECK_TRX_DEAD.
Busts(t) ==
  \/ pc[t] = "bust"
  \/ pc[t] \in {"run", "woken"} /\ lt_status[t] # "PENDING"

\* lt_transact up to LEAVE_TXN.
lt_transact(t) ==
  /\ lt_clear_waits(t)
  /\ lt_status' = [lt_status EXCEPT ![t] = "CLOSING"]
  /\ phase' = [phase EXCEPT ![t] = "array"]
  /\ UNCHANGED <<todo, cur, scan, victim>>

\* itc_bust_this_trx and lt_ack_close of a transaction that nobody is closing:
\* its own thread rolls it back.
BustRollsBack(t) ==
  /\ Busts(t)
  /\ lt_status[t] \in {"PENDING", "BLOWN_OFF"}
  /\ lt_close_ack_threads' = [lt_close_ack_threads EXCEPT ![t] = @ + 1]
  /\ lt_transact(t)
  /\ pc' = [pc EXCEPT ![t] = "busting"]
  /\ wanted' = [wanted EXCEPT ![t] = NoLock]
  /\ UNCHANGED <<histVars, lockVars, lt_lw_threads, lt_lock, killer>>

\* The same when the killer is closing it: acknowledge and wait until dead.
BustAcknowledges(t) ==
  /\ Busts(t)
  /\ lt_status[t] = "CLOSING"
  /\ lt_close_ack_threads' = [lt_close_ack_threads EXCEPT ![t] = @ + 1]
  /\ pc' = [pc EXCEPT ![t] = "ackwait"]
  /\ wanted' = [wanted EXCEPT ![t] = NoLock]
  /\ UNCHANGED <<histVars, lockVars, lt_status, lt_lw_threads, waitVars, lt_lock,
                 txVars, killer>>

\* lt_commit or lt_rollback by the running thread, up to the part outside the
\* txn mutex (log_commit, log_cl_final).  A killed transaction rolls back.
lt_commit(t) ==
  /\ pc[t] = "run"
  /\ lt_status' = [lt_status EXCEPT ![t] = IF @ = "PENDING" THEN "COMMITTED"
                                           ELSE "BLOWN_OFF"]
  /\ pc' = [pc EXCEPT ![t] = "log"]
  /\ UNCHANGED <<histVars, lockVars, lt_lw_threads, lt_close_ack_threads, waitVars,
                 lt_lock, wanted, txVars, killer>>

\* lt_rollback_1: by a running thread, or after a bust has been thrown.
lt_rollback(t) ==
  /\ pc[t] \in {"run", "thrown"}
  /\ lt_status' = [lt_status EXCEPT ![t] = "BLOWN_OFF"]
  /\ pc' = [pc EXCEPT ![t] = "log"]
  /\ UNCHANGED <<histVars, lockVars, lt_lw_threads, lt_close_ack_threads, waitVars,
                 lt_lock, wanted, txVars, killer>>

\* Back inside the txn mutex: lt_close_ack_threads++, lt_transact.
AfterLog(t) ==
  /\ pc[t] = "log"
  /\ lt_close_ack_threads' = [lt_close_ack_threads EXCEPT ![t] = @ + 1]
  /\ lt_transact(t)
  /\ pc' = [pc EXCEPT ![t] = "closing"]
  /\ UNCHANGED <<histVars, lockVars, lt_lw_threads, lt_lock, wanted, killer>>

lt_restart(t) ==
  /\ pc[t] = "closed"
  /\ restarts < MaxRestarts
  /\ restarts' = restarts + 1
  /\ lt_status' = [lt_status EXCEPT ![t] = "PENDING"]
  /\ pc' = [pc EXCEPT ![t] = "run"]
  /\ UNCHANGED <<unlinked, lockVars, lt_lw_threads, lt_close_ack_threads,
                 waitVars, lt_lock, wanted, txVars, killer>>
-----------------------------------------------------------------------------
\* lt_kill_other_trx (lt, LT_KILL_ROLLBACK) from lt_killall or the reaper.

KillRunning(t) ==
  /\ killer = NoTrx
  /\ lt_status[t] = "PENDING"
  /\ lt_lw_threads[t] = 0 /\ lt_close_ack_threads[t] = 0     \* LT_IS_RUNNING
  /\ lt_status' = [lt_status EXCEPT ![t] = "BLOWN_OFF"]
  /\ killer' = t                                     \* lt_wait_until_dead
  /\ UNCHANGED <<histVars, lockVars, lt_lw_threads, lt_close_ack_threads, waitVars,
                 lt_lock, pc, wanted, txVars>>

\* lt_rollback_other of a transaction whose thread waits for a lock.
KillWaiting(t) ==
  /\ killer = NoTrx
  /\ lt_status[t] = "PENDING"
  /\ lt_lw_threads[t] > 0
  /\ lt_transact(t)
  /\ killer' = t
  /\ UNCHANGED <<histVars, lockVars, lt_lw_threads, lt_close_ack_threads, lt_lock, pc,
                 wanted>>
-----------------------------------------------------------------------------
\* The rest of lt_transact (t), outside the txn mutex.

\* lt_locks_to_array.
lt_locks_to_array(t) ==
  /\ phase[t] = "array"
  /\ lt_lock[t] # {}
  /\ todo' = [todo EXCEPT ![t] = lt_lock[t]]
  /\ lt_lock' = [lt_lock EXCEPT ![t] = {}]
  /\ phase' = [phase EXCEPT ![t] = "pages"]
  /\ UNCHANGED <<histVars, lockVars, lt_status, lt_lw_threads, lt_close_ack_threads,
                 waitVars, pc, wanted, cur, scan, victim, killer>>

\* pl_finalize_page, pl_rollback_page: latch the page; lock_release up to the
\* scan of the waiters.
lock_release(t, l) ==
  LET left == pl_owner[l] \ {t} IN
  /\ phase[t] = "pages"
  /\ l \in todo[t]
  /\ latch[l] = NoTrx
  /\ latch' = [latch EXCEPT ![l] = t]
  /\ pl_owner' = [pl_owner EXCEPT ![l] = left]
  /\ pl_type' = [pl_type EXCEPT ![l] = IF left = {} THEN "FREE" ELSE @]
  /\ todo' = [todo EXCEPT ![t] = @ \ {l}]
  /\ cur' = [cur EXCEPT ![t] = l]
  /\ scan' = [scan EXCEPT ![t] = 1]
  /\ phase' = [phase EXCEPT ![t] = "release"]
  /\ UNCHANGED <<histVars, pl_waiting, lt_status, lt_lw_threads, lt_close_ack_threads,
                 waitVars, lt_lock, pc, wanted, victim, killer>>

\* lt_clear_pl_wait_ref: a page lock is no longer referenced by the waiter.
lt_clear_pl_wait_ref(w, l) ==
  lt_lock' = IF l \in PageLocks THEN [lt_lock EXCEPT ![w] = @ \ {l}] ELSE lt_lock

\* *prev = waiting->itc_next_on_lock.
TakeOut(q, i) == SubSeq(q, 1, i - 1) \o SubSeq(q, i + 1, Len(q))

\* The scan meets a waiter of this transaction or of one that is not pending.
ScanDead(t) ==
  LET l == cur[t]
      w == pl_waiting[l][scan[t]].lt IN
  /\ phase[t] = "release"
  /\ scan[t] <= Len(pl_waiting[l])
  /\ w = t \/ lt_status[w] # "PENDING"
  /\ IF w = t THEN UNCHANGED lt_lock ELSE lt_clear_pl_wait_ref(w, l)
  /\ pl_waiting' = [pl_waiting EXCEPT ![l] = TakeOut(@, scan[t])]
  /\ victim' = [victim EXCEPT ![t] = w]
  /\ phase' = [phase EXCEPT ![t] = "signal"]
  /\ UNCHANGED <<histVars, pl_type, pl_owner, latch, lt_status, lt_lw_threads,
                 lt_close_ack_threads, waitVars, pc, wanted, todo, cur, scan,
                 killer>>

\* The scan passes a live waiter.
ScanLive(t) ==
  LET l == cur[t]
      w == pl_waiting[l][scan[t]].lt IN
  /\ phase[t] = "release"
  /\ scan[t] <= Len(pl_waiting[l])
  /\ w # t /\ lt_status[w] = "PENDING"
  /\ scan' = [scan EXCEPT ![t] = @ + 1]
  /\ UNCHANGED <<histVars, lockVars, lt_status, lt_lw_threads,
                 lt_close_ack_threads, waitVars, lt_lock, pc, wanted, phase,
                 todo, cur, victim, killer>>

\* Variant: lt_lw_threads is not decremented.
SignalUncounted(t) ==
  LET w == victim[t] IN
  /\ phase[t] = "signal"
  /\ pc' = [pc EXCEPT ![w] = "woken"]
  /\ victim' = [victim EXCEPT ![t] = NoTrx]
  /\ phase' = [phase EXCEPT ![t] = "release"]
  /\ UNCHANGED <<histVars, lockVars, lt_status, lt_lw_threads, lt_close_ack_threads,
                 waitVars, lt_lock, wanted, todo, cur, scan, killer>>

\* IN_TXN; lt_lw_threads--; LEAVE_TXN; semaphore_leave (thr_sem).
Signal(t) ==
  LET w == victim[t] IN
  /\ phase[t] = "signal"
  /\ lt_lw_threads' = [lt_lw_threads EXCEPT ![w] = @ - 1]
  /\ pc' = [pc EXCEPT ![w] = "woken"]
  /\ victim' = [victim EXCEPT ![t] = NoTrx]
  /\ phase' = [phase EXCEPT ![t] = "release"]
  /\ UNCHANGED <<histVars, lockVars, lt_status, lt_close_ack_threads, waitVars,
                 lt_lock, wanted, todo, cur, scan, killer>>

\* The scan is over: the rest of lock_release lets waiters go from the head.
Granting(t) == phase[t] = "release" /\ scan[t] > Len(pl_waiting[cur[t]])

\* Can the head w of the queue be let go?  A waiter that is not acquiring only
\* passes; so does one whose row is gone (itc_is_on_row).
MayGo(l, w, acquires) ==
  IF acquires THEN MayOwn(l, w.lt, w.mode, TRUE)
  ELSE IF w.mode = "S" THEN pl_type[l] # "X"
  ELSE pl_type[l] = "FREE"

\* Variant: the waiter is not pushed to the list of owners.
GrantNotListed(t) ==
  LET l == cur[t]
      w == Head(pl_waiting[l]) IN
  /\ Granting(t)
  /\ pl_waiting[l] # <<>>
  /\ w.acq
  /\ MayGo(l, w, TRUE)
  /\ pl_type' = [pl_type EXCEPT ![l] = TypeOwned(l, w.lt, w.mode)]
  /\ pl_owner' = [pl_owner EXCEPT ![l] = IF @ = {} THEN {w.lt} ELSE @]
  /\ pl_waiting' = [pl_waiting EXCEPT ![l] = Tail(@)]
  /\ victim' = [victim EXCEPT ![t] = w.lt]
  /\ phase' = [phase EXCEPT ![t] = "signal"]
  /\ UNCHANGED <<histVars, latch, lt_status, lt_lw_threads, lt_close_ack_threads,
                 waitVars, lt_lock, pc, wanted, todo, cur, scan, killer>>

\* The head gets the lock.
GrantOwner(t) ==
  LET l == cur[t]
      w == Head(pl_waiting[l]) IN
  /\ Granting(t)
  /\ pl_waiting[l] # <<>>
  /\ w.acq
  /\ MayGo(l, w, TRUE)
  /\ pl_type' = [pl_type EXCEPT ![l] = TypeOwned(l, w.lt, w.mode)]
  /\ pl_owner' = [pl_owner EXCEPT ![l] = @ \cup {w.lt}]
  /\ pl_waiting' = [pl_waiting EXCEPT ![l] = Tail(@)]
  /\ victim' = [victim EXCEPT ![t] = w.lt]
  /\ phase' = [phase EXCEPT ![t] = "signal"]
  /\ UNCHANGED <<histVars, latch, lt_status, lt_lw_threads, lt_close_ack_threads,
                 waitVars, lt_lock, pc, wanted, todo, cur, scan, killer>>

\* Those that lt_clear_non_acq_release_wait no longer has wait for the head of q.
Dropped(q) ==
  LET rest == Tail(q)
      excl == {i \in 1..Len(rest) : rest[i].mode = "X"} IN
  IF Head(q).mode = "X" /\ (rest = <<>> \/ rest[1].mode = "S")
  THEN {rest[i].lt : i \in {j \in 1..Len(rest) : \A k \in excl : j < k}}
  ELSE {rest[i].lt : i \in {j \in excl : \A k \in excl : j <= k}}

\* The edges lt_drop_wait deletes: after no longer waits for w.
lt_drop_wait(w, after) ==
  /\ lt_waiting_for_this' = [lt_waiting_for_this EXCEPT ![w] = @ \ after]
  /\ lt_waits_for' = [u \in Trx |-> IF u \in after THEN lt_waits_for[u] \ {w}
                                    ELSE lt_waits_for[u]]

\* The head was only waiting, or its row is gone: it goes without the lock.
GrantPass(t) ==
  LET l == cur[t]
      w == Head(pl_waiting[l]) IN
  /\ Granting(t)
  /\ pl_waiting[l] # <<>>
  /\ MayGo(l, w, FALSE)
  /\ lt_clear_pl_wait_ref(w.lt, l)
  /\ lt_drop_wait(w.lt, Dropped(pl_waiting[l]))
  /\ pl_waiting' = [pl_waiting EXCEPT ![l] = Tail(@)]
  /\ victim' = [victim EXCEPT ![t] = w.lt]
  /\ wanted' = [wanted EXCEPT ![w.lt] = NoLock]
  /\ phase' = [phase EXCEPT ![t] = "signal"]
  /\ UNCHANGED <<histVars, pl_type, pl_owner, latch, lt_status, lt_lw_threads,
                 lt_close_ack_threads, pc, todo, cur, scan, killer>>

\* Variant: the page is left although the head of the queue could go.
ReleaseStops(t) ==
  LET l == cur[t] IN
  /\ Granting(t)
  /\ latch' = [latch EXCEPT ![l] = NoTrx]
  /\ cur' = [cur EXCEPT ![t] = NoLock]
  /\ scan' = [scan EXCEPT ![t] = 0]
  /\ unlinked' = IF pl_waiting[l] = <<>> THEN unlinked \ {l} ELSE unlinked
  /\ phase' = [phase EXCEPT ![t] = IF todo[t] = {} THEN "array" ELSE "pages"]
  /\ UNCHANGED <<pl_type, pl_owner, pl_waiting, lt_status, lt_lw_threads,
                 lt_close_ack_threads, waitVars, lt_lock, pc, wanted, todo,
                 victim, killer, restarts>>

\* Nobody else can be let go: leave the page.
ReleaseDone(t) ==
  LET l == cur[t]
      w == Head(pl_waiting[l]) IN
  /\ Granting(t)
  /\ pl_waiting[l] # <<>> => ~MayGo(l, w, w.acq)
  /\ latch' = [latch EXCEPT ![l] = NoTrx]
  /\ cur' = [cur EXCEPT ![t] = NoLock]
  /\ scan' = [scan EXCEPT ![t] = 0]
  /\ unlinked' = IF pl_waiting[l] = <<>> THEN unlinked \ {l} ELSE unlinked
  /\ phase' = [phase EXCEPT ![t] = IF todo[t] = {} THEN "array" ELSE "pages"]
  /\ UNCHANGED <<pl_type, pl_owner, pl_waiting, lt_status, lt_lw_threads,
                 lt_close_ack_threads, waitVars, lt_lock, pc, wanted, todo,
                 victim, killer, restarts>>

\* Variant: the acknowledgements are not reset.
EndKeepsAcks(t) ==
  /\ phase[t] = "array"
  /\ lt_lock[t] = {}
  /\ lt_close_ack_threads[t] >= 1
  /\ lt_clear_waits(t)
  /\ lt_status' = [lt_status EXCEPT ![t] = "DELTA_ROLLED_BACK"]
  /\ lt_lw_threads' = [lt_lw_threads EXCEPT ![t] = 0]
  /\ phase' = [phase EXCEPT ![t] = "none"]
  /\ pc' = [pc EXCEPT ![t] = IF @ = "closing" THEN "closed" ELSE "thrown"]
  /\ killer' = IF killer = t THEN NoTrx ELSE killer
  /\ UNCHANGED <<histVars, lockVars, lt_close_ack_threads, lt_lock, wanted, todo,
                 cur, scan, victim>>

\* The end of lt_transact: all threads have acknowledged; waiters for the end
\* of this transaction resume.
lt_transact_end(t) ==
  /\ phase[t] = "array"
  /\ lt_lock[t] = {}
  /\ lt_close_ack_threads[t] >= 1
  /\ lt_clear_waits(t)
  /\ lt_status' = [lt_status EXCEPT ![t] = "DELTA_ROLLED_BACK"]
  /\ lt_lw_threads' = [lt_lw_threads EXCEPT ![t] = 0]
  /\ lt_close_ack_threads' = [lt_close_ack_threads EXCEPT ![t] = 0]
  /\ phase' = [phase EXCEPT ![t] = "none"]
  /\ pc' = [pc EXCEPT ![t] = IF @ = "closing" THEN "closed" ELSE "thrown"]
  /\ killer' = IF killer = t THEN NoTrx ELSE killer
  /\ UNCHANGED <<histVars, lockVars, lt_lock, wanted, todo, cur, scan, victim>>
-----------------------------------------------------------------------------

Thread(t) ==
  \/ \E l \in Locks, mode \in Mode :
       \/ TakeLock(t, l, mode)
       \/ \E acq \in BOOLEAN : \/ lock_wait_bust(t, l, mode, acq)
                               \/ lock_wait(t, l, mode, acq)
  \/ WaitOver(t)
  \/ BustRollsBack(t)
  \/ BustAcknowledges(t)
  \/ lt_commit(t)
  \/ lt_rollback(t)
  \/ AfterLog(t)
  \/ lt_restart(t)

Transact(t) ==
  \/ lt_locks_to_array(t)
  \/ \E l \in Locks : lock_release(t, l)
  \/ ScanDead(t)
  \/ ScanLive(t)
  \/ Signal(t)
  \/ GrantOwner(t)
  \/ GrantPass(t)
  \/ ReleaseDone(t)
  \/ lt_transact_end(t)

Next == \E t \in Trx : Thread(t) \/ Transact(t) \/ KillRunning(t) \/ KillWaiting(t)

\* A transaction's thread goes on when it can and its client ends it sooner or
\* later; lt_transact goes on, and gets the page it queues for (gate.c hands
\* pages over in the order of arrival).
Fairness ==
  \A t \in Trx :
    /\ WF_vars(WaitOver(t) \/ BustRollsBack(t) \/ BustAcknowledges(t) \/ AfterLog(t))
    /\ SF_vars(lt_commit(t) \/ lt_rollback(t))
    /\ SF_vars(Transact(t))

Spec == Init /\ [][Next]_vars /\ Fairness
-----------------------------------------------------------------------------

Waiter == [lt : Trx, mode : Mode, acq : BOOLEAN]

(* The variables range over what the C fields can hold. *)
TypeOK ==
  /\ pl_type \in [Locks -> Mode \cup {"FREE"}]
  /\ pl_owner \in [Locks -> SUBSET Trx]
  /\ pl_waiting \in [Locks -> Seq(Waiter)]
  /\ latch \in [Locks -> Trx \cup {NoTrx}]
  /\ lt_status \in [Trx -> Status]
  /\ lt_lw_threads \in [Trx -> 0..1]
  /\ lt_close_ack_threads \in [Trx -> 0..1]
  /\ lt_waits_for \in [Trx -> SUBSET Trx]
  /\ lt_waiting_for_this \in [Trx -> SUBSET Trx]
  /\ lt_lock \in [Trx -> SUBSET Locks]
  /\ pc \in [Trx -> {"run", "wait", "woken", "bust", "busting", "ackwait",
                     "thrown", "log", "closing", "closed"}]
  /\ wanted \in [Trx -> Locks \cup {NoLock}]
  /\ phase \in [Trx -> {"none", "array", "pages", "release", "signal"}]
  /\ todo \in [Trx -> SUBSET Locks]
  /\ cur \in [Trx -> Locks \cup {NoLock}]
  /\ scan \in [Trx -> Nat]
  /\ victim \in [Trx -> Trx \cup {NoTrx}]
  /\ killer \in Trx \cup {NoTrx}
  /\ unlinked \subseteq Locks
  /\ restarts \in Nat

Queued(q) == {q[i].lt : i \in 1..Len(q)}

Distinct(q) == \A i, j \in 1..Len(q) : q[i].lt = q[j].lt => i = j

Waits(t, l) == t \in Queued(pl_waiting[l])

(* An exclusive lock has exactly one owner and a free one none, through    *)
(* upgrades of a lone shared owner, grants to queued shared waiters and    *)
(* releases by one of several owners.                                      *)
LockCompatible ==
  \A l \in Locks : /\ pl_type[l] = "FREE" <=> pl_owner[l] = {}
                   /\ pl_type[l] = "X" => \A t, u \in pl_owner[l] : t = u

(* lt_waits_for and lt_waiting_for_this are each other's inverse, through  *)
(* the edges lt_clear_waits passes on and lt_drop_wait deletes (the GPF_T1 *)
(* "unmatched waits / waits_for_this").                                    *)
WaitEdgesMatch ==
  \A t, u \in Trx : t \in lt_waits_for[u] <=> u \in lt_waiting_for_this[t]

(* No wait edge touches a transaction once it is closing, although others  *)
(* go on queueing behind its cursors and locks (the GPF_T1 "txn wait edges *)
(* can't appear on a closing txn" at the end of lt_transact, and the one   *)
(* in lt_done).                                                            *)
ClosingHasNoEdges ==
  \A t \in Trx : lt_status[t] \in {"CLOSING", "DELTA_ROLLED_BACK"}
                   => lt_waits_for[t] = {} /\ lt_waiting_for_this[t] = {}

(* lt_is_deadlock_1 recurses along lt_waits_for with no record of where it *)
(* has been: it returns only because the wait graph has no cycle.          *)
WaitGraphAcyclic ==
  \A t \in Trx : \A u \in lt_waits_for[t] : t \notin WaitReach(u)

\* The transactions that keep the i-th waiter of lock l where it is.
Blockers(l, i) ==
  LET w == pl_waiting[l][i] IN
  {u \in pl_owner[l] : w.mode = "X" \/ pl_type[l] = "X"} \cup
  {pl_waiting[l][j].lt : j \in {k \in 1..(i - 1) :
                                  w.mode = "X" \/ pl_waiting[l][k].mode = "X"}}

\* Shared waiters without an edge.
Unlinked(l) == {pl_waiting[l][i].lt : i \in {j \in 1..Len(pl_waiting[l]) :
                  /\ pl_waiting[l][j].mode = "S"
                  /\ lt_waits_for[pl_waiting[l][j].lt] = {}}}

(* No deadlock goes unseen: a queued pending waiter reaches, along the     *)
(* recorded edges, every transaction that really keeps it waiting, be it   *)
(* an owner or an earlier waiter, unless that one is already ending.  It   *)
(* must survive kills in the middle of the queue, waiters that pass        *)
(* without acquiring and the edges lt_drop_wait deletes.  The exception is *)
(* a queue that, since it was last empty, has had a shared waiter that     *)
(* found only closing exclusive ones and so was given no edge: nothing is  *)
(* claimed of the other waiters of such a queue either.                    *)
BlockersReachable ==
  \A l \in Locks \ unlinked : latch[l] = NoTrx =>
    \A i \in 1..Len(pl_waiting[l]) :
      LET w == pl_waiting[l][i] IN
      lt_status[w.lt] = "PENDING" =>
        \A u \in Blockers(l, i) :
          lt_status[u] # "CLOSING" => u \in WaitReach(w.lt)

(* What lock_check_deadlock_1 says of the waiters it gives no edge: "shared *)
(* with no live excl before can't block hence can't deadlock".  No two     *)
(* pending waiters, one of them such a waiter, wait for each other's lock. *)
SharedCannotDeadlock ==
  ~ \E l, m \in Locks : /\ latch[l] = NoTrx /\ latch[m] = NoTrx
      /\ \E i \in 1..Len(pl_waiting[l]), j \in 1..Len(pl_waiting[m]) :
           LET t == pl_waiting[l][i].lt
               u == pl_waiting[m][j].lt IN
           /\ lt_status[t] = "PENDING" /\ lt_status[u] = "PENDING"
           /\ t \in Unlinked(l)
           /\ u \in pl_owner[l] \cap Blockers(l, i)
           /\ t \in pl_owner[m] \cap Blockers(m, j)

(* Between releases nobody is queued on a lock without an owner (GPF_T     *)
(* "Lock free but cr waiting"), and a waiter never owns what it waits for. *)
QueueHasOwner ==
  \A l \in Locks :
    /\ latch[l] = NoTrx /\ pl_waiting[l] # <<>> => pl_owner[l] # {}
    /\ \A t \in pl_owner[l] : ~Waits(t, l)

(* lt_lw_threads counts exactly the thread that is queued on one lock, or  *)
(* dequeued and about to be signalled: the invariant behind the GPF_T1s    *)
(* "lock wait over or but lw_threads", "waiting trx w/ no lt_lw_threads"   *)
(* and "mismatched lt thread counts in lt_transact".                       *)
WaitsCounted ==
  /\ \A t \in Trx : lt_lw_threads[t] = 1 <=> pc[t] = "wait"
  /\ \A t \in Trx : pc[t] = "wait" <=> \/ \E l \in Locks : Waits(t, l)
                                       \/ \E u \in Trx : victim[u] = t
  /\ \A l \in Locks : Distinct(pl_waiting[l])
  /\ \A l, m \in Locks, t \in Trx : Waits(t, l) /\ Waits(t, m) => l = m

(* A transaction can always find the locks it owns or waits for: they are  *)
(* in lt_lock or in the array lt_transact works through, so none outlives  *)
(* it (the GPF_T1 "posthumous lock").                                      *)
LocksReferenced ==
  \A t \in Trx, l \in Locks :
    t \in pl_owner[l] \/ Waits(t, l)
      => l \in lt_lock[t] \cup todo[t] \/ latch[l] # NoTrx

(* An acquiring waiter that comes back from lock_wait still pending owns   *)
(* the lock: callers such as update_node_input and delete_node_run_1 do    *)
(* not ask again.                                                          *)
WokenOwns ==
  \A t \in Trx : pc[t] = "woken" /\ lt_status[t] = "PENDING" /\ wanted[t] # NoLock
                   => t \in pl_owner[wanted[t]]

(* Every lock wait ends: with the lock, passing it, or busted.             *)
EveryWaitEnds == \A t \in Trx : (pc[t] = "wait") ~> (pc[t] # "wait")
=============================================================================
