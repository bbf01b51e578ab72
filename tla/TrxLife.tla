------------------------------- MODULE TrxLife -------------------------------
(***************************************************************************)
(* The life of a transaction between its client, a checkpoint and a        *)
(* killer: lt_status and the four thread counts of lock_trx_t, as lock.c,  *)
(* rltrx.c, neodisk.c, sqlsrv.c, sqlrun.c and sqlintrp.c change them.      *)
(*                                                                         *)
(* Each transaction has one client thread.  What runs inside wi_txn_mtx    *)
(* from IN_TXN to the next LEAVE_TXN or semaphore wait is one action.  The *)
(* checkpoint holds the mutex from cpt_rollback on, but for its waits and  *)
(* log_checkpoint.  One lock stands for the rows transactions change; how  *)
(* locks are queued for and handed over is in LockManager.                 *)
(***************************************************************************)
EXTENDS Naturals

CONSTANT Trx

NoTrx == "none"

ASSUME NoTrxIsNone == NoTrx \notin Trx

\* LT_BLOWN_OFF and LT_BLOWN_OFF_C are one value.
Status == {"PENDING", "FREEZE", "COMMITTED", "BLOWN_OFF", "CLOSING",
           "DELTA_ROLLED_BACK"}

VARIABLES lt,                  \* per trx: status, counts, lt_wait_end, and
                               \* whether lt_timeout is set
          owner,               \* the trx that has the lock, or NoTrx
          pc,                  \* per trx: where its thread is
          then,                \* per trx: what the thread does after a wait
          waiting_checkpoint,  \* wi_waiting_checkpoint
          cpt,                 \* where the checkpoint thread is
          killer,              \* where the killer is, and its target
          failed               \* the GPF_T1 that has ended the server

vars == <<lt, owner, pc, then, waiting_checkpoint, cpt, killer,
          failed>>

NoKill == [at |-> "idle", trx |-> NoTrx, alone |-> FALSE]

Init ==
  /\ lt = [t \in Trx |-> [status |-> "PENDING", threads |-> 0, lw |-> 0,
                          ack |-> 0, vdb |-> 0, wait_end |-> {},
                          timeout |-> FALSE]]
  /\ owner = NoTrx
  /\ pc = [t \in Trx |-> "out"]
  /\ then = [t \in Trx |-> "none"]
  /\ waiting_checkpoint = {}
  /\ cpt = "idle"
  /\ killer = NoKill
  /\ failed = "none"

\* wi_is_checkpoint_pending, wi_checkpoint_atomic.
Pending == cpt # "idle"
Atomic == cpt \in {"atomic", "log"}

\* wi_txn_mtx is not with the checkpoint thread.
TxnFree == cpt \notin {"scan", "atomic"}

LT_IS_RUNNING(r) == r.threads > 0 /\ r.vdb = 0 /\ r.lw = 0 /\ r.ack = 0
-----------------------------------------------------------------------------
\* Steps of a thread inside the mutex.  Each gives lt'[t], pc'[t], then'[t],
\* waiting_checkpoint' and failed'.

Goes(t, r, where, next) ==
  /\ lt' = [lt EXCEPT ![t] = r]
  /\ pc' = [pc EXCEPT ![t] = where]
  /\ then' = [then EXCEPT ![t] = next]

\* GPF_T1 ends the server.
Gpf(which) == failed' = which /\ UNCHANGED <<lt, pc, then, waiting_checkpoint>>

\* Leaves the mutex, awake.
Runs(t, r, where, next) ==
  /\ Goes(t, r, where, next)
  /\ UNCHANGED <<waiting_checkpoint, failed>>

\* Sleeps in lt_wait_checkpoint_1.
Sleeps(t, r, where, next) ==
  /\ Goes(t, r, where, next)
  /\ waiting_checkpoint' = waiting_checkpoint \cup {t}
  /\ UNCHANGED failed

\* lt_wait_until_dead of its own transaction.
AwaitsEnd(t, r, next) ==
  IF r.threads = 0 THEN Gpf("no thread")
  ELSE Runs(t, [r EXCEPT !.wait_end = @ \cup {"client"}], "dead", next)

\* lt_rollback_1 up to LEAVE_TXN.
RollsBack(t, r, next) ==
  Runs(t, [r EXCEPT !.status = "BLOWN_OFF"], "rollback", next)

\* lt_restart up to LEAVE_TXN, leave_flag TRX_CONT or TRX_CONT_LT_LEAVE.
lt_restart(t, r, next) ==
  IF next = "close"
  THEN Runs(t, [r EXCEPT !.threads = 0], "clear", next)
  ELSE IF Pending THEN Sleeps(t, [r EXCEPT !.threads = 0], "restart", next)
  ELSE Runs(t, [r EXCEPT !.threads = 1], "clear", next)

\* lt_threads_dec_inner, at the end of lt_leave.
Leaves(t, r) ==
  IF r.threads # 1 THEN Gpf("decrement")
  ELSE Runs(t, [r EXCEPT !.threads = 0], "out", "none")

\* What follows an lt_transact or a wait for one, by who called it: lt_leave
\* and itc_bust_this_trx through lt_ack_close, vdb_leave_lt through it, and
\* lt_commit and lt_rollback_1.
AfterEnd(t, r, next) ==
  CASE next = "leave" -> Leaves(t, r)
    [] next = "throw" -> Runs(t, r, "run", "none")
    [] next = "vdb_leave" -> RollsBack(t, r, "run")
    [] OTHER -> lt_restart(t, r, next)

\* lt_transact by the client thread, up to LEAVE_TXN.
lt_transact(t, r, next) ==
  CASE Atomic -> Sleeps(t, r, "transact", next)
    [] ~Atomic /\ r.threads # r.lw + r.ack + r.vdb -> Gpf("counts")
    [] ~Atomic /\ r.threads = r.lw + r.ack + r.vdb ->
         CASE r.status = "DELTA_ROLLED_BACK" ->
                AfterEnd(t, [r EXCEPT !.ack = 0, !.timeout = FALSE], next)
           [] r.status = "CLOSING" -> AwaitsEnd(t, [r EXCEPT !.timeout = FALSE], next)
           [] OTHER ->
                Runs(t, [r EXCEPT !.status = "CLOSING", !.timeout = FALSE], "release", next)

\* lt_ack_close.
lt_ack_close(t, r, next) ==
  CASE r.status \in {"COMMITTED", "CLOSING"} ->
         AwaitsEnd(t, [r EXCEPT !.ack = @ + 1], next)
    [] r.status \in {"BLOWN_OFF", "FREEZE"} ->
         IF r.threads - (r.lw + r.ack) > 1
         THEN AwaitsEnd(t, [r EXCEPT !.ack = @ + 1], next)
         ELSE lt_transact(t, [r EXCEPT !.ack = @ + 1], next)
    [] OTHER -> AfterEnd(t, r, next)

\* What follows lt_ack_freeze_inner, by who called it: lt_ack_freeze,
\* qi_check_trx_error, lt_leave, vdb_enter_lt_1 and vdb_leave_lt.
AfterFreeze(t, r, next) ==
  CASE next = "itc" ->
         Runs(t, r, IF r.status = "PENDING" THEN "run" ELSE "bust", "none")
    [] next = "qi" -> Runs(t, [r EXCEPT !.status = "PENDING"], "run", "none")
    [] next = "lt_leave" -> Leaves(t, r)
    [] next = "vdb_enter" ->
         IF r.status = "PENDING"
         THEN Runs(t, [r EXCEPT !.vdb = @ + 1], "vdb", "none")
         ELSE \E after \in {"run", "vdb"} : RollsBack(t, r, after)
    [] OTHER ->
         IF r.status = "PENDING" THEN Runs(t, r, "run", "none")
         ELSE lt_ack_close(t, r, "vdb_leave")

\* The end of lt_ack_freeze_inner, after lt_wait_checkpoint.
Thawed(r) ==
  IF r.status = "FREEZE" THEN [r EXCEPT !.ack = 0, !.status = "PENDING"] ELSE r

\* The freeze is acknowledged, and who waits for this transaction goes on.
lt_ack_freeze_inner(t, r, next) ==
  LET f == [r EXCEPT !.status = "FREEZE", !.ack = 1, !.wait_end = {}] IN
  IF Pending THEN Sleeps(t, f, "frozen", next) ELSE AfterFreeze(t, Thawed(f), next)
-----------------------------------------------------------------------------
\* The client thread: entering and leaving, statements.

\* lt_threads_inc_inner, then the rest of qi_initial_enter_trx.  The statement that
\* is let in sets lt_timeout.
EntersTrx(t) ==
  LET r == [lt[t] EXCEPT !.threads = @ + 1] IN
  CASE lt[t].threads # 0 -> Gpf("increment")
    [] lt[t].threads = 0 /\ r.status = "PENDING" ->
         Runs(t, [r EXCEPT !.timeout = TRUE], "run", "none")
    [] lt[t].threads = 0 /\ r.status # "PENDING" ->
         \E next \in {"enter", "error"} : RollsBack(t, r, next)

qi_initial_enter_trx(t) ==
  /\ pc[t] = "out" /\ TxnFree
  /\ IF Pending THEN Sleeps(t, lt[t], "enter", "none") ELSE EntersTrx(t)
  /\ UNCHANGED <<owner, cpt, killer>>

\* A row is locked and changed; no mutex.  A thread whose transaction has been
\* rolled back meets CHECK_TRX_DEAD before it gets to a row.
TakeLock(t) ==
  /\ pc[t] = "run" /\ lt[t].status # "DELTA_ROLLED_BACK"
  /\ owner = NoTrx
  /\ owner' = t
  /\ UNCHANGED <<lt, pc, then, waiting_checkpoint, cpt, killer, failed>>

\* lock_wait, lock_check_deadlock and lock_live_deadlocks: only a pending
\* transaction goes to wait, any other is busted.
lock_wait(t) ==
  /\ pc[t] = "run" /\ TxnFree
  /\ lt[t].status # "DELTA_ROLLED_BACK"
  /\ owner \notin {NoTrx, t}
  /\ IF lt[t].status = "PENDING"
     THEN Runs(t, [lt[t] EXCEPT !.lw = @ + 1], "lock", "none")
     ELSE Runs(t, lt[t], "bust", "none")
  /\ UNCHANGED <<owner, cpt, killer>>

\* The end of lock_wait, after ITC_SEM_WAIT; no mutex.
WaitOver(t) ==
  /\ pc[t] = "woken"
  /\ IF lt[t].lw # 0 THEN Gpf("woken")
     ELSE Runs(t, lt[t], IF lt[t].status \in {"PENDING", "FREEZE"} THEN "run" ELSE "bust",
               "none")
  /\ UNCHANGED <<owner, cpt, killer>>

\* CHECK_TRX_DEAD reads the status outside the mutex and calls itc_bust_this_trx,
\* which acknowledges a freeze and throws otherwise.  It does nothing more to a
\* transaction that is rolled back.
CheckTrxDead(t) ==
  /\ pc[t] = "run" /\ ~Atomic
  /\ lt[t].status \notin {"PENDING", "DELTA_ROLLED_BACK"}
  /\ Runs(t, lt[t], IF lt[t].status = "FREEZE" THEN "ack" ELSE "bust", "none")
  /\ UNCHANGED <<owner, cpt, killer>>

\* itc_bust_this_trx throws, called by CHECK_TRX_DEAD, lock_wait or lt_ack_freeze.
itc_bust_this_trx(t) ==
  /\ pc[t] = "bust" /\ TxnFree
  /\ lt_ack_close(t, IF lt[t].status = "PENDING" THEN [lt[t] EXCEPT !.status = "BLOWN_OFF"]
                     ELSE lt[t], "throw")
  /\ UNCHANGED <<owner, cpt, killer>>

\* The status may have changed since it was read.
lt_ack_freeze(t) ==
  /\ pc[t] = "ack" /\ TxnFree
  /\ lt_ack_freeze_inner(t, lt[t], "itc")
  /\ UNCHANGED <<owner, cpt, killer>>

\* qi_check_trx_error and lt_check_error of a frozen transaction; of a killed one
\* they roll back, as lt_rollback does.
qi_check_trx_error(t) ==
  /\ pc[t] = "run" /\ TxnFree
  /\ lt[t].status = "FREEZE"
  /\ lt_ack_freeze_inner(t, lt[t], "qi")
  /\ UNCHANGED <<owner, cpt, killer>>

\* lt_ack_freeze_inner wakes up.  thr_lt is set, so lt_wait_checkpoint_1 does not
\* look again whether a checkpoint is pending.
Thaw(t) ==
  /\ pc[t] = "frozen" /\ t \notin waiting_checkpoint /\ TxnFree
  /\ AfterFreeze(t, Thawed(lt[t]), then[t])
  /\ UNCHANGED <<owner, cpt, killer>>

lt_leave(t) ==
  /\ pc[t] = "run" /\ TxnFree
  /\ CASE lt[t].status = "FREEZE" -> lt_ack_freeze_inner(t, lt[t], "lt_leave")
       [] lt[t].status \in {"BLOWN_OFF", "CLOSING", "COMMITTED"} ->
            lt_ack_close(t, lt[t], "leave")
       [] OTHER -> Leaves(t, lt[t])
  /\ UNCHANGED <<owner, cpt, killer>>

\* vdb_enter_lt_1: the thread goes to an io section.  After a rollback it goes there
\* too if enter_always is set.
vdb_enter_lt(t) ==
  /\ pc[t] = "run" /\ TxnFree
  /\ CASE lt[t].status = "FREEZE" -> lt_ack_freeze_inner(t, lt[t], "vdb_enter")
       [] lt[t].status = "PENDING" ->
            Runs(t, [lt[t] EXCEPT !.vdb = @ + 1], "vdb", "none")
       [] OTHER -> \E next \in {"run", "vdb"} : RollsBack(t, lt[t], next)
  /\ UNCHANGED <<owner, cpt, killer>>

\* Variant: the end of an io section that was frozen is not counted.
VdbLeaveUncounted(t) ==
  LET r == [lt[t] EXCEPT !.vdb = @ - 1] IN
  /\ pc[t] = "vdb" /\ TxnFree
  /\ CASE lt[t].vdb = 0 -> Gpf("vdb")
       [] lt[t].vdb > 0 /\ r.status = "FREEZE" -> lt_ack_freeze_inner(t, lt[t], "vdb_leave")
       [] lt[t].vdb > 0 /\ r.status = "PENDING" -> Runs(t, r, "run", "none")
       [] OTHER -> lt_ack_close(t, r, "vdb_leave")
  /\ UNCHANGED <<owner, cpt, killer>>

vdb_leave_lt(t) ==
  LET r == [lt[t] EXCEPT !.vdb = @ - 1] IN
  /\ pc[t] = "vdb" /\ TxnFree
  /\ CASE lt[t].vdb = 0 -> Gpf("vdb")
       [] lt[t].vdb > 0 /\ r.status = "FREEZE" -> lt_ack_freeze_inner(t, r, "vdb_leave")
       [] lt[t].vdb > 0 /\ r.status = "PENDING" -> Runs(t, r, "run", "none")
       [] OTHER -> lt_ack_close(t, r, "vdb_leave")
  /\ UNCHANGED <<owner, cpt, killer>>
-----------------------------------------------------------------------------
\* The end of a transaction by its own thread.

\* lt_commit up to LEAVE_TXN: within a statement (TRX_CONT), or by lt_close at
\* its end (TRX_CONT_LT_LEAVE).
lt_commit(t) ==
  /\ pc[t] = "run" /\ TxnFree
  /\ \E next \in {"run", "close"} :
       LET r == IF next = "close" THEN [lt[t] EXCEPT !.threads = 1] ELSE lt[t] IN
       IF r.status \in {"BLOWN_OFF", "DELTA_ROLLED_BACK"} THEN RollsBack(t, r, next)
       ELSE Runs(t, [r EXCEPT !.status = "COMMITTED"], "commit", next)
  /\ UNCHANGED <<owner, cpt, killer>>

\* lt_rollback_1 up to LEAVE_TXN, likewise.
lt_rollback(t) ==
  /\ pc[t] = "run" /\ TxnFree
  /\ \E next \in {"run", "close"} :
       RollsBack(t, IF next = "close" THEN [lt[t] EXCEPT !.threads = 1] ELSE lt[t], next)
  /\ UNCHANGED <<owner, cpt, killer>>

\* lt_commit after log_commit, which may have failed.
CommitLogged(t) ==
  /\ pc[t] = "commit" /\ TxnFree
  /\ \/ lt_transact(t, [lt[t] EXCEPT !.ack = @ + 1], then[t])
     \/ RollsBack(t, lt[t], then[t])
  /\ UNCHANGED <<owner, cpt, killer>>

\* lt_rollback_1 after log_cl_final.
RollbackLogged(t) ==
  /\ pc[t] = "rollback" /\ TxnFree
  /\ IF lt[t].status = "DELTA_ROLLED_BACK"
     THEN IF owner = t THEN Gpf("locks") ELSE lt_restart(t, lt[t], then[t])
     ELSE lt_transact(t, [lt[t] EXCEPT !.status = "BLOWN_OFF", !.ack = @ + 1], then[t])
  /\ UNCHANGED <<owner, cpt, killer>>

\* lt_transact of t outside the mutex: who has the lock next.
NextOwner(t) ==
  LET waiting == {u \in Trx : pc[u] = "lock" /\ lt[u].status = "PENDING"} IN
  CASE owner # t -> {owner}
    [] owner = t /\ waiting = {} -> {NoTrx}
    [] owner = t /\ waiting # {} -> waiting

\* Variant: the wait of who is woken stays counted.
ReleasesCounted(t, o) ==
  /\ owner' = o
  /\ UNCHANGED lt
  /\ pc' = [u \in Trx |-> IF u \in {t, o} /\ pc[u] = "lock" THEN "woken"
                          ELSE IF u = t /\ pc[t] = "release" THEN "spin" ELSE pc[u]]

\* The lock goes to o, who is woken if it waits, as is the thread of t.
Releases(t, o) ==
  LET woken == {u \in {t, o} \ {NoTrx} : pc[u] = "lock"} IN
  /\ owner' = o
  /\ lt' = [u \in Trx |-> IF u \in woken THEN [lt[u] EXCEPT !.lw = @ - 1] ELSE lt[u]]
  /\ pc' = [u \in Trx |-> IF u \in woken THEN "woken"
                          ELSE IF u = t /\ pc[t] = "release" THEN "spin" ELSE pc[u]]

Release(t) ==
  /\ pc[t] = "release"
  /\ \E o \in NextOwner(t) : Releases(t, o)
  /\ UNCHANGED <<then, waiting_checkpoint, cpt, killer, failed>>

\* The record once lt_transact is over.
RolledBack(r) ==
  [r EXCEPT !.status = "DELTA_ROLLED_BACK", !.lw = 0, !.ack = 0, !.wait_end = {}]

\* The end of lt_transact, once every thread has acknowledged.
TransactOver(t) ==
  /\ pc[t] = "spin" /\ TxnFree
  /\ lt[t].threads <= lt[t].ack + lt[t].vdb
  /\ IF Pending THEN Sleeps(t, RolledBack(lt[t]), "ended", then[t])
     ELSE AfterEnd(t, RolledBack(lt[t]), then[t])
  /\ UNCHANGED <<owner, cpt, killer>>

\* lt_wait_until_dead of the thread's own transaction returns.
DeadSeen(t) ==
  /\ pc[t] = "dead" /\ "client" \notin lt[t].wait_end /\ TxnFree
  /\ IF Atomic THEN Sleeps(t, lt[t], "ended", then[t]) ELSE AfterEnd(t, lt[t], then[t])
  /\ UNCHANGED <<owner, cpt, killer>>

\* lt_restart after lt_clear, which has run outside the mutex.
Cleared(t, r) ==
  LET p == [r EXCEPT !.status = "PENDING"] IN
  CASE then[t] = "error" -> Leaves(t, p)
    [] then[t] = "enter" -> Runs(t, [p EXCEPT !.timeout = TRUE], "run", "none")
    [] then[t] = "vdb" -> Runs(t, [p EXCEPT !.vdb = @ + 1], "vdb", "none")
    [] then[t] = "close" -> Runs(t, p, "out", "none")
    [] OTHER -> Runs(t, p, "run", "none")

lt_clear(t) ==
  LET r == [lt[t] EXCEPT !.lw = 0, !.ack = 0, !.vdb = 0, !.timeout = FALSE] IN
  /\ pc[t] = "clear" /\ TxnFree
  /\ IF owner = t \/ lt[t].wait_end # {} THEN Gpf("clear")
     ELSE IF Pending THEN Sleeps(t, r, "cleared", then[t]) ELSE Cleared(t, r)
  /\ UNCHANGED <<owner, cpt, killer>>

\* Woken by cpt_over in lt_wait_checkpoint_1: sleep again if a checkpoint is
\* pending, go on otherwise.
CheckpointSeen(t) ==
  /\ pc[t] \in {"enter", "transact", "ended", "restart", "cleared"}
  /\ t \notin waiting_checkpoint /\ TxnFree
  /\ IF Pending THEN Sleeps(t, lt[t], pc[t], then[t])
     ELSE CASE pc[t] = "enter" -> EntersTrx(t)
            [] pc[t] = "transact" -> lt_transact(t, lt[t], then[t])
            [] pc[t] = "ended" -> AfterEnd(t, lt[t], then[t])
            [] pc[t] = "restart" -> Runs(t, [lt[t] EXCEPT !.threads = 1], "clear", then[t])
            [] pc[t] = "cleared" -> Cleared(t, lt[t])
  /\ UNCHANGED <<owner, cpt, killer>>
-----------------------------------------------------------------------------
\* The checkpoint.

checkpointer == <<owner, pc, then, killer>>

\* dbs_checkpoint calls cpt_rollback (LT_KILL_FREEZE).
BeginCheckpoint ==
  /\ cpt = "idle"
  /\ cpt' = "scan"
  /\ UNCHANGED <<checkpointer, lt, waiting_checkpoint, failed>>

\* Variant: a thread in an io section is not frozen.
NotStoppedRunning(r) ==
  CASE r.status = "CLOSING" -> TRUE
    [] r.status \in {"BLOWN_OFF", "COMMITTED"} -> r.threads > 0
    [] r.status = "DELTA_ROLLED_BACK" -> FALSE
    [] r.status \in {"FREEZE", "PENDING"} -> LT_IS_RUNNING(r)

\* The transactions cpt_rollback does something about.
NotStopped(r) ==
  CASE r.status = "CLOSING" -> TRUE
    [] r.status \in {"BLOWN_OFF", "COMMITTED"} -> r.threads > 0
    [] r.status = "FREEZE" -> LT_IS_RUNNING(r)
    [] r.status = "DELTA_ROLLED_BACK" -> FALSE
    [] r.status = "PENDING" -> r.threads > 0 /\ r.lw = 0

\* Variant: what is to be rolled back is not frozen.
FrozenUnlessKilled(r) ==
  CASE r.status = "CLOSING" -> r
    [] r.status \in {"BLOWN_OFF", "COMMITTED"} -> [r EXCEPT !.status = "BLOWN_OFF"]
    [] OTHER -> [r EXCEPT !.status = "FREEZE"]

\* lt_kill_other_trx (LT_KILL_FREEZE): the new status.
Frozen(r) ==
  CASE r.status = "CLOSING" -> r
    [] r.status \in {"BLOWN_OFF", "COMMITTED"} /\ LT_IS_RUNNING(r) ->
         [r EXCEPT !.status = "BLOWN_OFF"]
    [] OTHER -> [r EXCEPT !.status = "FREEZE"]

\* One turn of the loop of cpt_rollback: freeze or kill t, wait until it is dead
\* or has acknowledged if it is running or closing, and start over.
cpt_rollback(t) ==
  LET r == Frozen(lt[t])
      waits == lt[t].status = "CLOSING" \/ LT_IS_RUNNING(lt[t]) IN
  /\ cpt = "scan"
  /\ NotStopped(lt[t])
  /\ IF waits /\ r.threads = 0 THEN failed' = "no thread" /\ UNCHANGED <<lt, cpt>>
     ELSE /\ lt' = [lt EXCEPT ![t] = IF waits THEN [r EXCEPT !.wait_end = @ \cup {"cpt"}] ELSE r]
          /\ cpt' = IF waits THEN "dead" ELSE "scan"
          /\ UNCHANGED failed
  /\ UNCHANGED <<checkpointer, waiting_checkpoint>>

\* Back from lt_wait_until_dead.
CptResumes ==
  /\ cpt = "dead" /\ \A t \in Trx : "cpt" \notin lt[t].wait_end
  /\ cpt' = "scan"
  /\ UNCHANGED <<checkpointer, lt, waiting_checkpoint, failed>>

\* cpt_rollback returns: the checkpoint is atomic, then log_checkpoint is called
\* outside the mutex.
CptAtomic ==
  /\ \/ cpt = "scan" /\ (\A t \in Trx : ~NotStopped(lt[t])) /\ cpt' = "atomic"
     \/ cpt = "atomic" /\ cpt' = "log"
  /\ UNCHANGED <<checkpointer, lt, waiting_checkpoint, failed>>

\* Variant: only what waits frozen is woken.
CptOverFrozenOnly ==
  /\ cpt = "log"
  /\ cpt' = "idle"
  /\ waiting_checkpoint' = {t \in waiting_checkpoint : pc[t] # "frozen"}
  /\ lt' = [t \in Trx |-> IF t \in waiting_checkpoint /\ pc[t] = "frozen"
                          THEN Thawed(lt[t]) ELSE lt[t]]
  /\ UNCHANGED <<checkpointer, failed>>

\* Every thread that waits is woken, and if it waits frozen it is pending again.
cpt_over ==
  /\ cpt = "log"
  /\ cpt' = "idle"
  /\ waiting_checkpoint' = {}
  /\ lt' = [t \in Trx |-> IF t \in waiting_checkpoint /\ pc[t] = "frozen"
                          THEN Thawed(lt[t]) ELSE lt[t]]
  /\ UNCHANGED <<checkpointer, failed>>
-----------------------------------------------------------------------------
\* The killer: who kills transactions from outside.

killed == <<then, waiting_checkpoint, cpt>>

\* the_grim_lock_reaper, lt_killall and the cancel of an http connection kill what
\* is pending, sf_sql_cancel_hook what waits for a lock or is in an io section.
MayKill(t) ==
  LET r == lt[t] IN
  \/ r.status = "PENDING" /\ (r.threads > 0 \/ owner = t \/ r.timeout)
  \/ r.status # "DELTA_ROLLED_BACK" /\ r.threads > 0 /\ r.lw + r.vdb > 0

\* lt_wait_until_dead by the killer.
KillerAwaits(t, r) ==
  IF r.threads = 0 THEN failed' = "no thread" /\ UNCHANGED <<lt, killer>>
  ELSE /\ lt' = [lt EXCEPT ![t] = [r EXCEPT !.wait_end = @ \cup {"killer"}]]
       /\ killer' = [NoKill EXCEPT !.at = "dead", !.trx = t]
       /\ UNCHANGED failed

\* lt_rollback_other and lt_transact by the killer, up to LEAVE_TXN.
KillerTransacts(t, r, alone) ==
  LET at(where) == killer' = [at |-> where, trx |-> t, alone |-> alone] IN
  CASE Atomic -> at("begin") /\ lt' = [lt EXCEPT ![t] = r] /\ UNCHANGED failed
    [] ~Atomic /\ r.threads # r.lw + r.ack + r.vdb ->
         failed' = "counts" /\ UNCHANGED <<lt, killer>>
    [] ~Atomic /\ r.threads = r.lw + r.ack + r.vdb ->
         CASE r.status = "DELTA_ROLLED_BACK" ->
                /\ lt' = [lt EXCEPT ![t] = [r EXCEPT !.ack = 0, !.timeout = FALSE,
                                                  !.threads = IF alone THEN 0 ELSE @]]
                /\ killer' = NoKill /\ UNCHANGED failed
           [] r.status = "CLOSING" -> KillerAwaits(t, [r EXCEPT !.timeout = FALSE])
           [] OTHER -> /\ lt' = [lt EXCEPT ![t] = [r EXCEPT !.status = "CLOSING", !.timeout = FALSE]]
                       /\ at("release") /\ UNCHANGED failed

\* lt_kill_other_trx (LT_KILL_ROLLBACK).
lt_kill_other_trx(t) ==
  LET r == lt[t]
      b == [r EXCEPT !.status = "BLOWN_OFF"] IN
  /\ killer = NoKill /\ TxnFree
  /\ MayKill(t)
  /\ CASE r.status = "CLOSING" -> KillerAwaits(t, r)
       [] r.status # "CLOSING" /\ LT_IS_RUNNING(r) -> KillerAwaits(t, b)
       [] r.status = "FREEZE" /\ ~LT_IS_RUNNING(r) -> UNCHANGED <<lt, killer, failed>>
       [] OTHER -> IF r.threads = 0
                   THEN KillerTransacts(t, [b EXCEPT !.threads = 1, !.ack = 1], TRUE)
                   ELSE KillerTransacts(t, b, FALSE)
  /\ UNCHANGED <<killed, owner, pc>>

\* lt_transact goes on after lt_wait_checkpoint.
KillerBegins ==
  /\ killer.at = "begin" /\ ~Pending
  /\ KillerTransacts(killer.trx, lt[killer.trx], killer.alone)
  /\ UNCHANGED <<killed, owner, pc>>

KillerReleases ==
  /\ killer.at = "release"
  /\ \E o \in NextOwner(killer.trx) : Releases(killer.trx, o)
  /\ killer' = [killer EXCEPT !.at = "spin"]
  /\ UNCHANGED <<killed, failed>>

\* The end of lt_transact and of lt_rollback_other.
KillOver ==
  LET t == killer.trx
      r == RolledBack(lt[t]) IN
  /\ killer.at = "spin" /\ TxnFree
  /\ lt[t].threads <= lt[t].ack + lt[t].vdb
  /\ lt' = [lt EXCEPT ![t] = IF killer.alone THEN [r EXCEPT !.threads = 0] ELSE r]
  /\ killer' = NoKill
  /\ UNCHANGED <<killed, owner, pc, failed>>

\* lt_wait_until_dead returns.
KillSeen ==
  /\ killer.at = "dead" /\ "killer" \notin lt[killer.trx].wait_end /\ TxnFree /\ ~Atomic
  /\ killer' = NoKill
  /\ UNCHANGED <<killed, lt, owner, pc, failed>>
-----------------------------------------------------------------------------
\* What a thread does of its own accord, and what it does because it has to.
Statement(t) == TakeLock(t) \/ lock_wait(t) \/ vdb_enter_lt(t) \/ lt_commit(t) \/ lt_rollback(t)

Continue(t) ==
  \/ WaitOver(t) \/ CheckTrxDead(t) \/ itc_bust_this_trx(t) \/ lt_ack_freeze(t)
  \/ qi_check_trx_error(t) \/ Thaw(t)
  \/ lt_leave(t) \/ vdb_leave_lt(t) \/ CommitLogged(t) \/ RollbackLogged(t)
  \/ Release(t) \/ TransactOver(t) \/ DeadSeen(t) \/ lt_clear(t) \/ CheckpointSeen(t)

Checkpoint == (\E t \in Trx : cpt_rollback(t)) \/ CptResumes \/ CptAtomic \/ cpt_over

KillerStep == KillerBegins \/ KillerReleases \/ KillOver \/ KillSeen

Next ==
  /\ failed = "none"
  /\ \/ \E t \in Trx : qi_initial_enter_trx(t) \/ Statement(t) \/ Continue(t)
     \/ BeginCheckpoint \/ Checkpoint
     \/ (\E t \in Trx : lt_kill_other_trx(t)) \/ KillerStep

Spec == Init /\ [][Next]_vars

\* Threads are scheduled: a statement ends or reaches the next check, and the
\* checkpoint and the killer go on.
Fairness ==
  /\ \A t \in Trx : WF_vars(failed = "none" /\ Continue(t))
  /\ WF_vars(failed = "none" /\ Checkpoint)
  /\ WF_vars(failed = "none" /\ KillerStep)

FairSpec == Spec /\ Fairness
-----------------------------------------------------------------------------
\* Types of the state.  One thread at most is inside a transaction, and it is
\* counted once at most as waiting for a lock, as having acknowledged and as in an
\* io section.
TypeOK ==
  /\ lt \in [Trx -> [status : Status, threads : 0..1, lw : 0..1, ack : 0..1, vdb : 0..1,
                      wait_end : SUBSET {"client", "cpt", "killer"}, timeout : BOOLEAN]]
  /\ owner \in Trx \cup {NoTrx}
  /\ waiting_checkpoint \subseteq Trx
  /\ cpt \in {"idle", "scan", "dead", "atomic", "log"}
  /\ killer.trx \in Trx \cup {NoTrx}

\* Of the GPF_T1 in these functions one alone can end the server: that of
\* lt_threads_inc_inner, when a client sends a statement while lt_rollback_other, which
\* counts a thread of its own, rolls back the transaction that the client left open.
\* Otherwise, however clients, checkpoints and a killer meet, the counts add up in
\* lt_transact, one thread at a time enters and leaves, nobody waits for a transaction
\* with no thread inside, wakes from a lock wait that is still counted, or clears a
\* transaction that has a lock or is waited for.
NoOtherGpf ==
  failed # "none" =>
    failed = "increment" /\ killer.alone /\ pc[killer.trx] \in {"out", "enter"}

\* A thread sleeps in lt_wait_checkpoint_1 only while a checkpoint is pending, whose
\* cpt_over is going to wake it: nobody goes to sleep behind cpt_over's back.
AsleepOnlyPending == waiting_checkpoint # {} => Pending

\* From the time the checkpoint is atomic until it is over, no row is locked, changed
\* or released: every transaction is frozen, waits, is idle or has ended, also in
\* log_checkpoint, when the mutex is free.
CheckpointQuiet == [][Atomic => owner' = owner]_vars

\* A checkpoint has begun while a thread that the last one has thawed is still on its
\* way out of lt_wait_checkpoint_1.
Overtakes == Pending /\ \E t \in Trx : pc[t] = "frozen" /\ t \notin waiting_checkpoint

\* Unless a checkpoint overtakes a thread that the last one has thawed, every checkpoint
\* ends, or the server does: each transaction ends, acknowledges its freeze or goes to
\* wait, and none waits for the checkpoint while the checkpoint waits for it.  A thread
\* that is overtaken thaws in lt_ack_freeze_inner without lt_resume_waiting_end, and the
\* second checkpoint waits for ever if the client leaves its transaction open.
CheckpointEnds == []~Overtakes => (Pending ~> (~Pending \/ failed # "none"))
====
