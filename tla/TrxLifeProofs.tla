---------------------------- MODULE TrxLifeProofs ----------------------------
(***************************************************************************)
(* For every set of transactions, whoever is killed and however close      *)
(* checkpoints follow each other.                                          *)
(*                                                                         *)
(* Nobody sleeps for a checkpoint that is over.  The invariant is          *)
(* inductive as it stands: each of the many paths into                     *)
(* lt_wait_checkpoint_1 tests the flag inside the mutex section in which   *)
(* it goes to sleep, and only cpt_over lowers the flag.                    *)
(*                                                                         *)
(* One GPF_T1 alone is reached, and no row is locked or released while a   *)
(* checkpoint is atomic.  Neither is inductive: IInv says, for each place  *)
(* a thread can be at, what is counted, which status the transaction can   *)
(* have there, and how far a killer can be in lt_transact of it.           *)
(***************************************************************************)
EXTENDS TrxLife, TLAPS

\* A thread goes to sleep for a checkpoint only if one is pending.
Tame == waiting_checkpoint' = waiting_checkpoint \/ Pending

\* A thread that leaves the mutex awake.
LEMMA RunsTame ==
  ASSUME NEW t, NEW r, NEW where, NEW next, Runs(t, r, where, next)
  PROVE  Tame
BY Zenon DEF Runs, Tame

\* A thread that ends the server.
LEMMA GpfTame ==
  ASSUME NEW which, Gpf(which)
  PROVE  Tame
BY Zenon DEF Gpf, Tame

\* An atomic checkpoint is pending.
LEMMA AtomicPending == Atomic => Pending
BY Zenon DEF Atomic, Pending

\* lt_wait_until_dead is another wait.
LEMMA AwaitsEndTame ==
  ASSUME NEW t, NEW r, NEW next, AwaitsEnd(t, r, next)
  PROVE  Tame
BY Zenon, RunsTame, GpfTame DEF AwaitsEnd

\* The start of lt_rollback_1.
LEMMA RollsBackTame ==
  ASSUME NEW t, NEW r, NEW next, RollsBack(t, r, next)
  PROVE  Tame
BY Zenon, RunsTame DEF RollsBack

\* lt_restart waits only while a checkpoint is pending.
LEMMA lt_restartTame ==
  ASSUME NEW t, NEW r, NEW next, lt_restart(t, r, next)
  PROVE  Tame
BY Zenon, RunsTame DEF lt_restart, Tame

\* The end of lt_leave.
LEMMA LeavesTame ==
  ASSUME NEW t, NEW r, Leaves(t, r)
  PROVE  Tame
BY Zenon, RunsTame, GpfTame DEF Leaves

\* What follows an lt_transact.
LEMMA AfterEndTame ==
  ASSUME NEW t, NEW r, NEW next, AfterEnd(t, r, next)
  PROVE  Tame
BY Zenon, RunsTame, RollsBackTame, lt_restartTame, LeavesTame DEF AfterEnd

\* lt_transact waits for an atomic checkpoint only.
LEMMA lt_transactTame ==
  ASSUME NEW t, NEW r, NEW next, lt_transact(t, r, next)
  PROVE  Tame
BY Zenon, RunsTame, GpfTame, AtomicPending, AfterEndTame, AwaitsEndTame DEF lt_transact, Tame

\* lt_ack_close ends the transaction or waits for its end.
LEMMA lt_ack_closeTame ==
  ASSUME NEW t, NEW r, NEW next, lt_ack_close(t, r, next)
  PROVE  Tame
BY Zenon, AwaitsEndTame, lt_transactTame, AfterEndTame DEF lt_ack_close

\* What follows an acknowledged freeze.
LEMMA AfterFreezeTame ==
  ASSUME NEW t, NEW r, NEW next, AfterFreeze(t, r, next)
  PROVE  Tame
BY Zenon, RunsTame, LeavesTame, RollsBackTame, lt_ack_closeTame DEF AfterFreeze

\* A freeze is slept over only while the checkpoint is pending.
LEMMA lt_ack_freeze_innerTame ==
  ASSUME NEW t, NEW r, NEW next, lt_ack_freeze_inner(t, r, next)
  PROVE  Tame
BY Zenon, AfterFreezeTame DEF lt_ack_freeze_inner, Tame

\* Entering a transaction, once no checkpoint is pending.
LEMMA EntersTrxTame ==
  ASSUME NEW t, EntersTrx(t)
  PROVE  Tame
BY Zenon, RunsTame, GpfTame, RollsBackTame DEF EntersTrx

\* The end of lt_restart.
LEMMA ClearedTame ==
  ASSUME NEW t, NEW r, Cleared(t, r)
  PROVE  Tame
BY Zenon, RunsTame, LeavesTame DEF Cleared

\* Whatever the thread of a client does, it sleeps for a pending checkpoint only,
\* and leaves the flag as it is.
LEMMA ClientTame ==
  ASSUME NEW t \in Trx, qi_initial_enter_trx(t) \/ Statement(t) \/ Continue(t)
  PROVE  Tame /\ UNCHANGED cpt
<1>1. CASE qi_initial_enter_trx(t)
  BY Zenon, <1>1, EntersTrxTame DEF qi_initial_enter_trx, Tame
<1>2. CASE TakeLock(t)
  BY Zenon, <1>2 DEF TakeLock, Tame
<1>3. CASE lock_wait(t)
  BY Zenon, <1>3, RunsTame DEF lock_wait
<1>4. CASE vdb_enter_lt(t)
  BY Zenon, <1>4, lt_ack_freeze_innerTame, RunsTame, RollsBackTame DEF vdb_enter_lt
<1>5. CASE lt_commit(t)
  BY Zenon, <1>5, RollsBackTame, RunsTame DEF lt_commit
<1>6. CASE lt_rollback(t)
  BY Zenon, <1>6, RollsBackTame DEF lt_rollback
<1>7. CASE WaitOver(t)
  BY Zenon, <1>7, GpfTame, RunsTame DEF WaitOver
<1>8. CASE CheckTrxDead(t)
  BY Zenon, <1>8, RunsTame DEF CheckTrxDead
<1>9. CASE itc_bust_this_trx(t)
  BY Zenon, <1>9, lt_ack_closeTame DEF itc_bust_this_trx
<1>10. CASE lt_ack_freeze(t)
  BY Zenon, <1>10, lt_ack_freeze_innerTame DEF lt_ack_freeze
<1>11. CASE qi_check_trx_error(t)
  BY Zenon, <1>11, lt_ack_freeze_innerTame DEF qi_check_trx_error
<1>12. CASE Thaw(t)
  BY Zenon, <1>12, AfterFreezeTame DEF Thaw
<1>13. CASE lt_leave(t)
  BY Zenon, <1>13, lt_ack_freeze_innerTame, lt_ack_closeTame, LeavesTame DEF lt_leave
<1>14. CASE vdb_leave_lt(t)
  BY Zenon, <1>14, GpfTame, lt_ack_freeze_innerTame, RunsTame, lt_ack_closeTame DEF vdb_leave_lt
<1>15. CASE CommitLogged(t)
  BY Zenon, <1>15, lt_transactTame, RollsBackTame DEF CommitLogged
<1>16. CASE RollbackLogged(t)
  BY Zenon, <1>16, GpfTame, lt_restartTame, lt_transactTame DEF RollbackLogged
<1>17. CASE Release(t)
  BY Zenon, <1>17 DEF Release, Tame
<1>18. CASE TransactOver(t)
  BY Zenon, <1>18, AfterEndTame DEF TransactOver, Tame
<1>19. CASE DeadSeen(t)
  BY Zenon, <1>19, AtomicPending, AfterEndTame DEF DeadSeen, Tame
<1>20. CASE lt_clear(t)
  BY Zenon, <1>20, GpfTame, ClearedTame DEF lt_clear, Tame
<1>21. CASE CheckpointSeen(t)
  BY Zenon, <1>21, EntersTrxTame, lt_transactTame, AfterEndTame, RunsTame, ClearedTame DEF CheckpointSeen, Tame
<1>22. QED
  BY Zenon, <1>1, <1>2, <1>3, <1>4, <1>5, <1>6, <1>7, <1>8, <1>9, <1>10, <1>11, <1>12, <1>13, <1>14, <1>15, <1>16, <1>17, <1>18, <1>19, <1>20, <1>21 DEF Statement, Continue

\* The checkpoint lowers its flag in cpt_over only, with nobody left asleep.
LEMMA CheckpointWakes ==
  ASSUME AsleepOnlyPending, BeginCheckpoint \/ Checkpoint
  PROVE  AsleepOnlyPending'
<1>1. CASE BeginCheckpoint
  BY Zenon, <1>1 DEF BeginCheckpoint, AsleepOnlyPending, Pending
<1>2. ASSUME NEW t \in Trx, cpt_rollback(t) PROVE AsleepOnlyPending'
  <2>1. cpt' \in {"scan", "dead"}
    BY Zenon, <1>2 DEF cpt_rollback
  <2>2. QED
    BY Zenon, <2>1 DEF AsleepOnlyPending, Pending
<1>3. CASE CptResumes
  BY Zenon, <1>3 DEF CptResumes, AsleepOnlyPending, Pending
<1>4. CASE CptAtomic
  BY Zenon, <1>4 DEF CptAtomic, AsleepOnlyPending, Pending
<1>5. CASE cpt_over
  BY Zenon, <1>5 DEF cpt_over, AsleepOnlyPending
<1>6. QED
  BY Zenon, <1>1, <1>2, <1>3, <1>4, <1>5 DEF Checkpoint

\* The killer neither sleeps in wi_waiting_checkpoint nor touches the flag.
LEMMA KillerApart ==
  ASSUME (\E t \in Trx : lt_kill_other_trx(t)) \/ KillerStep
  PROVE  UNCHANGED <<waiting_checkpoint, cpt>>
<1>1. UNCHANGED killed
  BY Zenon DEF lt_kill_other_trx, KillerStep, KillerBegins, KillerReleases, KillOver, KillSeen
<1>2. QED
  BY Zenon, <1>1 DEF killed

\* Every step keeps the invariant.
LEMMA NextAsleep == AsleepOnlyPending /\ [Next]_vars => AsleepOnlyPending'
<1> SUFFICES ASSUME AsleepOnlyPending, [Next]_vars PROVE AsleepOnlyPending'
  OBVIOUS
<1>1. CASE UNCHANGED vars
  BY Zenon, <1>1 DEF vars, AsleepOnlyPending, Pending
<1>2. ASSUME NEW t \in Trx, qi_initial_enter_trx(t) \/ Statement(t) \/ Continue(t)
      PROVE  AsleepOnlyPending'
  <2>1. Tame /\ UNCHANGED cpt
    BY Zenon, <1>2, ClientTame
  <2>2. QED
    BY Zenon, <2>1 DEF Tame, AsleepOnlyPending, Pending
<1>3. CASE BeginCheckpoint \/ Checkpoint
  BY Zenon, <1>3, CheckpointWakes
<1>4. CASE (\E t \in Trx : lt_kill_other_trx(t)) \/ KillerStep
  <2>1. UNCHANGED <<waiting_checkpoint, cpt>>
    BY Zenon, <1>4, KillerApart
  <2>2. QED
    BY Zenon, <2>1 DEF AsleepOnlyPending, Pending
<1>5. QED
  BY Zenon, <1>1, <1>2, <1>3, <1>4 DEF Next

\* lt_wait_checkpoint_1 and cpt_over lose no wakeup: a thread in
\* wi_waiting_checkpoint has a cpt_over to come, from whichever of the paths that
\* enter, end, restart or freeze a transaction it went to sleep.
THEOREM AsleepCorrect == Spec => []AsleepOnlyPending
<1>1. Init => AsleepOnlyPending
  BY Zenon DEF Init, AsleepOnlyPending
<1>2. QED
  BY <1>1, NextAsleep, PTL DEF Spec
-----------------------------------------------------------------------------
\* Which GPF_T1: where the thread of a transaction is fixes what is counted, which
\* status it may have, and how far a killer may be with it.

\* What lt_status, the counts and lt_wait_end may be.
Records ==
  [status : Status, threads : 0..1, lw : 0..1, ack : 0..1, vdb : 0..1,
   wait_end : SUBSET {"client", "cpt", "killer"}, timeout : BOOLEAN]

Counts(r, threads, lw, ack, vdb) ==
  r.threads = threads /\ r.lw = lw /\ r.ack = ack /\ r.vdb = vdb

Idle(r) == Counts(r, 0, 0, 0, 0)
Inside(r) == Counts(r, 1, 0, 0, 0)
Acked(r) == Counts(r, 1, 0, 1, 0)
InWait(r) == Counts(r, 1, 1, 0, 0)
InVdb(r) == Counts(r, 1, 0, 0, 1)

Places == {"out", "enter", "run", "ack", "bust", "woken", "commit", "rollback",
           "frozen", "lock", "transact", "release", "spin", "dead", "ended",
           "clear", "cleared", "restart", "vdb"}

\* The killer k does nothing to t, but may wait for its end.
Left(t, k) == k.trx = t => k.at = "dead"

\* The killer k is in lt_transact of t, whose thread it found inside.
Ends(t, k, ats) == k.trx = t /\ k.at \in ats /\ ~k.alone

\* The killer k is in lt_transact of t, which it found idle.
EndsIdle(t, k, ats) == k.trx = t /\ k.at \in ats /\ k.alone

\* The checkpoint c is atomic.
Stops(c) == c \in {"atomic", "log"}

\* The transaction t, with its thread at w, then to do n, and its record r, where z
\* sleep, o has the lock, and c and k are where the checkpoint and the killer are.
Fits(t, w, n, r, z, o, c, k) ==
  /\ r \in Records
  /\ w \in Places
  /\ r.status = "CLOSING" => ~Stops(c)
  /\ r.status = "DELTA_ROLLED_BACK" => o # t /\ r.wait_end = {}
  /\ w \in {"out", "enter"} =>
       \/ Idle(r) /\ Left(t, k) /\ r.status \in {"PENDING", "DELTA_ROLLED_BACK", "BLOWN_OFF"}
       \/ Acked(r) /\ EndsIdle(t, k, {"begin"}) /\ r.status \in {"BLOWN_OFF", "FREEZE"}
       \/ Acked(r) /\ EndsIdle(t, k, {"release", "spin"}) /\ r.status = "CLOSING"
  /\ w = "run" =>
       /\ Inside(r) /\ Left(t, k)
       /\ r.status \in {"PENDING", "FREEZE", "BLOWN_OFF", "DELTA_ROLLED_BACK"}
       /\ Stops(c) => r.status = "DELTA_ROLLED_BACK"
  /\ w \in {"ack", "bust", "woken"} =>
       /\ Inside(r) /\ ~Stops(c)
       /\ \/ Left(t, k) /\ r.status \in {"PENDING", "FREEZE", "BLOWN_OFF"}
          \/ Ends(t, k, {"spin"}) /\ r.status = "CLOSING" /\ w # "ack"
  /\ w = "commit" => Inside(r) /\ Left(t, k) /\ r.status \in {"COMMITTED", "BLOWN_OFF"}
  /\ w = "rollback" => Inside(r) /\ Left(t, k) /\ r.status = "BLOWN_OFF"
  /\ w = "frozen" =>
       /\ Left(t, k)
       /\ t \in z => Acked(r) /\ r.status = "FREEZE"
       /\ t \notin z => Inside(r) /\ ~Stops(c) /\ r.status \in {"PENDING", "FREEZE", "BLOWN_OFF"}
  /\ w = "lock" =>
       /\ InWait(r) /\ o # t
       /\ \/ Left(t, k) /\ r.status = "PENDING"
          \/ Ends(t, k, {"begin"}) /\ r.status \in {"BLOWN_OFF", "FREEZE"}
          \/ Ends(t, k, {"release"}) /\ r.status = "CLOSING"
  /\ w = "transact" =>
       Acked(r) /\ Left(t, k) /\ r.status \in {"BLOWN_OFF", "FREEZE", "COMMITTED"}
  /\ w \in {"release", "spin"} =>
       Acked(r) /\ Left(t, k) /\ r.status = "CLOSING" /\ (w = "spin" => o # t)
  /\ w = "dead" =>
       \/ Acked(r) /\ Ends(t, k, {"release", "spin"}) /\ r.status = "CLOSING" /\ "client" \in r.wait_end
       \/ Inside(r) /\ Left(t, k) /\ r.status = "DELTA_ROLLED_BACK"
  /\ w = "ended" => Inside(r) /\ Left(t, k) /\ r.status = "DELTA_ROLLED_BACK"
  /\ w \in {"clear", "cleared"} =>
       /\ r.status = "DELTA_ROLLED_BACK" /\ Left(t, k)
       /\ n = "close" => Idle(r)
       /\ n # "close" => Inside(r)
  /\ w = "restart" => Idle(r) /\ Left(t, k) /\ r.status = "DELTA_ROLLED_BACK" /\ n # "close"
  /\ w = "vdb" =>
       /\ InVdb(r)
       /\ \/ /\ Left(t, k) /\ r.status \in {"PENDING", "FREEZE", "DELTA_ROLLED_BACK"}
             /\ Stops(c) => r.status # "PENDING"
          \/ Ends(t, k, {"release", "spin"}) /\ r.status = "CLOSING"

\* Once the killer has released the lock its transaction has it no more.
KillerFits ==
  /\ \/ killer = NoKill
     \/ killer \in [at : {"begin", "release", "spin", "dead"}, trx : Trx, alone : BOOLEAN]
  /\ killer.at = "spin" => owner # killer.trx

FitsNow(t) == Fits(t, pc[t], then[t], lt[t], waiting_checkpoint, owner, cpt, killer)

Table ==
  /\ lt = [t \in Trx |-> lt[t]] /\ pc = [t \in Trx |-> pc[t]] /\ then = [t \in Trx |-> then[t]]
  /\ owner \in Trx \cup {NoTrx}
  /\ waiting_checkpoint \subseteq Trx
  /\ cpt \in {"idle", "scan", "dead", "atomic", "log"}
  /\ KillerFits
  /\ \A t \in Trx : FitsNow(t)

\* The server is up.
Well == Table /\ failed = "none"

IInv == Table /\ NoOtherGpf

\* The record with another status.
LEMMA StatusSet ==
  ASSUME NEW r \in Records, NEW s \in Status
  PROVE  LET q == [r EXCEPT !.status = s] IN
         /\ q \in Records /\ q.status = s /\ q.wait_end = r.wait_end
         /\ q.threads = r.threads /\ q.lw = r.lw /\ q.ack = r.ack /\ q.vdb = r.vdb
BY Zenon DEF Records

\* The record with lt_timeout set or zeroed.
LEMMA TimeoutSet ==
  ASSUME NEW r \in Records, NEW b \in BOOLEAN
  PROVE  LET q == [r EXCEPT !.timeout = b] IN
         /\ q \in Records /\ q.status = r.status /\ q.wait_end = r.wait_end
         /\ Inside(r) => Inside(q)
BY Zenon DEF Records, Inside, Counts

\* The record at the start of lt_transact.
LEMMA ClosingSet ==
  ASSUME NEW r \in Records
  PROVE  LET q == [r EXCEPT !.status = "CLOSING", !.timeout = FALSE] IN
         /\ q \in Records /\ q.status = "CLOSING" /\ q.wait_end = r.wait_end
         /\ q.threads = r.threads /\ q.lw = r.lw /\ q.ack = r.ack /\ q.vdb = r.vdb
<1>1. "CLOSING" \in Status /\ FALSE \in BOOLEAN
  BY Zenon DEF Status
<1>2. QED
  BY Zenon, <1>1 DEF Records

\* The record of an idle transaction for which lt_rollback_other counts a thread.
LEMMA IdleCounted ==
  ASSUME NEW r \in Records, Idle(r)
  PROVE  LET q == [[r EXCEPT !.status = "BLOWN_OFF"] EXCEPT !.threads = 1, !.ack = 1] IN
         q \in Records /\ q.status = "BLOWN_OFF" /\ Acked(q)
<1>1. 1 \in 0..1 /\ "BLOWN_OFF" \in Status
  BY DEF Status
<1>2. QED
  BY Zenon, <1>1 DEF Records, Idle, Acked, Counts

\* The record of a thread that acknowledges.
LEMMA AckCounted ==
  ASSUME NEW r \in Records, Inside(r)
  PROVE  LET q == [r EXCEPT !.ack = @ + 1] IN
         q \in Records /\ q.status = r.status /\ q.wait_end = r.wait_end /\ Acked(q)
BY DEF Records, Inside, Acked, Counts

\* The record of a thread that rolls back.
LEMMA RollbackCounted ==
  ASSUME NEW r \in Records, Inside(r)
  PROVE  LET q == [r EXCEPT !.status = "BLOWN_OFF", !.ack = @ + 1] IN
         q \in Records /\ q.status = "BLOWN_OFF" /\ Acked(q)
<1>1. r.ack + 1 = 1
  BY DEF Inside, Counts
<1>2. QED
  BY Zenon, <1>1 DEF Records, Inside, Acked, Counts, Status

\* The record of a transaction entered or left, with nothing else counted.
LEMMA ThreadsSet ==
  ASSUME NEW r \in Records, Idle(r) \/ Inside(r), NEW n \in 0..1
  PROVE  LET q == [r EXCEPT !.threads = n] IN
         /\ q \in Records /\ q.status = r.status /\ q.wait_end = r.wait_end
         /\ n = 0 => Idle(q)
         /\ n = 1 => Inside(q)
BY Zenon DEF Records, Idle, Inside, Counts

\* The record of a transaction that is entered.
LEMMA ThreadCounted ==
  ASSUME NEW r \in Records, Idle(r)
  PROVE  LET q == [r EXCEPT !.threads = @ + 1] IN
         q \in Records /\ q.status = r.status /\ q.wait_end = r.wait_end /\ Inside(q)
BY DEF Records, Idle, Inside, Counts

\* The record of a transaction that somebody waits for.
LEMMA EndAwaited ==
  ASSUME NEW r \in Records, NEW x \in {"client", "cpt", "killer"}
  PROVE  LET q == [r EXCEPT !.wait_end = @ \cup {x}] IN
         /\ q \in Records /\ q.status = r.status /\ x \in q.wait_end /\ r.wait_end \subseteq q.wait_end
         /\ q.threads = r.threads /\ q.lw = r.lw /\ q.ack = r.ack /\ q.vdb = r.vdb
BY Zenon DEF Records

\* The record in lt_ack_freeze_inner.
LEMMA FreezeAcked ==
  ASSUME NEW r \in Records, Inside(r)
  PROVE  LET q == [r EXCEPT !.status = "FREEZE", !.ack = 1, !.wait_end = {}] IN
         q \in Records /\ q.status = "FREEZE" /\ Acked(q)
BY Zenon DEF Records, Inside, Acked, Counts, Status

\* The record once the freeze is over.
LEMMA ThawedInside ==
  ASSUME NEW r \in Records, \/ Acked(r) /\ r.status = "FREEZE"
                            \/ Inside(r) /\ r.status \in {"PENDING", "FREEZE", "BLOWN_OFF"}
  PROVE  Thawed(r) \in Records /\ Inside(Thawed(r)) /\ Thawed(r).status \in {"PENDING", "BLOWN_OFF"}
BY Zenon DEF Thawed, Records, Inside, Acked, Counts, Status

\* The record of a thread that goes to an io section.
LEMMA VdbEntered ==
  ASSUME NEW r \in Records, Inside(r)
  PROVE  LET q == [r EXCEPT !.vdb = @ + 1] IN
         q \in Records /\ q.status = r.status /\ q.wait_end = r.wait_end /\ InVdb(q)
BY DEF Records, Inside, InVdb, Counts

\* The record of a thread that comes back from an io section.
LEMMA VdbLeft ==
  ASSUME NEW r \in Records, InVdb(r)
  PROVE  LET q == [r EXCEPT !.vdb = @ - 1] IN
         q \in Records /\ q.status = r.status /\ q.wait_end = r.wait_end /\ Inside(q)
BY DEF Records, Inside, InVdb, Counts

\* The record of a thread that goes to wait for a lock.
LEMMA WaitCounted ==
  ASSUME NEW r \in Records, Inside(r)
  PROVE  LET q == [r EXCEPT !.lw = @ + 1] IN
         q \in Records /\ q.status = r.status /\ q.wait_end = r.wait_end /\ InWait(q)
BY DEF Records, Inside, InWait, Counts

\* The record of a thread woken from its lock wait.
LEMMA WaitUncounted ==
  ASSUME NEW r \in Records, InWait(r)
  PROVE  LET q == [r EXCEPT !.lw = @ - 1] IN
         q \in Records /\ q.status = r.status /\ q.wait_end = r.wait_end /\ Inside(q)
BY DEF Records, Inside, InWait, Counts

\* The record after lt_transact: an io section stays counted.
LEMMA EndedRecord ==
  ASSUME NEW r \in Records, Acked(r) \/ InVdb(r)
  PROVE  /\ RolledBack(r) \in Records /\ RolledBack(r).status = "DELTA_ROLLED_BACK"
         /\ RolledBack(r).wait_end = {}
         /\ Acked(r) => Inside(RolledBack(r))
         /\ InVdb(r) => InVdb(RolledBack(r))
BY Zenon DEF RolledBack, Records, Inside, Acked, InVdb, Counts, Status

\* The record after lt_clear.
LEMMA ClearedRecord ==
  ASSUME NEW r \in Records, Idle(r) \/ Inside(r)
  PROVE  LET q == [r EXCEPT !.lw = 0, !.ack = 0, !.vdb = 0, !.timeout = FALSE] IN
         /\ q \in Records /\ q.status = r.status /\ q.wait_end = r.wait_end
         /\ Idle(r) => Idle(q)
         /\ Inside(r) => Inside(q)
BY Zenon DEF Records, Idle, Inside, Counts

\* The thread of t goes on to where the invariant has it.
Moves(t) ==
  \E w, n, r :
    /\ Goes(t, r, w, n)
    /\ waiting_checkpoint' \in {waiting_checkpoint, waiting_checkpoint \cup {t}}
    /\ UNCHANGED failed
    /\ Fits(t, w, n, r, waiting_checkpoint', owner, cpt, killer)

FitsAwake(t, w, n, r) == Fits(t, w, n, r, waiting_checkpoint, owner, cpt, killer)
FitsAsleep(t, w, n, r) == Fits(t, w, n, r, waiting_checkpoint \cup {t}, owner, cpt, killer)

\* A thread that leaves the mutex awake.
LEMMA RunsMoves ==
  ASSUME NEW t, NEW r, NEW w, NEW n, Runs(t, r, w, n), FitsAwake(t, w, n, r)
  PROVE  Moves(t)
BY Zenon DEF Runs, Moves, FitsAwake

\* A thread that goes to sleep for the checkpoint.
LEMMA SleepsMoves ==
  ASSUME NEW t, NEW r, NEW w, NEW n, Sleeps(t, r, w, n), FitsAsleep(t, w, n, r)
  PROVE  Moves(t)
BY Zenon DEF Sleeps, Moves, FitsAsleep

\* lt_wait_until_dead of a transaction that the killer ends.
LEMMA AwaitsEndMoves ==
  ASSUME NEW t, NEW r \in Records, NEW n, AwaitsEnd(t, r, n), ~Atomic,
         Acked(r), r.status = "CLOSING", Ends(t, killer, {"release", "spin"})
  PROVE  Moves(t)
<1> DEFINE q == [r EXCEPT !.wait_end = @ \cup {"client"}]
<1>1. Runs(t, q, "dead", n)
  BY DEF AwaitsEnd, Acked, Counts
<1>2. q \in Records /\ q.status = "CLOSING" /\ "client" \in q.wait_end /\ Acked(q)
  BY Zenon, EndAwaited DEF Acked, Counts
<1>3. FitsAwake(t, "dead", n, q)
  BY Zenon, <1>2 DEF FitsAwake, Fits, Places, Atomic, Stops
<1>4. QED
  BY Zenon, <1>1, <1>3, RunsMoves

\* lt_rollback_1 by the only thread inside.
LEMMA RollsBackMoves ==
  ASSUME NEW t, NEW r \in Records, NEW n, RollsBack(t, r, n), Inside(r), Left(t, killer)
  PROVE  Moves(t)
<1> DEFINE q == [r EXCEPT !.status = "BLOWN_OFF"]
<1>1. q \in Records /\ q.status = "BLOWN_OFF" /\ Inside(q)
  BY Zenon, StatusSet DEF Inside, Counts, Status
<1>2. FitsAwake(t, "rollback", n, q)
  BY Zenon, <1>1 DEF FitsAwake, Fits, Places
<1>3. QED
  BY Zenon, <1>2, RunsMoves DEF RollsBack

\* A transaction that has ended: its one thread is inside, nothing else is counted,
\* it has no lock and nobody waits for it.
Over(t, r) ==
  /\ r \in Records /\ Inside(r) /\ r.status = "DELTA_ROLLED_BACK" /\ r.wait_end = {}
  /\ owner # t /\ Left(t, killer)

\* lt_restart of a transaction that has ended.
LEMMA lt_restartMoves ==
  ASSUME NEW t, NEW r, NEW n, lt_restart(t, r, n), Over(t, r)
  PROVE  Moves(t)
<1> DEFINE q(x) == [r EXCEPT !.threads = x]
<1>1. /\ q(0) \in Records /\ q(0).status = "DELTA_ROLLED_BACK" /\ q(0).wait_end = {} /\ Idle(q(0))
      /\ q(1) \in Records /\ q(1).status = "DELTA_ROLLED_BACK" /\ q(1).wait_end = {} /\ Inside(q(1))
  BY ThreadsSet DEF Over
<1>2. CASE n = "close"
  <2>1. FitsAwake(t, "clear", n, q(0))
    BY Zenon, <1>1, <1>2 DEF FitsAwake, Fits, Places, Over
  <2>2. QED
    BY Zenon, <1>2, <2>1, RunsMoves DEF lt_restart
<1>3. CASE n # "close" /\ Pending
  <2>1. FitsAsleep(t, "restart", n, q(0))
    BY Zenon, <1>1, <1>3 DEF FitsAsleep, Fits, Places, Over
  <2>2. QED
    BY Zenon, <1>3, <2>1, SleepsMoves DEF lt_restart
<1>4. CASE n # "close" /\ ~Pending
  <2>1. FitsAwake(t, "clear", n, q(1))
    BY Zenon, <1>1, <1>4 DEF FitsAwake, Fits, Places, Over
  <2>2. QED
    BY Zenon, <1>4, <2>1, RunsMoves DEF lt_restart
<1>5. QED
  BY Zenon, <1>2, <1>3, <1>4

\* The end of lt_leave, by the only thread inside.
LEMMA LeavesMoves ==
  ASSUME NEW t, NEW r \in Records, Leaves(t, r), Inside(r), Left(t, killer),
         r.status \in {"PENDING", "BLOWN_OFF", "DELTA_ROLLED_BACK"},
         r.status = "DELTA_ROLLED_BACK" => owner # t /\ r.wait_end = {}
  PROVE  Moves(t)
<1> DEFINE q == [r EXCEPT !.threads = 0]
<1>1. q \in Records /\ q.status = r.status /\ q.wait_end = r.wait_end /\ Idle(q)
  <2>1. 0 \in 0..1
    OBVIOUS
  <2>2. QED
    BY Zenon, <2>1, ThreadsSet
<1>2. FitsAwake(t, "out", "none", q)
  BY Zenon, <1>1 DEF FitsAwake, Fits, Places
<1>3. Runs(t, q, "out", "none")
  BY Zenon DEF Leaves, Inside, Counts
<1>4. QED
  BY Zenon, <1>2, <1>3, RunsMoves

\* What follows an lt_transact, once the transaction has ended.
LEMMA AfterEndMoves ==
  ASSUME NEW t, NEW r, NEW n, AfterEnd(t, r, n), Over(t, r)
  PROVE  Moves(t)
<1>1. CASE n = "leave"
  BY Zenon, <1>1, LeavesMoves DEF AfterEnd, Over
<1>2. CASE n = "throw"
  <2>1. FitsAwake(t, "run", "none", r)
    BY Zenon DEF FitsAwake, Fits, Places, Over
  <2>2. QED
    BY Zenon, <1>2, <2>1, RunsMoves DEF AfterEnd
<1>3. CASE n = "vdb_leave"
  BY Zenon, <1>3, RollsBackMoves DEF AfterEnd, Over
<1>4. CASE n \notin {"leave", "throw", "vdb_leave"}
  BY Zenon, <1>4, lt_restartMoves DEF AfterEnd
<1>5. QED
  BY Zenon, <1>1, <1>2, <1>3, <1>4

\* lt_transact by the only thread, which has acknowledged.
LEMMA lt_transactMoves ==
  ASSUME NEW t, NEW r \in Records, NEW n, lt_transact(t, r, n), Acked(r), Left(t, killer),
         r.status \in {"BLOWN_OFF", "FREEZE", "COMMITTED"}
  PROVE  Moves(t)
<1> DEFINE q == [r EXCEPT !.status = "CLOSING", !.timeout = FALSE]
<1>1. r.threads = r.lw + r.ack + r.vdb
  BY DEF Acked, Counts
<1>2. CASE Atomic
  <2>1. FitsAsleep(t, "transact", n, r)
    BY Zenon DEF FitsAsleep, Fits, Places
  <2>2. QED
    BY Zenon, <1>2, <2>1, SleepsMoves DEF lt_transact
<1>3. CASE ~Atomic
  <2>1. q \in Records /\ q.status = "CLOSING" /\ Acked(q)
    BY Zenon, ClosingSet DEF Acked, Counts
  <2>2. FitsAwake(t, "release", n, q)
    BY Zenon, <1>3, <2>1 DEF FitsAwake, Fits, Places, Atomic, Stops
  <2>3. r.status # "DELTA_ROLLED_BACK" /\ r.status # "CLOSING"
    OBVIOUS
  <2>4. Runs(t, q, "release", n)
    BY Zenon, <1>1, <1>3, <2>3 DEF lt_transact
  <2>5. QED
    BY Zenon, <2>2, <2>4, RunsMoves
<1>4. QED
  BY Zenon, <1>2, <1>3

\* lt_ack_close, by the only thread: the killer is ending the transaction, or it has
\* ended, or the thread ends it now.
LEMMA lt_ack_closeMoves ==
  ASSUME NEW t, NEW r \in Records, NEW n, lt_ack_close(t, r, n), Inside(r),
         \/ r.status = "CLOSING" /\ ~Atomic /\ Ends(t, killer, {"release", "spin"})
         \/ r.status \in {"BLOWN_OFF", "FREEZE"} /\ Left(t, killer)
         \/ Over(t, r) 
  PROVE  Moves(t)
<1> DEFINE q == [r EXCEPT !.ack = @ + 1]
<1>1. q \in Records /\ q.status = r.status /\ Acked(q)
  BY Zenon, AckCounted
<1>2. CASE r.status = "CLOSING"
  <2>1. ~Atomic /\ Ends(t, killer, {"release", "spin"})
    BY Zenon, <1>2 DEF Over
  <2>2. AwaitsEnd(t, q, n)
    BY Zenon, <1>2 DEF lt_ack_close
  <2>3. QED
    BY Zenon, <1>1, <1>2, <2>1, <2>2, AwaitsEndMoves
<1>3. CASE r.status \in {"BLOWN_OFF", "FREEZE"}
  <2>1. ~(r.threads - (r.lw + r.ack) > 1)
    BY DEF Inside, Counts
  <2>2. Left(t, killer)
    BY Zenon, <1>3 DEF Over
  <2>3. r.status \notin {"COMMITTED", "CLOSING"}
    BY Zenon, <1>3
  <2>4. lt_transact(t, q, n)
    BY Zenon, <1>3, <2>1, <2>3 DEF lt_ack_close
  <2>5. q.status \in {"BLOWN_OFF", "FREEZE", "COMMITTED"}
    BY Zenon, <1>1, <1>3
  <2>6. QED
    BY Zenon, <1>1, <2>2, <2>4, <2>5, lt_transactMoves
<1>4. CASE Over(t, r)
  <2>1. r.status \notin {"COMMITTED", "CLOSING"} /\ r.status \notin {"BLOWN_OFF", "FREEZE"}
    BY Zenon, <1>4 DEF Over
  <2>2. AfterEnd(t, r, n)
    BY Zenon, <2>1 DEF lt_ack_close
  <2>3. QED
    BY Zenon, <1>4, <2>2, AfterEndMoves
<1>5. QED
  BY Zenon, <1>2, <1>3, <1>4

\* What follows an acknowledged freeze, while no checkpoint is atomic.
LEMMA AfterFreezeMoves ==
  ASSUME NEW t, NEW r \in Records, NEW n, AfterFreeze(t, r, n), Inside(r), ~Atomic,
         Left(t, killer), r.status \in {"PENDING", "BLOWN_OFF"}
  PROVE  Moves(t)
<1>1. CASE n = "itc"
  <2> DEFINE w == IF r.status = "PENDING" THEN "run" ELSE "bust"
  <2>1. FitsAwake(t, w, "none", r)
    BY Zenon DEF FitsAwake, Fits, Places, Atomic, Stops
  <2>2. Runs(t, r, w, "none")
    BY Zenon, <1>1 DEF AfterFreeze
  <2>3. QED
    BY Zenon, <2>1, <2>2, RunsMoves
<1>2. CASE n = "qi"
  <2> DEFINE q == [r EXCEPT !.status = "PENDING"]
  <2>1. q \in Records /\ q.status = "PENDING" /\ Inside(q)
    BY Zenon, StatusSet DEF Inside, Counts, Status
  <2>2. FitsAwake(t, "run", "none", q)
    BY Zenon, <2>1 DEF FitsAwake, Fits, Places, Atomic, Stops
  <2>3. Runs(t, q, "run", "none")
    BY Zenon, <1>2 DEF AfterFreeze
  <2>4. QED
    BY Zenon, <2>2, <2>3, RunsMoves
<1>3. CASE n = "lt_leave"
  <2>1. Leaves(t, r)
    BY Zenon, <1>3 DEF AfterFreeze
  <2>2. r.status \in {"PENDING", "BLOWN_OFF", "DELTA_ROLLED_BACK"} /\ r.status # "DELTA_ROLLED_BACK"
    OBVIOUS
  <2>3. QED
    BY Zenon, <2>1, <2>2, LeavesMoves
<1>4. CASE n = "vdb_enter"
  <2>1. CASE r.status = "PENDING"
    <3> DEFINE q == [r EXCEPT !.vdb = @ + 1]
    <3>1. q \in Records /\ q.status = "PENDING" /\ InVdb(q)
      BY Zenon, <2>1, VdbEntered
    <3>2. FitsAwake(t, "vdb", "none", q)
      BY Zenon, <3>1 DEF FitsAwake, Fits, Places, Atomic, Stops
    <3>3. Runs(t, q, "vdb", "none")
      BY Zenon, <1>4, <2>1 DEF AfterFreeze
    <3>4. QED
      BY Zenon, <3>2, <3>3, RunsMoves
  <2>2. CASE r.status # "PENDING"
    <3>1. \E after \in {"run", "vdb"} : RollsBack(t, r, after)
      BY Zenon, <1>4, <2>2 DEF AfterFreeze
    <3>2. QED
      BY Zenon, <3>1, RollsBackMoves
  <2>3. QED
    BY Zenon, <2>1, <2>2
<1>5. CASE n \notin {"itc", "qi", "lt_leave", "vdb_enter"}
  <2>1. CASE r.status = "PENDING"
    <3>1. FitsAwake(t, "run", "none", r)
      BY Zenon, <2>1 DEF FitsAwake, Fits, Places, Atomic, Stops
    <3>2. Runs(t, r, "run", "none")
      BY Zenon, <1>5, <2>1 DEF AfterFreeze
    <3>3. QED
      BY Zenon, <3>1, <3>2, RunsMoves
  <2>2. CASE r.status # "PENDING"
    <3>1. r.status \in {"BLOWN_OFF", "FREEZE"}
      BY Zenon, <2>2
    <3>2. lt_ack_close(t, r, "vdb_leave")
      BY Zenon, <1>5, <2>2 DEF AfterFreeze
    <3>3. QED
      BY Zenon, <3>1, <3>2, lt_ack_closeMoves
  <2>3. QED
    BY Zenon, <2>1, <2>2
<1>6. QED
  BY Zenon, <1>1, <1>2, <1>3, <1>4, <1>5

\* A freeze acknowledged by the only thread.
LEMMA lt_ack_freeze_innerMoves ==
  ASSUME NEW t, NEW r \in Records, NEW n, lt_ack_freeze_inner(t, r, n), Inside(r), Left(t, killer)
  PROVE  Moves(t)
<1> DEFINE f == [r EXCEPT !.status = "FREEZE", !.ack = 1, !.wait_end = {}]
<1>1. f \in Records /\ f.status = "FREEZE" /\ Acked(f)
  BY Zenon, FreezeAcked
<1>2. CASE Pending
  <2>1. FitsAsleep(t, "frozen", n, f)
    BY Zenon, <1>1 DEF FitsAsleep, Fits, Places
  <2>2. QED
    BY Zenon, <1>2, <2>1, SleepsMoves DEF lt_ack_freeze_inner
<1>3. CASE ~Pending
  <2>1. AfterFreeze(t, Thawed(f), n)
    BY Zenon, <1>3 DEF lt_ack_freeze_inner
  <2>2. Thawed(f) \in Records /\ Inside(Thawed(f)) /\ Thawed(f).status \in {"PENDING", "BLOWN_OFF"}
    BY Zenon, <1>1, ThawedInside
  <2>3. QED
    BY Zenon, <1>3, <2>1, <2>2, AtomicPending, AfterFreezeMoves
<1>4. QED
  BY Zenon, <1>2, <1>3

\* Entering a transaction that no thread is in.
LEMMA EntersTrxMoves ==
  ASSUME NEW t, EntersTrx(t), lt[t] \in Records, Idle(lt[t]), Left(t, killer), ~Pending
  PROVE  Moves(t)
<1> DEFINE q == [lt[t] EXCEPT !.threads = @ + 1]
<1>1. q \in Records /\ q.status = lt[t].status /\ q.wait_end = lt[t].wait_end /\ Inside(q)
  BY Zenon, ThreadCounted
<1>2. lt[t].threads = 0
  BY Zenon DEF Idle, Counts
<1>3. CASE q.status = "PENDING"
  <2> DEFINE p == [q EXCEPT !.timeout = TRUE]
  <2>1. Runs(t, p, "run", "none")
    BY Zenon, <1>2, <1>3 DEF EntersTrx
  <2> HIDE DEF q
  <2>2. p \in Records /\ p.status = "PENDING" /\ Inside(p)
    BY Zenon, <1>1, <1>3, TimeoutSet
  <2>3. FitsAwake(t, "run", "none", p)
    BY Zenon, <2>2, AtomicPending DEF FitsAwake, Fits, Places, Atomic, Stops
  <2>4. QED
    BY Zenon, <2>1, <2>3, RunsMoves
<1>4. CASE q.status # "PENDING"
  <2>1. \E n \in {"enter", "error"} : RollsBack(t, q, n)
    BY Zenon, <1>2, <1>4 DEF EntersTrx
  <2>2. QED
    BY Zenon, <1>1, <2>1, RollsBackMoves
<1>5. QED
  BY Zenon, <1>3, <1>4

\* The end of lt_restart, while no checkpoint is atomic.
LEMMA ClearedMoves ==
  ASSUME NEW t, NEW r \in Records, Cleared(t, r), ~Atomic, Left(t, killer),
         then[t] = "close" => Idle(r), then[t] # "close" => Inside(r)
  PROVE  Moves(t)
<1> DEFINE p == [r EXCEPT !.status = "PENDING"]
<1>1. p \in Records /\ p.status = "PENDING" /\ (Idle(r) => Idle(p)) /\ (Inside(r) => Inside(p))
  BY Zenon, StatusSet DEF Idle, Inside, Counts, Status
<1>2. CASE then[t] = "error"
  <2>1. Leaves(t, p) /\ Inside(p)
    BY Zenon, <1>1, <1>2 DEF Cleared
  <2>2. p.status \in {"PENDING", "BLOWN_OFF", "DELTA_ROLLED_BACK"} /\ p.status # "DELTA_ROLLED_BACK"
    BY Zenon, <1>1
  <2>3. QED
    BY Zenon, <1>1, <2>1, <2>2, LeavesMoves
<1>3. CASE then[t] = "enter"
  <2> DEFINE q == [p EXCEPT !.timeout = TRUE]
  <2>1. Runs(t, q, "run", "none")
    BY Zenon, <1>3 DEF Cleared
  <2>2. Inside(p)
    BY Zenon, <1>1, <1>3
  <2> HIDE DEF p
  <2>3. q \in Records /\ q.status = "PENDING" /\ Inside(q)
    BY Zenon, <1>1, <2>2, TimeoutSet
  <2>4. FitsAwake(t, "run", "none", q)
    BY Zenon, <2>3 DEF FitsAwake, Fits, Places, Atomic, Stops
  <2>5. QED
    BY Zenon, <2>1, <2>4, RunsMoves
<1>4. CASE then[t] = "vdb"
  <2> DEFINE q == [p EXCEPT !.vdb = @ + 1]
  <2>1. Runs(t, q, "vdb", "none")
    BY Zenon, <1>4 DEF Cleared
  <2>2. Inside(p)
    BY Zenon, <1>1, <1>4
  <2> HIDE DEF p
  <2>3. q \in Records /\ q.status = "PENDING" /\ InVdb(q)
    BY Zenon, <1>1, <2>2, VdbEntered
  <2>4. FitsAwake(t, "vdb", "none", q)
    BY Zenon, <2>3 DEF FitsAwake, Fits, Places, Atomic, Stops
  <2>5. QED
    BY Zenon, <2>1, <2>4, RunsMoves
<1>5. CASE then[t] \notin {"error", "enter", "vdb"}
  <2> DEFINE w == IF then[t] = "close" THEN "out" ELSE "run"
  <2>1. FitsAwake(t, w, "none", p)
    BY Zenon, <1>1 DEF FitsAwake, Fits, Places, Atomic, Stops
  <2>2. Runs(t, p, w, "none")
    BY Zenon, <1>5 DEF Cleared
  <2>3. QED
    BY Zenon, <2>1, <2>2, RunsMoves
<1>6. QED
  BY Zenon, <1>2, <1>3, <1>4, <1>5

\* Nothing but t has moved.
LEMMA FitsOthers ==
  ASSUME NEW t, NEW w, NEW n, NEW r, NEW z, NEW y, NEW o, NEW c, NEW k,
         Fits(t, w, n, r, z, o, c, k), t \in y <=> t \in z
  PROVE  Fits(t, w, n, r, y, o, c, k)
BY Zenon DEF Fits

\* A thread that goes on to where it fits keeps the invariant.
LEMMA MovesKeeps ==
  ASSUME Well, NEW t \in Trx, Moves(t), UNCHANGED <<owner, cpt, killer>>
  PROVE  Well'
<1>1. PICK w, n, r :
        /\ Goes(t, r, w, n)
        /\ waiting_checkpoint' \in {waiting_checkpoint, waiting_checkpoint \cup {t}}
        /\ UNCHANGED failed
        /\ Fits(t, w, n, r, waiting_checkpoint', owner, cpt, killer)
  BY Zenon DEF Moves
<1>2. /\ lt' = [u \in Trx |-> lt'[u]] /\ pc' = [u \in Trx |-> pc'[u]]
      /\ then' = [u \in Trx |-> then'[u]]
  BY Zenon, <1>1 DEF Goes, Well, Table
<1>3. lt'[t] = r /\ pc'[t] = w /\ then'[t] = n
  BY Zenon, <1>1 DEF Goes, Well, Table
<1>4. ASSUME NEW u \in Trx PROVE FitsNow(u)'
  <2>1. CASE u = t
    BY Zenon, <1>1, <1>3, <2>1 DEF FitsNow
  <2>2. CASE u # t
    <3>1. lt'[u] = lt[u] /\ pc'[u] = pc[u] /\ then'[u] = then[u]
      BY Zenon, <1>1, <2>2 DEF Goes, Well, Table
    <3>2. u \in waiting_checkpoint' <=> u \in waiting_checkpoint
      BY Zenon, <1>1, <2>2
    <3>3. Fits(u, pc[u], then[u], lt[u], waiting_checkpoint, owner, cpt, killer)
      BY Zenon DEF Well, Table, FitsNow
    <3>4. Fits(u, pc[u], then[u], lt[u], waiting_checkpoint', owner, cpt, killer)
      BY Zenon, <3>2, <3>3, FitsOthers
    <3>5. QED
      BY Zenon, <3>1, <3>4 DEF FitsNow
  <2>3. QED
    BY Zenon, <2>1, <2>2
<1>5. waiting_checkpoint' \subseteq Trx
  BY Zenon, <1>1 DEF Well, Table
<1>6. KillerFits' /\ failed' = "none" /\ owner' \in Trx \cup {NoTrx} /\ cpt' \in {"idle", "scan", "dead", "atomic", "log"}
  BY Zenon, <1>1 DEF Well, Table, KillerFits
<1>7. QED
  BY Zenon, <1>2, <1>4, <1>5, <1>6 DEF Well, Table

\* What the invariant says of a transaction.
LEMMA Here ==
  ASSUME Well, NEW t \in Trx
  PROVE  Fits(t, pc[t], then[t], lt[t], waiting_checkpoint, owner, cpt, killer)
BY Zenon DEF Well, Table, FitsNow

\* A thread in a statement, and what a statement may find.
LEMMA HereRun ==
  ASSUME Well, NEW t \in Trx, pc[t] = "run"
  PROVE  /\ lt[t] \in Records /\ Inside(lt[t]) /\ Left(t, killer)
         /\ lt[t].status \in {"PENDING", "FREEZE", "BLOWN_OFF", "DELTA_ROLLED_BACK"}
         /\ Atomic => lt[t].status = "DELTA_ROLLED_BACK"
         /\ lt[t].status = "DELTA_ROLLED_BACK" => Over(t, lt[t])
<1>1. Fits(t, "run", then[t], lt[t], waiting_checkpoint, owner, cpt, killer)
  BY Zenon, Here
<1>2. QED
  BY Zenon, <1>1 DEF Fits, Over, Atomic, Stops

\* The client of t sends a statement while the killer, which found t idle, ends it.
Fails(t) == Gpf("increment") /\ killer.trx = t /\ killer.alone /\ pc[t] \in {"out", "enter"}

\* Entering a transaction: it is idle, or the killer has counted a thread.
LEMMA EntersOrFails ==
  ASSUME Well, NEW t \in Trx, EntersTrx(t), pc[t] \in {"out", "enter"}, ~Pending
  PROVE  Moves(t) \/ Fails(t)
<1>1. Fits(t, pc[t], then[t], lt[t], waiting_checkpoint, owner, cpt, killer)
  BY Zenon, Here
<1>2. CASE Idle(lt[t]) /\ Left(t, killer)
  BY Zenon, <1>1, <1>2, EntersTrxMoves DEF Fits
<1>3. CASE Acked(lt[t]) /\ killer.trx = t /\ killer.alone
  <2>1. lt[t].threads # 0
    BY <1>3 DEF Acked, Counts
  <2>2. Gpf("increment")
    BY Zenon, <2>1 DEF EntersTrx
  <2>3. QED
    BY Zenon, <1>3, <2>2 DEF Fails
<1>4. QED
  BY Zenon, <1>1, <1>2, <1>3 DEF Fits, EndsIdle

\* A client sends a statement.
LEMMA qi_initial_enter_trxMoves ==
  ASSUME Well, NEW t \in Trx, qi_initial_enter_trx(t)
  PROVE  Moves(t) \/ Fails(t)
<1>1. Fits(t, "out", then[t], lt[t], waiting_checkpoint, owner, cpt, killer)
  BY Zenon, Here DEF qi_initial_enter_trx
<1>2. CASE Pending
  <2>1. FitsAsleep(t, "enter", "none", lt[t])
    BY Zenon, <1>1 DEF FitsAsleep, Fits, Places
  <2>2. QED
    BY Zenon, <1>2, <2>1, SleepsMoves DEF qi_initial_enter_trx
<1>3. CASE ~Pending
  BY Zenon, <1>3, EntersOrFails DEF qi_initial_enter_trx
<1>4. QED
  BY Zenon, <1>2, <1>3

\* A statement goes to wait for a lock.
LEMMA lock_waitMoves ==
  ASSUME Well, NEW t \in Trx, lock_wait(t)
  PROVE  Moves(t)
<1>1. /\ lt[t] \in Records /\ Inside(lt[t]) /\ Left(t, killer) /\ ~Atomic
      /\ lt[t].status \in {"PENDING", "FREEZE", "BLOWN_OFF"} /\ owner # t
  BY Zenon, HereRun DEF lock_wait
<1>2. CASE lt[t].status = "PENDING"
  <2> DEFINE q == [lt[t] EXCEPT !.lw = @ + 1]
  <2>1. q \in Records /\ q.status = "PENDING" /\ InWait(q)
    BY Zenon, <1>1, <1>2, WaitCounted
  <2>2. FitsAwake(t, "lock", "none", q)
    BY Zenon, <1>1, <2>1 DEF FitsAwake, Fits, Places
  <2>3. QED
    BY Zenon, <1>2, <2>2, RunsMoves DEF lock_wait
<1>3. CASE lt[t].status # "PENDING"
  <2>1. FitsAwake(t, "bust", "none", lt[t])
    BY Zenon, <1>1 DEF FitsAwake, Fits, Places, Atomic, Stops
  <2>2. QED
    BY Zenon, <1>3, <2>1, RunsMoves DEF lock_wait
<1>4. QED
  BY Zenon, <1>2, <1>3

\* A statement goes to an io section.
LEMMA vdb_enter_ltMoves ==
  ASSUME Well, NEW t \in Trx, vdb_enter_lt(t)
  PROVE  Moves(t)
<1>1. /\ lt[t] \in Records /\ Inside(lt[t]) /\ Left(t, killer)
      /\ Atomic => lt[t].status = "DELTA_ROLLED_BACK"
  BY Zenon, HereRun DEF vdb_enter_lt
<1>2. CASE lt[t].status = "FREEZE"
  BY Zenon, <1>1, <1>2, lt_ack_freeze_innerMoves DEF vdb_enter_lt
<1>3. CASE lt[t].status = "PENDING"
  <2> DEFINE q == [lt[t] EXCEPT !.vdb = @ + 1]
  <2>1. q \in Records /\ q.status = "PENDING" /\ InVdb(q)
    BY Zenon, <1>1, <1>3, VdbEntered
  <2>2. FitsAwake(t, "vdb", "none", q)
    BY Zenon, <1>1, <1>3, <2>1 DEF FitsAwake, Fits, Places, Atomic, Stops
  <2>3. Runs(t, q, "vdb", "none")
    BY Zenon, <1>3 DEF vdb_enter_lt
  <2>4. QED
    BY Zenon, <2>2, <2>3, RunsMoves
<1>4. CASE lt[t].status \notin {"FREEZE", "PENDING"}
  <2>1. \E n \in {"run", "vdb"} : RollsBack(t, lt[t], n)
    BY Zenon, <1>4 DEF vdb_enter_lt
  <2>2. QED
    BY Zenon, <1>1, <2>1, RollsBackMoves
<1>5. QED
  BY Zenon, <1>2, <1>3, <1>4

\* The record with which lt_commit and lt_rollback_1 begin.
LEMMA ClosingRecord ==
  ASSUME NEW r \in Records, Inside(r), NEW n
  PROVE  LET q == IF n = "close" THEN [r EXCEPT !.threads = 1] ELSE r IN
         q \in Records /\ Inside(q) /\ q.status = r.status
<1>1. 1 \in 0..1
  OBVIOUS
<1>2. QED
  BY Zenon, <1>1, ThreadsSet

\* A statement commits.
LEMMA lt_commitMoves ==
  ASSUME Well, NEW t \in Trx, lt_commit(t)
  PROVE  Moves(t)
<1> DEFINE q(n) == IF n = "close" THEN [lt[t] EXCEPT !.threads = 1] ELSE lt[t]
<1>1. lt[t] \in Records /\ Inside(lt[t]) /\ Left(t, killer)
  BY Zenon, HereRun DEF lt_commit
<1>2. PICK n \in {"run", "close"} :
        IF q(n).status \in {"BLOWN_OFF", "DELTA_ROLLED_BACK"} THEN RollsBack(t, q(n), n)
        ELSE Runs(t, [q(n) EXCEPT !.status = "COMMITTED"], "commit", n)
  BY Zenon DEF lt_commit
<1>3. q(n) \in Records /\ Inside(q(n))
  BY Zenon, <1>1, ClosingRecord
<1> HIDE DEF q
<1>4. CASE q(n).status \in {"BLOWN_OFF", "DELTA_ROLLED_BACK"}
  BY Zenon, <1>1, <1>2, <1>3, <1>4, RollsBackMoves
<1>5. CASE q(n).status \notin {"BLOWN_OFF", "DELTA_ROLLED_BACK"}
  <2> DEFINE p == [q(n) EXCEPT !.status = "COMMITTED"]
  <2>1. p \in Records /\ p.status = "COMMITTED" /\ Inside(p)
    BY Zenon, <1>3, StatusSet DEF Inside, Counts, Status
  <2>2. FitsAwake(t, "commit", n, p)
    BY Zenon, <1>1, <2>1 DEF FitsAwake, Fits, Places
  <2>3. QED
    BY Zenon, <1>2, <1>5, <2>2, RunsMoves
<1>6. QED
  BY Zenon, <1>4, <1>5

\* A statement rolls back.
LEMMA lt_rollbackMoves ==
  ASSUME Well, NEW t \in Trx, lt_rollback(t)
  PROVE  Moves(t)
<1> DEFINE q(n) == IF n = "close" THEN [lt[t] EXCEPT !.threads = 1] ELSE lt[t]
<1>1. lt[t] \in Records /\ Inside(lt[t]) /\ Left(t, killer)
  BY Zenon, HereRun DEF lt_rollback
<1>2. PICK n \in {"run", "close"} : RollsBack(t, q(n), n)
  BY Zenon DEF lt_rollback
<1>3. q(n) \in Records /\ Inside(q(n))
  BY Zenon, <1>1, ClosingRecord
<1>4. QED
  BY Zenon, <1>1, <1>2, <1>3, RollsBackMoves

\* A thread that is woken.
LEMMA WaitOverMoves ==
  ASSUME Well, NEW t \in Trx, WaitOver(t)
  PROVE  Moves(t)
<1> DEFINE w == IF lt[t].status \in {"PENDING", "FREEZE"} THEN "run" ELSE "bust"
<1>1. Fits(t, "woken", then[t], lt[t], waiting_checkpoint, owner, cpt, killer)
  BY Zenon, Here DEF WaitOver
<1>2. lt[t].lw = 0
  BY Zenon, <1>1 DEF Fits, Inside, Counts
<1>3. FitsAwake(t, w, "none", lt[t])
  BY Zenon, <1>1 DEF FitsAwake, Fits, Places, Ends
<1>4. Runs(t, lt[t], w, "none")
  BY Zenon, <1>2 DEF WaitOver
<1>5. QED
  BY Zenon, <1>3, <1>4, RunsMoves

\* A thread sees that it is to stop.
LEMMA CheckTrxDeadMoves ==
  ASSUME Well, NEW t \in Trx, CheckTrxDead(t)
  PROVE  Moves(t)
<1> DEFINE w == IF lt[t].status = "FREEZE" THEN "ack" ELSE "bust"
<1>1. /\ lt[t] \in Records /\ Inside(lt[t]) /\ Left(t, killer) /\ ~Atomic
      /\ lt[t].status \in {"FREEZE", "BLOWN_OFF"}
  BY Zenon, HereRun DEF CheckTrxDead
<1>2. FitsAwake(t, w, "none", lt[t])
  BY Zenon, <1>1 DEF FitsAwake, Fits, Places, Atomic, Stops
<1>3. Runs(t, lt[t], w, "none")
  BY Zenon DEF CheckTrxDead
<1>4. QED
  BY Zenon, <1>2, <1>3, RunsMoves

\* The record of a transaction that is to be rolled back.
LEMMA BlownOffRecord ==
  ASSUME NEW r \in Records, Inside(r)
  PROVE  LET q == [r EXCEPT !.status = "BLOWN_OFF"] IN
         q \in Records /\ Inside(q) /\ q.status = "BLOWN_OFF"
BY Zenon, StatusSet DEF Inside, Counts, Status

\* A thread throws: it ends the transaction, or waits for a killer to end it.
LEMMA itc_bust_this_trxMoves ==
  ASSUME Well, NEW t \in Trx, itc_bust_this_trx(t)
  PROVE  Moves(t)
<1> DEFINE q == IF lt[t].status = "PENDING" THEN [lt[t] EXCEPT !.status = "BLOWN_OFF"] ELSE lt[t]
<1>1. Fits(t, "bust", then[t], lt[t], waiting_checkpoint, owner, cpt, killer)
  BY Zenon, Here DEF itc_bust_this_trx
<1>2. lt[t] \in Records /\ Inside(lt[t])
  BY Zenon, <1>1 DEF Fits
<1>3. /\ q \in Records /\ Inside(q)
      /\ q.status = IF lt[t].status = "PENDING" THEN "BLOWN_OFF" ELSE lt[t].status
  <2>1. CASE lt[t].status = "PENDING"
    <3> DEFINE b == [lt[t] EXCEPT !.status = "BLOWN_OFF"]
    <3>1. b \in Records /\ Inside(b) /\ b.status = "BLOWN_OFF"
      BY Zenon, <1>2, BlownOffRecord
    <3>2. q = b
      BY Zenon, <2>1
    <3> HIDE DEF q, b
    <3>3. QED
      BY Zenon, <2>1, <3>1, <3>2
  <2>2. CASE lt[t].status # "PENDING"
    BY Zenon, <1>2, <2>2
  <2>3. QED
    BY Zenon, <2>1, <2>2
<1>4. \/ q.status = "CLOSING" /\ ~Atomic /\ Ends(t, killer, {"release", "spin"})
      \/ q.status \in {"BLOWN_OFF", "FREEZE"} /\ Left(t, killer)
  BY Zenon, <1>1, <1>3 DEF Fits, Ends, Atomic, Stops
<1>5. lt_ack_close(t, q, "throw")
  BY Zenon DEF itc_bust_this_trx
<1>6. QED
  BY Zenon, <1>3, <1>4, <1>5, lt_ack_closeMoves

\* A cursor acknowledges the freeze it has seen.
LEMMA lt_ack_freezeMoves ==
  ASSUME Well, NEW t \in Trx, lt_ack_freeze(t)
  PROVE  Moves(t)
<1>1. Fits(t, "ack", then[t], lt[t], waiting_checkpoint, owner, cpt, killer)
  BY Zenon, Here DEF lt_ack_freeze
<1>2. lt[t] \in Records /\ Inside(lt[t]) /\ Left(t, killer)
  BY Zenon, <1>1 DEF Fits
<1>3. QED
  BY Zenon, <1>2, lt_ack_freeze_innerMoves DEF lt_ack_freeze

\* A query acknowledges a freeze.
LEMMA qi_check_trx_errorMoves ==
  ASSUME Well, NEW t \in Trx, qi_check_trx_error(t)
  PROVE  Moves(t)
BY Zenon, HereRun, lt_ack_freeze_innerMoves DEF qi_check_trx_error

\* A thread wakes up after its freeze.
LEMMA ThawMoves ==
  ASSUME Well, NEW t \in Trx, Thaw(t)
  PROVE  Moves(t)
<1>1. Fits(t, "frozen", then[t], lt[t], waiting_checkpoint, owner, cpt, killer)
  BY Zenon, Here DEF Thaw
<1>2. /\ lt[t] \in Records /\ Inside(lt[t]) /\ Left(t, killer) /\ ~Atomic
      /\ lt[t].status \in {"PENDING", "FREEZE", "BLOWN_OFF"}
  BY Zenon, <1>1 DEF Fits, Thaw, Atomic, Stops
<1>3. /\ Thawed(lt[t]) \in Records /\ Inside(Thawed(lt[t]))
      /\ Thawed(lt[t]).status \in {"PENDING", "BLOWN_OFF"}
  BY Zenon, <1>2, ThawedInside
<1>4. QED
  BY Zenon, <1>2, <1>3, AfterFreezeMoves DEF Thaw

\* A statement ends.
LEMMA lt_leaveMoves ==
  ASSUME Well, NEW t \in Trx, lt_leave(t)
  PROVE  Moves(t)
<1>1. /\ lt[t] \in Records /\ Inside(lt[t]) /\ Left(t, killer)
      /\ lt[t].status \in {"PENDING", "FREEZE", "BLOWN_OFF", "DELTA_ROLLED_BACK"}
      /\ lt[t].status = "DELTA_ROLLED_BACK" => Over(t, lt[t])
  BY Zenon, HereRun DEF lt_leave
<1>2. CASE lt[t].status = "FREEZE"
  BY Zenon, <1>1, <1>2, lt_ack_freeze_innerMoves DEF lt_leave
<1>3. CASE lt[t].status = "BLOWN_OFF"
  <2>1. lt_ack_close(t, lt[t], "leave")
    BY Zenon, <1>3 DEF lt_leave
  <2>2. lt[t].status \in {"BLOWN_OFF", "FREEZE"}
    BY Zenon, <1>3
  <2>3. QED
    BY Zenon, <1>1, <2>1, <2>2, lt_ack_closeMoves
<1>4. CASE lt[t].status \in {"PENDING", "DELTA_ROLLED_BACK"}
  <2>1. lt[t].status # "FREEZE" /\ lt[t].status \notin {"BLOWN_OFF", "CLOSING", "COMMITTED"}
    BY Zenon, <1>4
  <2>2. Leaves(t, lt[t])
    BY Zenon, <2>1 DEF lt_leave
  <2>3. /\ lt[t].status \in {"PENDING", "BLOWN_OFF", "DELTA_ROLLED_BACK"}
        /\ lt[t].status = "DELTA_ROLLED_BACK" => owner # t /\ lt[t].wait_end = {}
    BY Zenon, <1>1, <1>4 DEF Over
  <2>4. QED
    BY Zenon, <1>1, <2>2, <2>3, LeavesMoves
<1>5. QED
  BY Zenon, <1>1, <1>2, <1>3, <1>4

\* An io section ends.
LEMMA vdb_leave_ltMoves ==
  ASSUME Well, NEW t \in Trx, vdb_leave_lt(t)
  PROVE  Moves(t)
<1> DEFINE r == [lt[t] EXCEPT !.vdb = @ - 1]
<1>1. Fits(t, "vdb", then[t], lt[t], waiting_checkpoint, owner, cpt, killer)
  BY Zenon, Here DEF vdb_leave_lt
<1>2. lt[t] \in Records /\ InVdb(lt[t])
  BY Zenon, <1>1 DEF Fits
<1>3. r \in Records /\ r.status = lt[t].status /\ r.wait_end = lt[t].wait_end /\ Inside(r)
  BY Zenon, <1>2, VdbLeft
<1>4. lt[t].vdb > 0 /\ lt[t].vdb # 0
  BY <1>2 DEF InVdb, Counts
<1>5. \/ Left(t, killer) /\ r.status = "FREEZE"
      \/ Left(t, killer) /\ r.status = "PENDING" /\ ~Atomic
      \/ Over(t, r)
      \/ r.status = "CLOSING" /\ Ends(t, killer, {"release", "spin"}) /\ ~Atomic
  BY Zenon, <1>1, <1>3 DEF Fits, Over, Atomic, Stops
<1>6. \/ r.status = "FREEZE" /\ lt_ack_freeze_inner(t, r, "vdb_leave")
      \/ r.status = "PENDING" /\ Runs(t, r, "run", "none")
      \/ r.status \notin {"FREEZE", "PENDING"} /\ lt_ack_close(t, r, "vdb_leave")
  BY Zenon, <1>4 DEF vdb_leave_lt
<1> HIDE DEF r
<1>7. CASE r.status = "FREEZE"
  BY Zenon, <1>3, <1>5, <1>6, <1>7, lt_ack_freeze_innerMoves DEF Over
<1>8. CASE r.status = "PENDING"
  <2>1. Left(t, killer) /\ ~Atomic
    BY Zenon, <1>5, <1>8 DEF Over
  <2>2. FitsAwake(t, "run", "none", r)
    BY Zenon, <1>3, <1>8, <2>1 DEF FitsAwake, Fits, Places, Atomic, Stops
  <2>3. Runs(t, r, "run", "none")
    BY Zenon, <1>6, <1>8
  <2>4. QED
    BY Zenon, <2>2, <2>3, RunsMoves
<1>9. CASE r.status \notin {"FREEZE", "PENDING"}
  <2>1. \/ r.status = "CLOSING" /\ ~Atomic /\ Ends(t, killer, {"release", "spin"})
        \/ Over(t, r)
    BY Zenon, <1>5, <1>9
  <2>2. lt_ack_close(t, r, "vdb_leave")
    BY Zenon, <1>6, <1>9
  <2>3. QED
    BY Zenon, <1>3, <2>1, <2>2, lt_ack_closeMoves
<1>10. QED
  BY Zenon, <1>7, <1>8, <1>9

\* lt_commit after log_commit.
LEMMA CommitLoggedMoves ==
  ASSUME Well, NEW t \in Trx, CommitLogged(t)
  PROVE  Moves(t)
<1> DEFINE q == [lt[t] EXCEPT !.ack = @ + 1]
<1>1. Fits(t, "commit", then[t], lt[t], waiting_checkpoint, owner, cpt, killer)
  BY Zenon, Here DEF CommitLogged
<1>2. /\ lt[t] \in Records /\ Inside(lt[t]) /\ Left(t, killer)
      /\ lt[t].status \in {"BLOWN_OFF", "FREEZE", "COMMITTED"}
  BY Zenon, <1>1 DEF Fits
<1>3. q \in Records /\ q.status = lt[t].status /\ Acked(q)
  BY Zenon, <1>2, AckCounted
<1>4. CASE lt_transact(t, q, then[t])
  BY Zenon, <1>2, <1>3, <1>4, lt_transactMoves
<1>5. CASE RollsBack(t, lt[t], then[t])
  BY Zenon, <1>2, <1>5, RollsBackMoves
<1>6. QED
  BY Zenon, <1>4, <1>5 DEF CommitLogged

\* lt_rollback_1 after log_cl_final.
LEMMA RollbackLoggedMoves ==
  ASSUME Well, NEW t \in Trx, RollbackLogged(t)
  PROVE  Moves(t)
<1> DEFINE q == [lt[t] EXCEPT !.status = "BLOWN_OFF", !.ack = @ + 1]
<1>1. Fits(t, "rollback", then[t], lt[t], waiting_checkpoint, owner, cpt, killer)
  BY Zenon, Here DEF RollbackLogged
<1>2. lt[t] \in Records /\ Inside(lt[t]) /\ Left(t, killer) /\ lt[t].status = "BLOWN_OFF"
  BY Zenon, <1>1 DEF Fits
<1>3. q \in Records /\ q.status = "BLOWN_OFF" /\ Acked(q)
  BY Zenon, <1>2, RollbackCounted
<1>4. lt[t].status # "DELTA_ROLLED_BACK" /\ q.status \in {"BLOWN_OFF", "FREEZE", "COMMITTED"}
  BY Zenon, <1>2, <1>3
<1>5. lt_transact(t, q, then[t])
  BY Zenon, <1>4 DEF RollbackLogged
<1>6. QED
  BY Zenon, <1>2, <1>3, <1>4, <1>5, lt_transactMoves

\* lt_transact is over.
LEMMA TransactOverMoves ==
  ASSUME Well, NEW t \in Trx, TransactOver(t)
  PROVE  Moves(t)
<1> DEFINE q == RolledBack(lt[t])
<1>1. Fits(t, "spin", then[t], lt[t], waiting_checkpoint, owner, cpt, killer)
  BY Zenon, Here DEF TransactOver
<1>2. lt[t] \in Records /\ Acked(lt[t]) /\ Left(t, killer) /\ owner # t
  BY Zenon, <1>1 DEF Fits
<1>3. Over(t, q)
  BY Zenon, <1>2, EndedRecord DEF Over
<1> HIDE DEF q
<1>4. CASE Pending
  <2>1. FitsAsleep(t, "ended", then[t], q)
    BY Zenon, <1>3 DEF FitsAsleep, Fits, Places, Over
  <2>2. QED
    BY Zenon, <1>4, <2>1, SleepsMoves DEF TransactOver, q
<1>5. CASE ~Pending
  BY Zenon, <1>3, <1>5, AfterEndMoves DEF TransactOver, q
<1>6. QED
  BY Zenon, <1>4, <1>5

\* The transaction the thread waits for is dead: the killer has ended it.
LEMMA DeadSeenMoves ==
  ASSUME Well, NEW t \in Trx, DeadSeen(t)
  PROVE  Moves(t)
<1>1. Fits(t, "dead", then[t], lt[t], waiting_checkpoint, owner, cpt, killer)
  BY Zenon, Here DEF DeadSeen
<1>2. "client" \notin lt[t].wait_end
  BY Zenon DEF DeadSeen
<1>3. Over(t, lt[t])
  BY Zenon, <1>1, <1>2 DEF Fits, Over
<1>4. CASE Atomic
  <2>1. FitsAsleep(t, "ended", then[t], lt[t])
    BY Zenon, <1>3 DEF FitsAsleep, Fits, Places, Over
  <2>2. QED
    BY Zenon, <1>4, <2>1, SleepsMoves DEF DeadSeen
<1>5. CASE ~Atomic
  BY Zenon, <1>3, <1>5, AfterEndMoves DEF DeadSeen
<1>6. QED
  BY Zenon, <1>4, <1>5

\* lt_clear finds no lock and nobody waiting.
LEMMA lt_clearMoves ==
  ASSUME Well, NEW t \in Trx, lt_clear(t)
  PROVE  Moves(t)
<1> DEFINE q == [lt[t] EXCEPT !.lw = 0, !.ack = 0, !.vdb = 0, !.timeout = FALSE]
<1>1. Fits(t, "clear", then[t], lt[t], waiting_checkpoint, owner, cpt, killer)
  BY Zenon, Here DEF lt_clear
<1>2. /\ lt[t] \in Records /\ Left(t, killer) /\ owner # t /\ lt[t].wait_end = {}
      /\ lt[t].status = "DELTA_ROLLED_BACK"
      /\ then[t] = "close" => Idle(lt[t])
      /\ then[t] # "close" => Inside(lt[t])
  BY Zenon, <1>1 DEF Fits
<1>3. /\ q \in Records /\ q.status = lt[t].status /\ q.wait_end = lt[t].wait_end
      /\ then[t] = "close" => Idle(q)
      /\ then[t] # "close" => Inside(q)
  BY Zenon, <1>2, ClearedRecord
<1> HIDE DEF q
<1>4. CASE Pending
  <2>1. FitsAsleep(t, "cleared", then[t], q)
    BY Zenon, <1>2, <1>3 DEF FitsAsleep, Fits, Places
  <2>2. QED
    BY Zenon, <1>2, <1>4, <2>1, SleepsMoves DEF lt_clear, q
<1>5. CASE ~Pending
  <2>1. Cleared(t, q) /\ ~Atomic
    BY Zenon, <1>2, <1>5, AtomicPending DEF lt_clear, q
  <2>2. QED
    BY Zenon, <1>2, <1>3, <2>1, ClearedMoves
<1>6. QED
  BY Zenon, <1>4, <1>5

\* A thread that slept for a checkpoint goes on.
LEMMA CheckpointSeenMoves ==
  ASSUME Well, NEW t \in Trx, CheckpointSeen(t)
  PROVE  Moves(t) \/ Fails(t)
<1> DEFINE S == {"enter", "transact", "ended", "restart", "cleared"}
<1>1. Fits(t, pc[t], then[t], lt[t], waiting_checkpoint, owner, cpt, killer)
  BY Zenon, Here
<1>2. lt[t] \in Records /\ pc[t] \in S
  BY Zenon, <1>1 DEF Fits, CheckpointSeen
<1>3. CASE Pending
  <2>1. Fits(t, pc[t], then[t], lt[t], waiting_checkpoint \cup {t}, owner, cpt, killer)
    BY Zenon, <1>1, <1>2 DEF Fits
  <2>2. QED
    BY Zenon, <1>3, <2>1, SleepsMoves DEF CheckpointSeen, FitsAsleep
<1>4. CASE ~Pending
  <2>1. ~Atomic
    BY Zenon, <1>4, AtomicPending
  <2>2. CASE pc[t] = "enter"
    <3>1. EntersTrx(t)
      BY Zenon, <1>4, <2>2 DEF CheckpointSeen
    <3>2. QED
      BY Zenon, <1>4, <2>2, <3>1, EntersOrFails
  <2>3. CASE pc[t] = "transact"
    <3>1. Acked(lt[t]) /\ Left(t, killer) /\ lt[t].status \in {"BLOWN_OFF", "FREEZE", "COMMITTED"}
      BY Zenon, <1>1, <2>3 DEF Fits
    <3>2. QED
      BY Zenon, <1>2, <1>4, <2>3, <3>1, lt_transactMoves DEF CheckpointSeen
  <2>4. CASE pc[t] = "ended"
    <3>1. Over(t, lt[t])
      BY Zenon, <1>1, <2>4 DEF Fits, Over
    <3>2. QED
      BY Zenon, <1>4, <2>4, <3>1, AfterEndMoves DEF CheckpointSeen
  <2>5. CASE pc[t] = "restart"
    <3> DEFINE q == [lt[t] EXCEPT !.threads = 1]
    <3>1. /\ Idle(lt[t]) /\ Left(t, killer) /\ lt[t].status = "DELTA_ROLLED_BACK" /\ then[t] # "close"
          /\ owner # t /\ lt[t].wait_end = {}
      BY Zenon, <1>1, <2>5 DEF Fits
    <3>2. q \in Records /\ q.status = lt[t].status /\ q.wait_end = lt[t].wait_end /\ Inside(q)
      <4>1. 1 \in 0..1
        OBVIOUS
      <4>2. QED
        BY Zenon, <1>2, <3>1, <4>1, ThreadsSet
    <3>3. FitsAwake(t, "clear", then[t], q)
      BY Zenon, <3>1, <3>2 DEF FitsAwake, Fits, Places
    <3>4. Runs(t, q, "clear", then[t])
      BY Zenon, <1>4, <2>5 DEF CheckpointSeen
    <3>5. QED
      BY Zenon, <3>3, <3>4, RunsMoves
  <2>6. CASE pc[t] = "cleared"
    <3>1. /\ Left(t, killer)
          /\ then[t] = "close" => Idle(lt[t])
          /\ then[t] # "close" => Inside(lt[t])
      BY Zenon, <1>1, <2>6 DEF Fits
    <3>2. Cleared(t, lt[t])
      BY Zenon, <1>4, <2>6 DEF CheckpointSeen
    <3>3. QED
      BY Zenon, <1>2, <2>1, <3>1, <3>2, ClearedMoves
  <2>7. QED
    BY Zenon, <1>2, <2>2, <2>3, <2>4, <2>5, <2>6
<1>5. QED
  BY Zenon, <1>3, <1>4

\* The lock goes to another, or to one that has not ended.
LEMMA FitsOwned ==
  ASSUME NEW t, NEW w, NEW n, NEW r, NEW z, NEW o, NEW p, NEW c, NEW k,
         Fits(t, w, n, r, z, o, c, k), p = t => w \notin {"spin", "lock"} /\ r.status # "DELTA_ROLLED_BACK"
  PROVE  Fits(t, w, n, r, z, p, c, k)
BY Zenon DEF Fits

\* A row is locked.
LEMMA TakeLockKeeps ==
  ASSUME Well, NEW t \in Trx, TakeLock(t)
  PROVE  Well'
<1>1. ASSUME NEW u \in Trx PROVE FitsNow(u)'
  <2>1. Fits(u, pc[u], then[u], lt[u], waiting_checkpoint, owner, cpt, killer)
    BY Zenon, Here
  <2>2. t = u => pc[u] \notin {"spin", "lock"} /\ lt[u].status # "DELTA_ROLLED_BACK"
    BY Zenon DEF TakeLock
  <2>3. Fits(u, pc[u], then[u], lt[u], waiting_checkpoint, t, cpt, killer)
    BY Zenon, <2>1, <2>2, FitsOwned
  <2>4. QED
    BY Zenon, <2>3 DEF FitsNow, TakeLock
<1>2. killer.at = "spin" => t # killer.trx
  <2>1. Fits(t, "run", then[t], lt[t], waiting_checkpoint, owner, cpt, killer)
    BY Zenon, Here DEF TakeLock
  <2>2. QED
    BY Zenon, <2>1 DEF Fits, Left
<1>3. KillerFits'
  BY Zenon, <1>2 DEF KillerFits, Well, Table, TakeLock
<1>4. QED
  BY Zenon, <1>1, <1>3 DEF Well, Table, TakeLock

\* The killer is with another transaction.
LEMMA FitsKilled ==
  ASSUME NEW t, NEW w, NEW n, NEW r, NEW z, NEW o, NEW c, NEW k, NEW j,
         Fits(t, w, n, r, z, o, c, k), Left(t, k), Left(t, j)
  PROVE  Fits(t, w, n, r, z, o, c, j)
<1>1. /\ ~Ends(t, k, {"begin"}) /\ ~Ends(t, k, {"release"}) /\ ~Ends(t, k, {"spin"})
      /\ ~Ends(t, k, {"release", "spin"})
      /\ ~EndsIdle(t, k, {"begin"}) /\ ~EndsIdle(t, k, {"release", "spin"})
  BY Zenon DEF Left, Ends, EndsIdle
<1>2. QED
  BY ZenonT(60), <1>1 DEF Fits

\* Who has the lock when t has released it: whoever had it, nobody, or a pending
\* transaction that waits.
LEMMA NextOwnerIs ==
  ASSUME Well, NEW t \in Trx, NEW o \in NextOwner(t)
  PROVE  /\ o # t /\ o \in Trx \cup {NoTrx}
         /\ o # owner /\ o \in Trx => pc[o] = "lock" /\ lt[o].status = "PENDING"
         /\ o = owner \/ owner = t
         /\ o = owner /\ o \in Trx => pc[o] # "lock"
<1>1. ASSUME NEW u \in Trx, pc[u] = "lock" PROVE owner # u
  <2>1. Fits(u, "lock", then[u], lt[u], waiting_checkpoint, owner, cpt, killer)
    BY Zenon, <1>1, Here
  <2>2. QED
    BY Zenon, <2>1 DEF Fits
<1>2. CASE owner # t
  <2>1. o = owner
    BY Zenon, <1>2 DEF NextOwner
  <2>2. QED
    BY Zenon, <1>1, <1>2, <2>1 DEF Well, Table
<1>3. CASE owner = t
  <2>1. o = NoTrx \/ (o \in Trx /\ pc[o] = "lock" /\ lt[o].status = "PENDING")
    BY Zenon, <1>3 DEF NextOwner
  <2>2. CASE o = NoTrx
    BY Zenon, <1>3, <2>2, NoTrxIsNone
  <2>3. CASE o \in Trx /\ pc[o] = "lock" /\ lt[o].status = "PENDING"
    BY Zenon, <1>1, <1>3, <2>3
  <2>4. QED
    BY Zenon, <2>1, <2>2, <2>3
<1>4. QED
  BY Zenon, <1>2, <1>3

\* A release of t's lock keeps every other transaction where it fits, and the killer
\* that goes on from j.
LEMMA ReleasesOthers ==
  ASSUME Well, NEW t \in Trx, NEW o \in NextOwner(t), Releases(t, o), ~Atomic,
         NEW u \in Trx, u # t,
         UNCHANGED <<then, waiting_checkpoint, cpt>>,
         killer' = killer \/ (killer.trx # u /\ killer'.trx # u)
  PROVE  FitsNow(u)'
<1>1. Fits(u, pc[u], then[u], lt[u], waiting_checkpoint, owner, cpt, killer)
  BY Zenon, Here
<1>2. CASE u = o /\ pc[u] = "lock"
  <2> DEFINE q == [lt[u] EXCEPT !.lw = @ - 1]
  <2>1. lt'[u] = q /\ pc'[u] = "woken" /\ owner' = u
    <3>1. u \in {x \in {t, o} \ {NoTrx} : pc[x] = "lock"}
      BY Zenon, <1>2, NoTrxIsNone
    <3>2. QED
      BY Zenon, <1>2, <3>1 DEF Releases
  <2>2. o # owner /\ lt[u].status = "PENDING"
    BY Zenon, <1>2, NextOwnerIs
  <2>3. lt[u] \in Records /\ InWait(lt[u]) /\ Left(u, killer)
    BY Zenon, <1>1, <1>2, <2>2 DEF Fits
  <2>4. q \in Records /\ q.status = "PENDING" /\ Inside(q)
    BY Zenon, <2>2, <2>3, WaitUncounted
  <2>5. Left(u, killer')
    BY Zenon, <2>3 DEF Left
  <2>6. Fits(u, "woken", then[u], q, waiting_checkpoint, u, cpt, killer')
    BY Zenon, <2>4, <2>5 DEF Fits, Places, Atomic, Stops
  <2>7. QED
    BY Zenon, <2>1, <2>6 DEF FitsNow
<1>3. CASE ~(u = o /\ pc[u] = "lock")
  <2>1. lt'[u] = lt[u] /\ pc'[u] = pc[u] /\ owner' = o
    BY Zenon, <1>3 DEF Releases
  <2>2. o = u => o = owner
    BY Zenon, <1>3, NextOwnerIs
  <2>3. Fits(u, pc[u], then[u], lt[u], waiting_checkpoint, o, cpt, killer)
    <3>1. CASE o = owner
      BY Zenon, <1>1, <3>1
    <3>2. CASE o # u
      BY Zenon, <1>1, <3>2, FitsOwned
    <3>3. QED
      BY Zenon, <2>2, <3>1, <3>2
  <2>4. Fits(u, pc[u], then[u], lt[u], waiting_checkpoint, o, cpt, killer')
    <3>1. CASE killer' = killer
      BY Zenon, <2>3, <3>1
    <3>2. CASE killer.trx # u /\ killer'.trx # u
      BY Zenon, <2>3, <3>2, FitsKilled DEF Left
    <3>3. QED
      BY Zenon, <3>1, <3>2
  <2>5. QED
    BY Zenon, <2>1, <2>4 DEF FitsNow
<1>4. QED
  BY Zenon, <1>2, <1>3

\* The rest of the state after a release.
LEMMA ReleasesRest ==
  ASSUME Well, NEW t \in Trx, NEW o \in NextOwner(t), Releases(t, o),
         UNCHANGED <<then, waiting_checkpoint, cpt, failed>>
  PROVE  /\ lt' = [u \in Trx |-> lt'[u]] /\ pc' = [u \in Trx |-> pc'[u]] /\ then' = [u \in Trx |-> then'[u]]
         /\ owner' \in Trx \cup {NoTrx}
         /\ waiting_checkpoint' \subseteq Trx
         /\ cpt' \in {"idle", "scan", "dead", "atomic", "log"}
         /\ failed' = "none"
<1>1. owner' \in Trx \cup {NoTrx}
  BY Zenon, NextOwnerIs DEF Releases
<1>2. lt' = [u \in Trx |-> lt'[u]] /\ pc' = [u \in Trx |-> pc'[u]]
  BY Zenon DEF Releases
<1>3. QED
  BY Zenon, <1>1, <1>2 DEF Well, Table

\* lt_transact of a client releases the lock.
LEMMA ReleaseKeeps ==
  ASSUME Well, NEW t \in Trx, Release(t)
  PROVE  Well'
<1>1. PICK o \in NextOwner(t) : Releases(t, o)
  BY Zenon DEF Release
<1>2. /\ pc[t] = "release" /\ killer' = killer
      /\ UNCHANGED <<then, waiting_checkpoint, cpt, failed>>
  BY Zenon DEF Release
<1>3. Fits(t, "release", then[t], lt[t], waiting_checkpoint, owner, cpt, killer)
  BY Zenon, <1>2, Here
<1>4. /\ lt[t] \in Records /\ Acked(lt[t]) /\ lt[t].status = "CLOSING" /\ Left(t, killer) /\ ~Atomic
  BY Zenon, <1>3 DEF Fits, Atomic, Stops
<1>5. o # t
  BY Zenon, NextOwnerIs
<1>6. FitsNow(t)'
  <2>1. lt'[t] = lt[t] /\ pc'[t] = "spin" /\ owner' = o
    BY Zenon, <1>1, <1>2 DEF Releases
  <2>2. Fits(t, "spin", then[t], lt[t], waiting_checkpoint, o, cpt, killer)
    BY Zenon, <1>4, <1>5 DEF Fits, Places, Atomic, Stops
  <2>3. QED
    BY Zenon, <1>2, <2>1, <2>2 DEF FitsNow
<1>7. ASSUME NEW u \in Trx, u # t PROVE FitsNow(u)'
  BY Zenon, <1>1, <1>2, <1>4, <1>7, ReleasesOthers
<1>8. KillerFits'
  <2>1. killer.at = "spin" => o # killer.trx
    <3>1. SUFFICES ASSUME killer.at = "spin", o = killer.trx PROVE FALSE
      BY Zenon
    <3>2. o \in Trx /\ o # owner
      <4>1. killer.at = "spin" => owner # killer.trx
        BY Zenon DEF Well, Table, KillerFits
      <4>2. killer # NoKill
        BY <3>1 DEF NoKill
      <4>3. killer.trx \in Trx
        BY Zenon, <4>2 DEF Well, Table, KillerFits
      <4>4. QED
        BY Zenon, <3>1, <4>1, <4>3
    <3>3. pc[o] = "lock" /\ lt[o].status = "PENDING"
      BY Zenon, <3>2, NextOwnerIs
    <3>4. Fits(o, "lock", then[o], lt[o], waiting_checkpoint, owner, cpt, killer)
      BY Zenon, <3>2, <3>3, Here
    <3>5. QED
      BY Zenon, <3>1, <3>3, <3>4 DEF Fits, Left
  <2>2. owner' = o
    BY Zenon, <1>1 DEF Releases
  <2>3. QED
    BY Zenon, <1>2, <2>1, <2>2 DEF KillerFits, Well, Table
<1>9. QED
  BY Zenon, <1>1, <1>2, <1>6, <1>7, <1>8, ReleasesRest DEF Well, Table

\* The checkpoint goes on, and is not atomic if it was not.
LEMMA FitsCpt ==
  ASSUME NEW t, NEW w, NEW n, NEW r, NEW z, NEW o, NEW c, NEW d, NEW k,
         Fits(t, w, n, r, z, o, c, k), Stops(d) => Stops(c)
  PROVE  Fits(t, w, n, r, z, o, d, k)
BY Zenon DEF Fits

\* What cpt_rollback does nothing about, by its status.
LEMMA NotStoppedIs ==
  ASSUME NEW r
  PROVE  /\ r.status = "CLOSING" => NotStopped(r)
         /\ r.status \in {"BLOWN_OFF", "COMMITTED"} => (NotStopped(r) <=> r.threads > 0)
         /\ r.status = "FREEZE" => (NotStopped(r) <=> LT_IS_RUNNING(r))
         /\ r.status = "DELTA_ROLLED_BACK" => ~NotStopped(r)
         /\ r.status = "PENDING" => (NotStopped(r) <=> r.threads > 0 /\ r.lw = 0)
BY Zenon DEF NotStopped

\* The checkpoint becomes atomic, with nothing left to stop.
LEMMA FitsStopped ==
  ASSUME NEW t, NEW w, NEW n, NEW r, NEW z, NEW o, NEW c, NEW d, NEW k,
         Fits(t, w, n, r, z, o, c, k), ~NotStopped(r)
  PROVE  Fits(t, w, n, r, z, o, d, k)
<1>1. r \in Records /\ r.status \in Status
  BY Zenon DEF Fits, Records
<1>2. r.status # "CLOSING"
  BY Zenon, NotStoppedIs
<1>3. Inside(r) => r.status \notin {"PENDING", "FREEZE", "BLOWN_OFF"}
  BY <1>1, NotStoppedIs DEF LT_IS_RUNNING, Inside, Counts
<1>4. InVdb(r) => r.status # "PENDING"
  BY <1>1, NotStoppedIs DEF InVdb, Counts
<1>5. QED
  BY Zenon, <1>2, <1>3, <1>4 DEF Fits

\* Somebody waits for a transaction that has not ended.
LEMMA FitsAwaited ==
  ASSUME NEW t, NEW w, NEW n, NEW r, NEW z, NEW o, NEW c, NEW k, NEW x \in {"client", "cpt", "killer"},
         Fits(t, w, n, r, z, o, c, k), r.status # "DELTA_ROLLED_BACK"
  PROVE  Fits(t, w, n, [r EXCEPT !.wait_end = @ \cup {x}], z, o, c, k)
<1> DEFINE q == [r EXCEPT !.wait_end = @ \cup {x}]
<1>1. r \in Records
  BY Zenon DEF Fits
<1>2. /\ q \in Records /\ q.status = r.status /\ r.wait_end \subseteq q.wait_end
      /\ q.threads = r.threads /\ q.lw = r.lw /\ q.ack = r.ack /\ q.vdb = r.vdb
  BY Zenon, <1>1, EndAwaited
<1> HIDE DEF q
<1>3. /\ Idle(q) <=> Idle(r)
      /\ Inside(q) <=> Inside(r)
      /\ Acked(q) <=> Acked(r)
      /\ InWait(q) <=> InWait(r)
      /\ InVdb(q) <=> InVdb(r)
  BY Zenon, <1>2 DEF Idle, Inside, Acked, InWait, InVdb, Counts
<1>4. QED
  BY <1>2, <1>3 DEF Fits, q

\* A status that fits the place too.
LEMMA FitsStatus ==
  ASSUME NEW t, NEW w, NEW n, NEW r, NEW z, NEW o, NEW c, NEW k, NEW s \in {"FREEZE", "BLOWN_OFF"},
         Fits(t, w, n, r, z, o, c, k), ~Stops(c),
         \/ Inside(r) /\ r.status \in {"PENDING", "FREEZE"} /\ s = "FREEZE"
         \/ Inside(r) /\ r.status \in {"PENDING", "BLOWN_OFF", "COMMITTED"} /\ s = "BLOWN_OFF"
         \/ ~Inside(r) /\ ~Idle(r) /\ r.status \in {"BLOWN_OFF", "COMMITTED"} /\ s = "FREEZE"
         \/ InVdb(r) /\ r.status = "PENDING" /\ s = "FREEZE"
  PROVE  Fits(t, w, n, [r EXCEPT !.status = s], z, o, c, k)
<1> DEFINE q == [r EXCEPT !.status = s]
<1>1. r \in Records /\ s \in Status
  BY Zenon DEF Fits, Status
<1>2. /\ q \in Records /\ q.status = s /\ q.wait_end = r.wait_end
      /\ q.threads = r.threads /\ q.lw = r.lw /\ q.ack = r.ack /\ q.vdb = r.vdb
  BY Zenon, <1>1, StatusSet
<1> HIDE DEF q
<1>3. /\ Idle(q) <=> Idle(r)
      /\ Inside(q) <=> Inside(r)
      /\ Acked(q) <=> Acked(r)
      /\ InWait(q) <=> InWait(r)
      /\ InVdb(q) <=> InVdb(r)
  BY Zenon, <1>2 DEF Idle, Inside, Acked, InWait, InVdb, Counts
<1>4. /\ Inside(r) => ~Idle(r) /\ ~Acked(r) /\ ~InWait(r) /\ ~InVdb(r)
      /\ InVdb(r) => ~Idle(r) /\ ~Acked(r) /\ ~InWait(r) /\ ~Inside(r)
  BY DEF Idle, Inside, Acked, InWait, InVdb, Counts
<1>5. QED
  BY Zenon, <1>2, <1>3, <1>4 DEF Fits, q

\* cpt_rollback freezes or kills a transaction.
LEMMA FitsFrozen ==
  ASSUME NEW t, NEW w, NEW n, NEW r, NEW z, NEW o, NEW c, NEW k,
         Fits(t, w, n, r, z, o, c, k), ~Stops(c), NotStopped(r)
  PROVE  /\ Fits(t, w, n, Frozen(r), z, o, c, k)
         /\ Frozen(r).status # "DELTA_ROLLED_BACK"
         /\ Frozen(r).threads # 0
<1>1. r \in Records /\ r.status \in Status
  BY Zenon DEF Fits, Records
<1>2. /\ Inside(r) <=> LT_IS_RUNNING(r)
      /\ r.threads = 0 => Idle(r)
      /\ Idle(r) => r.threads = 0
  BY DEF Fits, Places, LT_IS_RUNNING, Idle, Inside, Acked, InWait, InVdb, Counts
<1>3. r.status \in {"CLOSING", "BLOWN_OFF", "COMMITTED", "FREEZE", "PENDING"}
  BY Zenon, <1>1, NotStoppedIs DEF Status
<1>4. CASE r.status = "CLOSING"
  <2>1. Frozen(r) = r
    BY Zenon, <1>4 DEF Frozen
  <2>2. r.threads # 0
    BY <1>2, <1>4 DEF Fits, Places, Idle, Inside, Acked, InWait, InVdb, Counts
  <2>3. QED
    BY Zenon, <1>4, <2>1, <2>2
<1>5. CASE r.status \in {"BLOWN_OFF", "COMMITTED"} /\ LT_IS_RUNNING(r)
  <2>1. Frozen(r) = [r EXCEPT !.status = "BLOWN_OFF"]
    BY Zenon, <1>5 DEF Frozen
  <2>2. Inside(r)
    BY Zenon, <1>2, <1>5
  <2>3. Fits(t, w, n, [r EXCEPT !.status = "BLOWN_OFF"], z, o, c, k)
    BY Zenon, <1>5, <2>2, FitsStatus
  <2>4. [r EXCEPT !.status = "BLOWN_OFF"].status = "BLOWN_OFF" /\ [r EXCEPT !.status = "BLOWN_OFF"].threads = 1
    BY Zenon, <1>1, <2>2, StatusSet DEF Status, Inside, Counts
  <2>5. QED
    BY <2>1, <2>3, <2>4
<1>6. CASE r.status # "CLOSING" /\ ~(r.status \in {"BLOWN_OFF", "COMMITTED"} /\ LT_IS_RUNNING(r))
  <2>1. Frozen(r) = [r EXCEPT !.status = "FREEZE"]
    BY Zenon, <1>6 DEF Frozen
  <2>2. \/ Inside(r) /\ r.status \in {"PENDING", "FREEZE"}
        \/ ~Inside(r) /\ ~Idle(r) /\ r.status \in {"BLOWN_OFF", "COMMITTED"}
        \/ InVdb(r) /\ r.status = "PENDING"
    <3>1. CASE r.status \in {"BLOWN_OFF", "COMMITTED"}
      <4>1. r.threads > 0
        BY Zenon, <3>1, NotStoppedIs
      <4>2. ~Idle(r)
        BY <4>1 DEF Idle, Counts
      <4>3. QED
        BY Zenon, <1>2, <1>6, <3>1, <4>2
    <3>2. CASE r.status = "FREEZE"
      BY Zenon, <1>2, <3>2, NotStoppedIs
    <3>3. CASE r.status = "PENDING"
      <4>1. r.threads > 0 /\ r.lw = 0
        BY Zenon, <3>3, NotStoppedIs
      <4>2. ~Idle(r) /\ ~InWait(r)
        BY <4>1 DEF Idle, InWait, Counts
      <4>3. Inside(r) \/ InVdb(r)
        BY <3>3, <4>2 DEF Fits, Places
      <4>4. QED
        BY Zenon, <3>3, <4>3
    <3>4. QED
      BY Zenon, <1>3, <1>6, <3>1, <3>2, <3>3
  <2>3. Fits(t, w, n, [r EXCEPT !.status = "FREEZE"], z, o, c, k)
    BY Zenon, <2>2, <1>6, <1>2, FitsStatus
  <2>4. /\ [r EXCEPT !.status = "FREEZE"].status = "FREEZE"
        /\ [r EXCEPT !.status = "FREEZE"].threads = r.threads
    BY Zenon, <1>1, StatusSet DEF Status
  <2>5. r.threads # 0
    BY <1>2, <2>2 DEF InVdb, Inside, Counts
  <2>6. QED
    BY Zenon, <2>1, <2>3, <2>4, <2>5
<1>7. QED
  BY Zenon, <1>3, <1>4, <1>5, <1>6

\* The rest of the state while only the records and the checkpoint change.
LEMMA CptRest ==
  ASSUME Well, UNCHANGED <<checkpointer, failed>>, lt' = [u \in Trx |-> lt'[u]],
         waiting_checkpoint' \subseteq Trx, cpt' \in {"idle", "scan", "dead", "atomic", "log"},
         \A u \in Trx : Fits(u, pc[u], then[u], lt'[u], waiting_checkpoint', owner, cpt', killer)
  PROVE  Well'
<1>1. owner' = owner /\ pc' = pc /\ then' = then /\ killer' = killer /\ failed' = failed
  BY Zenon DEF checkpointer
<1>2. \A u \in Trx : FitsNow(u)'
  BY Zenon, <1>1 DEF FitsNow
<1>3. KillerFits'
  BY Zenon, <1>1 DEF Well, Table, KillerFits
<1>4. QED
  BY Zenon, <1>1, <1>2, <1>3 DEF Well, Table

\* The checkpoint begins, goes on after a wait, or is atomic.
LEMMA CptStepKeeps ==
  ASSUME Well, BeginCheckpoint \/ CptResumes \/ CptAtomic
  PROVE  Well'
<1>1. /\ UNCHANGED <<checkpointer, failed>> /\ lt' = lt /\ waiting_checkpoint' = waiting_checkpoint
      /\ cpt' \in {"idle", "scan", "dead", "atomic", "log"}
  BY Zenon DEF BeginCheckpoint, CptResumes, CptAtomic
<1>2. (Stops(cpt') => Stops(cpt)) \/ (\A u \in Trx : ~NotStopped(lt[u]))
  BY Zenon DEF BeginCheckpoint, CptResumes, CptAtomic, Stops
<1>3. \A u \in Trx : Fits(u, pc[u], then[u], lt[u], waiting_checkpoint, owner, cpt', killer)
  BY Zenon, <1>2, Here, FitsCpt, FitsStopped
<1>4. lt' = [u \in Trx |-> lt'[u]] /\ waiting_checkpoint' \subseteq Trx
  BY Zenon, <1>1 DEF Well, Table
<1>5. \A u \in Trx : Fits(u, pc[u], then[u], lt'[u], waiting_checkpoint', owner, cpt', killer)
  BY Zenon, <1>1, <1>3
<1>6. QED
  BY Zenon, <1>1, <1>4, <1>5, CptRest

\* One turn of cpt_rollback: the transaction it waits for has a thread inside.
LEMMA cpt_rollbackKeeps ==
  ASSUME Well, NEW t \in Trx, cpt_rollback(t)
  PROVE  Well'
<1> DEFINE r == Frozen(lt[t])
           waits == lt[t].status = "CLOSING" \/ LT_IS_RUNNING(lt[t])
           q == IF waits THEN [r EXCEPT !.wait_end = @ \cup {"cpt"}] ELSE r
<1>1. cpt = "scan" /\ NotStopped(lt[t]) /\ UNCHANGED <<checkpointer, waiting_checkpoint>>
  BY Zenon DEF cpt_rollback
<1>2. ~Stops(cpt)
  BY Zenon, <1>1 DEF Stops
<1>3. /\ Fits(t, pc[t], then[t], r, waiting_checkpoint, owner, cpt, killer)
      /\ r.status # "DELTA_ROLLED_BACK" /\ r.threads # 0
  BY Zenon, <1>1, <1>2, Here, FitsFrozen
<1>4. /\ lt' = [lt EXCEPT ![t] = q] /\ UNCHANGED failed
      /\ cpt' = IF waits THEN "dead" ELSE "scan"
  BY Zenon, <1>3 DEF cpt_rollback
<1>5. Fits(t, pc[t], then[t], q, waiting_checkpoint, owner, cpt, killer)
  <2>1. CASE waits
    BY Zenon, <1>3, <2>1, FitsAwaited
  <2>2. CASE ~waits
    BY Zenon, <1>3, <2>2
  <2>3. QED
    BY Zenon, <2>1, <2>2
<1> HIDE DEF r, waits, q
<1>6. cpt' \in {"scan", "dead"} /\ ~Stops(cpt')
  BY Zenon, <1>4 DEF Stops
<1>7. lt' = [u \in Trx |-> lt'[u]] /\ lt'[t] = q /\ \A u \in Trx : u # t => lt'[u] = lt[u]
  BY Zenon, <1>4 DEF Well, Table
<1>8. ASSUME NEW u \in Trx
      PROVE  Fits(u, pc[u], then[u], lt'[u], waiting_checkpoint, owner, cpt', killer)
  <2>1. Fits(u, pc[u], then[u], lt'[u], waiting_checkpoint, owner, cpt, killer)
    BY Zenon, <1>5, <1>7, Here
  <2>2. QED
    BY Zenon, <1>6, <2>1, FitsCpt
<1>9. waiting_checkpoint' = waiting_checkpoint /\ UNCHANGED <<checkpointer, failed>>
  BY Zenon, <1>1, <1>4
<1>10. waiting_checkpoint' \subseteq Trx /\ cpt' \in {"idle", "scan", "dead", "atomic", "log"}
  BY Zenon, <1>6, <1>9 DEF Well, Table
<1>11. \A u \in Trx : Fits(u, pc[u], then[u], lt'[u], waiting_checkpoint', owner, cpt', killer)
  BY Zenon, <1>8, <1>9
<1>12. QED
  BY Zenon, <1>7, <1>9, <1>10, <1>11, CptRest

\* What slept frozen is pending again.
LEMMA FitsThawed ==
  ASSUME NEW t, NEW n, NEW r, NEW z, NEW o, NEW c, NEW d, NEW k,
         Fits(t, "frozen", n, r, z, o, c, k), t \in z, ~Stops(d)
  PROVE  Fits(t, "frozen", n, Thawed(r), {}, o, d, k)
<1>1. r \in Records /\ Left(t, k) /\ Acked(r) /\ r.status = "FREEZE"
  BY Zenon DEF Fits
<1>2. Thawed(r) \in Records /\ Inside(Thawed(r)) /\ Thawed(r).status \in {"PENDING", "BLOWN_OFF"}
  BY Zenon, <1>1, ThawedInside
<1>3. QED
  BY Zenon, <1>1, <1>2 DEF Fits, Places

\* Who sleeps matters for what is frozen only.
LEMMA FitsWoken ==
  ASSUME NEW t, NEW w, NEW n, NEW r, NEW z, NEW y, NEW o, NEW c, NEW k,
         Fits(t, w, n, r, z, o, c, k), w # "frozen"
  PROVE  Fits(t, w, n, r, y, o, c, k)
BY Zenon DEF Fits

\* cpt_over.
LEMMA cpt_overKeeps ==
  ASSUME Well, cpt_over
  PROVE  Well'
<1>1. /\ cpt' = "idle" /\ waiting_checkpoint' = {} /\ UNCHANGED <<checkpointer, failed>>
      /\ lt' = [u \in Trx |-> IF u \in waiting_checkpoint /\ pc[u] = "frozen"
                              THEN Thawed(lt[u]) ELSE lt[u]]
  BY Zenon DEF cpt_over
<1>2. ~Stops("idle")
  BY Zenon DEF Stops
<1>3. ASSUME NEW u \in Trx
      PROVE  Fits(u, pc[u], then[u], lt'[u], {}, owner, "idle", killer)
  <2>1. Fits(u, pc[u], then[u], lt[u], waiting_checkpoint, owner, cpt, killer)
    BY Zenon, Here
  <2>2. CASE u \in waiting_checkpoint /\ pc[u] = "frozen"
    <3>1. lt'[u] = Thawed(lt[u])
      BY Zenon, <1>1, <2>2
    <3>2. QED
      BY Zenon, <1>2, <2>1, <2>2, <3>1, FitsThawed
  <2>3. CASE ~(u \in waiting_checkpoint /\ pc[u] = "frozen")
    <3>1. lt'[u] = lt[u]
      BY Zenon, <1>1, <2>3
    <3>2. Fits(u, pc[u], then[u], lt[u], waiting_checkpoint, owner, "idle", killer)
      BY Zenon, <1>2, <2>1, FitsCpt
    <3>3. Fits(u, pc[u], then[u], lt[u], {}, owner, "idle", killer)
      <4>1. CASE pc[u] # "frozen"
        BY Zenon, <3>2, <4>1, FitsWoken
      <4>2. CASE u \notin waiting_checkpoint
        BY Zenon, <3>2, <4>2, FitsOthers
      <4>3. QED
        BY Zenon, <2>3, <4>1, <4>2
    <3>4. QED
      BY Zenon, <3>1, <3>3
  <2>4. QED
    BY Zenon, <2>2, <2>3
<1>4. lt' = [u \in Trx |-> lt'[u]]
  BY Zenon, <1>1
<1>5. waiting_checkpoint' \subseteq Trx /\ cpt' \in {"idle", "scan", "dead", "atomic", "log"}
  BY Zenon, <1>1
<1>6. \A u \in Trx : Fits(u, pc[u], then[u], lt'[u], waiting_checkpoint', owner, cpt', killer)
  BY Zenon, <1>1, <1>3
<1>7. QED
  BY Zenon, <1>1, <1>4, <1>5, <1>6, CptRest

\* The killer does something to t only: its record becomes r and the killer k.
LEMMA KillerMoves ==
  ASSUME Well, NEW t \in Trx, NEW r, NEW k,
         lt' = [lt EXCEPT ![t] = r], killer' = k,
         UNCHANGED <<killed, owner, pc, failed>>,
         Fits(t, pc[t], then[t], r, waiting_checkpoint, owner, cpt, k),
         killer = NoKill \/ killer.trx = t,
         \/ k = NoKill
         \/ k \in [at : {"begin", "release", "spin", "dead"}, trx : {t}, alone : BOOLEAN] /\ k.at # "spin"
  PROVE  Well'
<1>1. /\ then' = then /\ waiting_checkpoint' = waiting_checkpoint /\ cpt' = cpt /\ owner' = owner
      /\ pc' = pc /\ failed' = failed
  BY Zenon DEF killed
<1>2. lt' = [u \in Trx |-> lt'[u]] /\ lt'[t] = r /\ \A u \in Trx : u # t => lt'[u] = lt[u]
  BY Zenon DEF Well, Table
<1>3. NoKill.trx \notin Trx /\ NoKill.at = "idle"
  BY Zenon, NoTrxIsNone DEF NoKill
<1>4. ASSUME NEW u \in Trx PROVE FitsNow(u)'
  <2>1. CASE u = t
    BY Zenon, <1>1, <1>2, <2>1 DEF FitsNow
  <2>2. CASE u # t
    <3>1. killer.trx # u
      BY Zenon, <1>3, <2>2
    <3>2. k.trx # u
      BY Zenon, <1>3, <2>2
    <3>3. Fits(u, pc[u], then[u], lt[u], waiting_checkpoint, owner, cpt, k)
      BY Zenon, <3>1, <3>2, Here, FitsKilled DEF Left
    <3>4. QED
      BY Zenon, <1>1, <1>2, <2>2, <3>3 DEF FitsNow
  <2>3. QED
    BY Zenon, <2>1, <2>2
<1>5. KillerFits'
  <2>1. killer' = NoKill \/ killer' \in [at : {"begin", "release", "spin", "dead"}, trx : Trx, alone : BOOLEAN]
    BY Zenon
  <2>2. killer'.at # "spin"
    BY Zenon, <1>3
  <2>3. QED
    BY Zenon, <2>1, <2>2 DEF KillerFits
<1>6. QED
  BY Zenon, <1>1, <1>2, <1>4, <1>5 DEF Well, Table

\* A killer at work has a transaction.
LEMMA KillerIs ==
  ASSUME Well, killer.at \in {"begin", "release", "spin", "dead"}
  PROVE  killer.trx \in Trx /\ killer.alone \in BOOLEAN
<1>1. killer # NoKill
  BY DEF NoKill
<1>2. killer \in [at : {"begin", "release", "spin", "dead"}, trx : Trx, alone : BOOLEAN]
  BY Zenon, <1>1 DEF Well, Table, KillerFits
<1>3. QED
  BY Zenon, <1>2

\* What waits for a lock, is in an io section or was found idle, once lt_rollback_other has begun.
LEMMA FitsEnding ==
  ASSUME NEW t, NEW w, NEW n, NEW r \in Records, NEW q, NEW z, NEW o, NEW c, NEW k, NEW j,
         Fits(t, w, n, q, z, o, c, j), r.status = "CLOSING", ~Stops(c), k.trx = t, k.at = "release",
         \/ ~k.alone /\ w = "lock" /\ InWait(r)
         \/ ~k.alone /\ w = "vdb" /\ InVdb(r)
         \/ k.alone /\ w \in {"out", "enter"} /\ Acked(r)
  PROVE  Fits(t, w, n, r, z, o, c, k)
<1>1. ~k.alone => Ends(t, k, {"release"}) /\ Ends(t, k, {"release", "spin"})
  BY Zenon DEF Ends
<1>2. k.alone => EndsIdle(t, k, {"release", "spin"})
  BY Zenon DEF EndsIdle
<1>3. QED
  BY ZenonT(30), <1>1, <1>2 DEF Fits, Places

\* lt_rollback_other: the threads counted add up, and it begins or waits for the checkpoint.
LEMMA KillerTransactsKeeps ==
  ASSUME Well, NEW t \in Trx, NEW r \in Records, NEW alone \in BOOLEAN, KillerTransacts(t, r, alone),
         UNCHANGED <<killed, owner, pc>>, killer = NoKill \/ killer.trx = t,
         r.status \in {"BLOWN_OFF", "FREEZE"},
         \/ ~alone /\ pc[t] = "lock" /\ InWait(r)
         \/ ~alone /\ pc[t] = "vdb" /\ InVdb(r) /\ ~Atomic
         \/ alone /\ pc[t] \in {"out", "enter"} /\ Acked(r)
  PROVE  Well'
<1> DEFINE k(where) == [at |-> where, trx |-> t, alone |-> alone]
           q == [r EXCEPT !.status = "CLOSING", !.timeout = FALSE]
<1>1. r.threads = r.lw + r.ack + r.vdb
  BY DEF InWait, InVdb, Acked, Counts
<1>2. ASSUME NEW x \in {"begin", "release"}
      PROVE  /\ k(x) \in [at : {"begin", "release", "spin", "dead"}, trx : {t}, alone : BOOLEAN]
             /\ k(x).at # "spin" /\ k(x).at = x /\ k(x).trx = t /\ k(x).alone = alone
  BY Zenon
<1>3. CASE Atomic
  <2>1. killer' = k("begin") /\ lt' = [lt EXCEPT ![t] = r] /\ UNCHANGED failed
    BY Zenon, <1>3 DEF KillerTransacts
  <2>2. \/ ~alone /\ pc[t] = "lock" /\ InWait(r)
        \/ alone /\ pc[t] \in {"out", "enter"} /\ Acked(r)
    BY Zenon, <1>3
  <2> HIDE DEF k
  <2>3. /\ ~alone => Ends(t, k("begin"), {"begin"})
        /\ alone => EndsIdle(t, k("begin"), {"begin"})
    BY Zenon, <1>2 DEF Ends, EndsIdle
  <2>4. Fits(t, pc[t], then[t], lt[t], waiting_checkpoint, owner, cpt, killer)
    BY Zenon, Here
  <2>5. Fits(t, pc[t], then[t], r, waiting_checkpoint, owner, cpt, k("begin"))
    BY ZenonT(30), <2>2, <2>3, <2>4 DEF Fits, Places
  <2>6. /\ k("begin") \in [at : {"begin", "release", "spin", "dead"}, trx : {t}, alone : BOOLEAN]
        /\ k("begin").at # "spin"
    BY Zenon, <1>2
  <2>7. QED
    BY Zenon, <2>1, <2>5, <2>6, KillerMoves
<1>4. CASE ~Atomic
  <2>1. r.status # "DELTA_ROLLED_BACK" /\ r.status # "CLOSING"
    OBVIOUS
  <2>2. killer' = k("release") /\ lt' = [lt EXCEPT ![t] = q] /\ UNCHANGED failed
    BY Zenon, <1>1, <1>4, <2>1 DEF KillerTransacts
  <2>3. /\ q \in Records /\ q.status = "CLOSING"
        /\ \/ ~alone /\ pc[t] = "lock" /\ InWait(q)
           \/ ~alone /\ pc[t] = "vdb" /\ InVdb(q)
           \/ alone /\ pc[t] \in {"out", "enter"} /\ Acked(q)
    <3>1. /\ q \in Records /\ q.status = "CLOSING"
          /\ q.threads = r.threads /\ q.lw = r.lw /\ q.ack = r.ack /\ q.vdb = r.vdb
      BY Zenon, ClosingSet
    <3> HIDE DEF q
    <3>2. QED
      BY Zenon, <3>1 DEF InWait, InVdb, Acked, Counts
  <2>4. ~Stops(cpt)
    BY Zenon, <1>4 DEF Atomic, Stops
  <2> HIDE DEF k, q
  <2>5. /\ k("release") \in [at : {"begin", "release", "spin", "dead"}, trx : {t}, alone : BOOLEAN]
        /\ k("release").at # "spin" /\ k("release").at = "release" /\ k("release").trx = t
        /\ k("release").alone = alone
    BY Zenon, <1>2
  <2>6. Fits(t, pc[t], then[t], q, waiting_checkpoint, owner, cpt, k("release"))
    <3>1. Fits(t, pc[t], then[t], lt[t], waiting_checkpoint, owner, cpt, killer)
      BY Zenon, Here
    <3>2. QED
      BY Zenon, <2>3, <2>4, <2>5, <3>1, FitsEnding
  <2>7. QED
    BY Zenon, <2>2, <2>5, <2>6, KillerMoves
<1>5. QED
  BY Zenon, <1>3, <1>4

\* A kill finds a thread inside, running, waiting for a lock or in an io section, or an
\* idle transaction.
LEMMA Killable ==
  ASSUME Well, NEW t \in Trx, killer = NoKill, MayKill(t)
  PROVE  /\ lt[t] \in Records
         /\ \/ Inside(lt[t]) /\ lt[t].status = "PENDING" /\ ~Atomic
            \/ pc[t] = "lock" /\ InWait(lt[t]) /\ lt[t].status = "PENDING"
            \/ pc[t] = "vdb" /\ InVdb(lt[t]) /\ lt[t].status = "PENDING" /\ ~Atomic
            \/ lt[t].status = "FREEZE" /\ InVdb(lt[t])
            \/ pc[t] \in {"out", "enter"} /\ Idle(lt[t]) /\ lt[t].status = "PENDING"
<1>1. Fits(t, pc[t], then[t], lt[t], waiting_checkpoint, owner, cpt, killer)
  BY Zenon, Here
<1>2. killer.trx # t
  BY Zenon, NoTrxIsNone DEF NoKill
<1>3. lt[t] \in Records
  BY Zenon, <1>1 DEF Fits
<1>4. (\A ats : ~Ends(t, killer, ats)) /\ (\A ats : ~EndsIdle(t, killer, ats))
  BY Zenon, <1>2 DEF Ends, EndsIdle
<1>5. CASE lt[t].status = "PENDING"
  BY Zenon, <1>1, <1>3, <1>4, <1>5 DEF Fits, Places, Atomic, Stops
<1>6. CASE lt[t].status # "PENDING"
  <2>1. lt[t].status # "DELTA_ROLLED_BACK" /\ lt[t].lw + lt[t].vdb > 0
    BY Zenon, <1>6 DEF MayKill
  <2>2. ~Inside(lt[t]) /\ ~Acked(lt[t]) /\ ~Idle(lt[t])
    BY <2>1 DEF Inside, Acked, Idle, Counts
  <2>3. QED
    BY Zenon, <1>1, <1>3, <1>4, <1>6, <2>1, <2>2 DEF Fits, Places
<1>7. QED
  BY Zenon, <1>5, <1>6

\* lt_kill_other_trx.
LEMMA lt_kill_other_trxKeeps ==
  ASSUME Well, NEW t \in Trx, lt_kill_other_trx(t)
  PROVE  Well'
<1> DEFINE r == lt[t]
           b == [r EXCEPT !.status = "BLOWN_OFF"]
<1>1. killer = NoKill /\ MayKill(t) /\ UNCHANGED <<killed, owner, pc>>
  BY Zenon DEF lt_kill_other_trx
<1>2. /\ r \in Records
      /\ \/ Inside(r) /\ r.status = "PENDING" /\ ~Atomic
         \/ pc[t] = "lock" /\ InWait(r) /\ r.status = "PENDING"
         \/ pc[t] = "vdb" /\ InVdb(r) /\ r.status = "PENDING" /\ ~Atomic
         \/ r.status = "FREEZE" /\ InVdb(r)
         \/ pc[t] \in {"out", "enter"} /\ Idle(r) /\ r.status = "PENDING"
  BY Zenon, <1>1, Killable
<1>3. /\ b \in Records /\ b.status = "BLOWN_OFF" /\ b.threads = r.threads
      /\ InWait(r) => InWait(b)
      /\ InVdb(r) => InVdb(b)
  BY Zenon, <1>2, StatusSet DEF InWait, InVdb, Counts, Status
<1>4. r.status # "CLOSING"
  BY Zenon, <1>2
<1>5. CASE Inside(r) /\ r.status = "PENDING" /\ ~Atomic
  <2> DEFINE q == [b EXCEPT !.wait_end = @ \cup {"killer"}]
             k == [NoKill EXCEPT !.at = "dead", !.trx = t]
  <2>1. LT_IS_RUNNING(r) /\ b.threads # 0
    BY <1>2, <1>3, <1>5 DEF LT_IS_RUNNING, Inside, Counts
  <2>2. KillerAwaits(t, b)
    BY Zenon, <1>4, <2>1 DEF lt_kill_other_trx
  <2>3. lt' = [lt EXCEPT ![t] = q] /\ killer' = k /\ UNCHANGED failed
    BY Zenon, <2>1, <2>2 DEF KillerAwaits
  <2>4. k \in [at : {"begin", "release", "spin", "dead"}, trx : {t}, alone : BOOLEAN] /\ k.at = "dead"
    BY Zenon DEF NoKill
  <2>5. k.at # "spin" /\ Left(t, k)
    BY Zenon, <2>4 DEF Left
  <2>6. Fits(t, pc[t], then[t], b, waiting_checkpoint, owner, cpt, killer)
    <3>1. ~Stops(cpt)
      BY Zenon, <1>5 DEF Atomic, Stops
    <3>2. Fits(t, pc[t], then[t], r, waiting_checkpoint, owner, cpt, killer)
      BY Zenon, Here
    <3>3. r.status \in {"PENDING", "BLOWN_OFF", "COMMITTED"}
      BY Zenon, <1>5
    <3>4. QED
      BY Zenon, <1>5, <3>1, <3>2, <3>3, FitsStatus
  <2>7. b.status # "DELTA_ROLLED_BACK"
    BY Zenon, <1>3
  <2>8. Fits(t, pc[t], then[t], q, waiting_checkpoint, owner, cpt, killer)
    BY Zenon, <2>6, <2>7, FitsAwaited
  <2>9. Left(t, killer)
    BY Zenon, <1>1, NoTrxIsNone DEF NoKill, Left
  <2> HIDE DEF q, k
  <2>10. Fits(t, pc[t], then[t], q, waiting_checkpoint, owner, cpt, k)
    BY Zenon, <2>5, <2>8, <2>9, FitsKilled
  <2>11. QED
    BY Zenon, <1>1, <2>3, <2>4, <2>5, <2>10, KillerMoves
<1>6. CASE r.status = "PENDING" /\ ((pc[t] = "lock" /\ InWait(r)) \/ (pc[t] = "vdb" /\ InVdb(r) /\ ~Atomic))
  <2>1. ~LT_IS_RUNNING(r) /\ r.status # "FREEZE" /\ r.threads # 0
    BY <1>6 DEF LT_IS_RUNNING, InWait, InVdb, Counts
  <2>2. KillerTransacts(t, b, FALSE)
    BY Zenon, <1>4, <2>1 DEF lt_kill_other_trx
  <2>3. b.status \in {"BLOWN_OFF", "FREEZE"} /\ FALSE \in BOOLEAN
    BY Zenon, <1>3
  <2> HIDE DEF b
  <2>4. QED
    BY Zenon, <1>1, <1>3, <1>6, <2>2, <2>3, KillerTransactsKeeps DEF r
<1>7. CASE r.status = "FREEZE" /\ InVdb(r)
  <2>1. ~LT_IS_RUNNING(r)
    BY <1>7 DEF LT_IS_RUNNING, InVdb, Counts
  <2>2. UNCHANGED <<lt, killer, failed>>
    BY Zenon, <1>4, <1>7, <2>1 DEF lt_kill_other_trx
  <2>3. QED
    BY Zenon, <1>1, <2>2 DEF Well, Table, FitsNow, KillerFits, killed
<1>8. CASE pc[t] \in {"out", "enter"} /\ Idle(r) /\ r.status = "PENDING"
  <2> DEFINE q == [b EXCEPT !.threads = 1, !.ack = 1]
  <2>1. ~LT_IS_RUNNING(r) /\ r.status # "FREEZE" /\ r.threads = 0
    BY <1>8 DEF LT_IS_RUNNING, Idle, Counts
  <2>2. KillerTransacts(t, q, TRUE)
    BY Zenon, <1>4, <2>1 DEF lt_kill_other_trx
  <2>3. q \in Records /\ q.status = "BLOWN_OFF" /\ Acked(q)
    BY Zenon, <1>2, <1>8, IdleCounted
  <2> HIDE DEF q
  <2>4. q.status \in {"BLOWN_OFF", "FREEZE"} /\ TRUE \in BOOLEAN
    BY Zenon, <2>3
  <2>5. QED
    BY Zenon, <1>1, <1>8, <2>2, <2>3, <2>4, KillerTransactsKeeps
<1>9. QED
  BY Zenon, <1>2, <1>5, <1>6, <1>7, <1>8

\* lt_rollback_other after the checkpoint.
LEMMA KillerBeginsKeeps ==
  ASSUME Well, KillerBegins
  PROVE  Well'
<1> DEFINE t == killer.trx
<1>1. killer.at = "begin" /\ ~Pending /\ UNCHANGED <<killed, owner, pc>>
  BY Zenon DEF KillerBegins
<1>2. t \in Trx /\ killer.alone \in BOOLEAN
  BY Zenon, <1>1, KillerIs
<1>3. Fits(t, pc[t], then[t], lt[t], waiting_checkpoint, owner, cpt, killer)
  BY Zenon, <1>2, Here
<1>4. /\ lt[t] \in Records /\ lt[t].status \in {"BLOWN_OFF", "FREEZE"}
      /\ \/ ~killer.alone /\ pc[t] = "lock" /\ InWait(lt[t])
         \/ killer.alone /\ pc[t] \in {"out", "enter"} /\ Acked(lt[t])
  BY Zenon, <1>1, <1>3 DEF Fits, Places, Left, Ends, EndsIdle
<1>5. KillerTransacts(t, lt[t], killer.alone)
  BY Zenon DEF KillerBegins
<1> HIDE DEF t
<1>6. killer.trx = t
  BY Zenon DEF t
<1>7. QED
  BY Zenon, <1>1, <1>2, <1>4, <1>5, <1>6, KillerTransactsKeeps

\* The killer releases the lock and wakes the thread of the transaction.
LEMMA KillerReleasesKeeps ==
  ASSUME Well, KillerReleases
  PROVE  Well'
<1>0. killer.at = "release" /\ killer' = [killer EXCEPT !.at = "spin"] /\ UNCHANGED <<killed, failed>>
  BY Zenon DEF KillerReleases
<1>1. PICK t, j : t = killer.trx /\ j = killer'
  OBVIOUS
<1>2. t \in Trx
  BY Zenon, <1>0, <1>1, KillerIs
<1>3. killer \in [at : {"begin", "release", "spin", "dead"}, trx : Trx, alone : BOOLEAN]
  <2>1. killer # NoKill
    BY <1>0 DEF NoKill
  <2>2. QED
    BY Zenon, <2>1 DEF Well, Table, KillerFits
<1>4. j.trx = t /\ j.at = "spin" /\ j.alone = killer.alone /\ j \in [at : {"begin", "release", "spin", "dead"}, trx : Trx, alone : BOOLEAN]
  BY Zenon, <1>0, <1>1, <1>3
<1>5. PICK o \in NextOwner(t) : Releases(t, o)
  BY Zenon, <1>1 DEF KillerReleases
<1>6. then' = then /\ waiting_checkpoint' = waiting_checkpoint /\ cpt' = cpt /\ failed' = failed
  BY Zenon, <1>0 DEF killed
<1>7. Fits(t, pc[t], then[t], lt[t], waiting_checkpoint, owner, cpt, killer)
  BY Zenon, <1>2, Here
<1>8. /\ lt[t] \in Records /\ lt[t].status = "CLOSING" /\ ~Stops(cpt)
      /\ \/ ~killer.alone /\ pc[t] = "lock" /\ InWait(lt[t])
         \/ ~killer.alone /\ pc[t] = "dead" /\ Acked(lt[t]) /\ "client" \in lt[t].wait_end
         \/ ~killer.alone /\ pc[t] = "vdb" /\ InVdb(lt[t])
         \/ killer.alone /\ pc[t] \in {"out", "enter"} /\ Acked(lt[t])
  BY Zenon, <1>0, <1>1, <1>7 DEF Fits, Places, Left, Ends, EndsIdle
<1>9. o # t /\ owner' = o
  BY Zenon, <1>2, <1>5, NextOwnerIs DEF Releases
<1>10. /\ ~killer.alone => Ends(t, j, {"spin"}) /\ Ends(t, j, {"release", "spin"})
       /\ killer.alone => EndsIdle(t, j, {"release", "spin"})
  BY Zenon, <1>4 DEF Ends, EndsIdle
<1>11. FitsNow(t)'
  <2>1. CASE pc[t] = "lock"
    <3> DEFINE q == [lt[t] EXCEPT !.lw = @ - 1]
    <3>1. t \in {x \in {t, o} \ {NoTrx} : pc[x] = "lock"}
      BY Zenon, <1>2, <2>1, NoTrxIsNone
    <3>2. lt'[t] = q /\ pc'[t] = "woken"
      BY Zenon, <1>2, <1>5, <3>1 DEF Releases
    <3>3. InWait(lt[t]) /\ ~killer.alone
      BY Zenon, <1>8, <2>1
    <3>4. q \in Records /\ q.status = "CLOSING" /\ Inside(q)
      BY Zenon, <1>8, <3>3, WaitUncounted
    <3> HIDE DEF q
    <3>5. Fits(t, "woken", then[t], q, waiting_checkpoint, o, cpt, j)
      BY Zenon, <1>8, <1>10, <3>3, <3>4 DEF Fits, Places
    <3>6. QED
      BY Zenon, <1>1, <1>6, <1>9, <3>2, <3>5 DEF FitsNow
  <2>2. CASE pc[t] \in {"dead", "vdb", "out", "enter"}
    <3>1. pc[t] # "lock" /\ pc[t] # "release"
      BY Zenon, <2>2
    <3>2. lt'[t] = lt[t] /\ pc'[t] = pc[t]
      BY Zenon, <1>2, <1>5, <3>1 DEF Releases
    <3>3. Fits(t, pc[t], then[t], lt[t], waiting_checkpoint, o, cpt, j)
      BY Zenon, <1>8, <1>9, <1>10, <2>2 DEF Fits, Places
    <3>4. QED
      BY Zenon, <1>1, <1>6, <1>9, <3>2, <3>3 DEF FitsNow
  <2>3. QED
    BY Zenon, <1>8, <2>1, <2>2
<1>12. ASSUME NEW u \in Trx, u # t PROVE FitsNow(u)'
  <2>1. ~Atomic
    BY Zenon, <1>8 DEF Atomic, Stops
  <2>2. killer.trx # u /\ killer'.trx # u
    BY Zenon, <1>1, <1>4, <1>12
  <2>3. QED
    BY Zenon, <1>2, <1>5, <1>6, <1>12, <2>1, <2>2, ReleasesOthers
<1>13. KillerFits'
  BY Zenon, <1>1, <1>4, <1>9 DEF KillerFits
<1>14. QED
  BY Zenon, <1>2, <1>5, <1>6, <1>11, <1>12, <1>13, ReleasesRest DEF Well, Table

\* The killer ends the transaction once its thread has acknowledged or is in an io section,
\* or gives back the thread it has counted.
LEMMA KillOverKeeps ==
  ASSUME Well, KillOver
  PROVE  Well'
<1> DEFINE t == killer.trx
           e == RolledBack(lt[t])
           q == IF killer.alone THEN [e EXCEPT !.threads = 0] ELSE e
<1>1. /\ killer.at = "spin" /\ lt[t].threads <= lt[t].ack + lt[t].vdb
      /\ killer' = NoKill /\ UNCHANGED <<killed, owner, pc, failed>>
  BY Zenon DEF KillOver
<1>2. t \in Trx /\ killer.alone \in BOOLEAN /\ owner # t
  BY Zenon, <1>1, KillerIs DEF Well, Table, KillerFits
<1>3. Fits(t, pc[t], then[t], lt[t], waiting_checkpoint, owner, cpt, killer)
  BY Zenon, <1>2, Here
<1>4. ~Inside(lt[t])
  BY <1>1 DEF Inside, Counts
<1>5. /\ lt[t] \in Records
      /\ \/ ~killer.alone /\ pc[t] = "dead" /\ Acked(lt[t])
         \/ ~killer.alone /\ pc[t] = "vdb" /\ InVdb(lt[t])
         \/ killer.alone /\ pc[t] \in {"out", "enter"} /\ Acked(lt[t])
  BY Zenon, <1>1, <1>3, <1>4 DEF Fits, Places, Left, Ends, EndsIdle
<1>6. /\ e \in Records /\ e.status = "DELTA_ROLLED_BACK" /\ e.wait_end = {}
      /\ Acked(lt[t]) => Inside(e)
      /\ InVdb(lt[t]) => InVdb(e)
  BY Zenon, <1>5, EndedRecord
<1>7. Left(t, NoKill)
  BY Zenon, <1>2, NoTrxIsNone DEF Left, NoKill
<1>8. lt' = [lt EXCEPT ![t] = q]
  BY Zenon DEF KillOver
<1> HIDE DEF e
<1>9. /\ q \in Records /\ q.status = "DELTA_ROLLED_BACK" /\ q.wait_end = {}
      /\ \/ pc[t] = "dead" /\ Inside(q)
         \/ pc[t] = "vdb" /\ InVdb(q)
         \/ pc[t] \in {"out", "enter"} /\ Idle(q)
  <2>1. CASE killer.alone
    <3>1. 0 \in 0..1 /\ Inside(e)
      BY <1>5, <1>6, <2>1
    <3>2. /\ [e EXCEPT !.threads = 0] \in Records /\ [e EXCEPT !.threads = 0].status = e.status
          /\ [e EXCEPT !.threads = 0].wait_end = e.wait_end /\ Idle([e EXCEPT !.threads = 0])
      BY Zenon, <1>6, <3>1, ThreadsSet
    <3>3. q = [e EXCEPT !.threads = 0]
      BY Zenon, <2>1
    <3> HIDE DEF q
    <3>4. QED
      BY Zenon, <1>5, <1>6, <2>1, <3>2, <3>3
  <2>2. CASE ~killer.alone
    BY Zenon, <1>5, <1>6, <2>2
  <2>3. QED
    BY Zenon, <2>1, <2>2
<1> HIDE DEF q
<1>10. Fits(t, pc[t], then[t], q, waiting_checkpoint, owner, cpt, NoKill)
  BY Zenon, <1>2, <1>7, <1>9 DEF Fits, Places
<1> HIDE DEF t
<1>11. killer.trx = t
  BY Zenon DEF t
<1>12. QED
  BY Zenon, <1>1, <1>2, <1>8, <1>10, <1>11, KillerMoves

\* The killer sees the transaction dead.
LEMMA KillSeenKeeps ==
  ASSUME Well, KillSeen
  PROVE  Well'
<1>1. killer.at = "dead" /\ killer' = NoKill /\ UNCHANGED <<killed, lt, owner, pc, failed>>
  BY Zenon DEF KillSeen
<1>2. NoKill.trx \notin Trx /\ NoKill.at # "spin"
  BY Zenon, NoTrxIsNone DEF NoKill
<1>3. ASSUME NEW u \in Trx PROVE FitsNow(u)'
  <2>1. Fits(u, pc[u], then[u], lt[u], waiting_checkpoint, owner, cpt, NoKill)
    BY Zenon, <1>1, <1>2, Here, FitsKilled DEF Left
  <2>2. QED
    BY Zenon, <1>1, <2>1 DEF FitsNow, killed
<1>4. KillerFits'
  BY Zenon, <1>1, <1>2 DEF KillerFits
<1>5. QED
  BY Zenon, <1>1, <1>3, <1>4 DEF Well, Table, killed

\* A client that ends the server.
LEMMA FailsKeeps ==
  ASSUME Well, NEW t \in Trx, Fails(t), UNCHANGED <<owner, cpt, killer>>
  PROVE  IInv'
<1>1. /\ lt' = lt /\ pc' = pc /\ then' = then /\ waiting_checkpoint' = waiting_checkpoint
      /\ owner' = owner /\ cpt' = cpt /\ killer' = killer /\ failed' = "increment"
  BY Zenon DEF Fails, Gpf
<1>2. Table'
  BY Zenon, <1>1 DEF Well, Table, FitsNow, KillerFits
<1>3. NoOtherGpf'
  BY Zenon, <1>1 DEF Fails, NoOtherGpf
<1>4. QED
  BY Zenon, <1>2, <1>3 DEF IInv

\* While the server is up it has reached no GPF_T1.
LEMMA WellFits == Well => IInv
BY Zenon DEF Well, IInv, NoOtherGpf

\* Whatever the thread of a client does, it ends where the invariant has it.
LEMMA ClientKeeps ==
  ASSUME Well, NEW t \in Trx, qi_initial_enter_trx(t) \/ Statement(t) \/ Continue(t)
  PROVE  Well' \/ IInv'
<1>1. CASE qi_initial_enter_trx(t)
  BY Zenon, <1>1, qi_initial_enter_trxMoves, MovesKeeps, FailsKeeps DEF qi_initial_enter_trx
<1>2. CASE TakeLock(t)
  BY Zenon, <1>2, TakeLockKeeps
<1>3. CASE lock_wait(t)
  BY Zenon, <1>3, lock_waitMoves, MovesKeeps DEF lock_wait
<1>4. CASE vdb_enter_lt(t)
  BY Zenon, <1>4, vdb_enter_ltMoves, MovesKeeps DEF vdb_enter_lt
<1>5. CASE lt_commit(t)
  BY Zenon, <1>5, lt_commitMoves, MovesKeeps DEF lt_commit
<1>6. CASE lt_rollback(t)
  BY Zenon, <1>6, lt_rollbackMoves, MovesKeeps DEF lt_rollback
<1>7. CASE WaitOver(t)
  BY Zenon, <1>7, WaitOverMoves, MovesKeeps DEF WaitOver
<1>8. CASE CheckTrxDead(t)
  BY Zenon, <1>8, CheckTrxDeadMoves, MovesKeeps DEF CheckTrxDead
<1>9. CASE itc_bust_this_trx(t)
  BY Zenon, <1>9, itc_bust_this_trxMoves, MovesKeeps DEF itc_bust_this_trx
<1>10. CASE lt_ack_freeze(t)
  BY Zenon, <1>10, lt_ack_freezeMoves, MovesKeeps DEF lt_ack_freeze
<1>11. CASE qi_check_trx_error(t)
  BY Zenon, <1>11, qi_check_trx_errorMoves, MovesKeeps DEF qi_check_trx_error
<1>12. CASE Thaw(t)
  BY Zenon, <1>12, ThawMoves, MovesKeeps DEF Thaw
<1>13. CASE lt_leave(t)
  BY Zenon, <1>13, lt_leaveMoves, MovesKeeps DEF lt_leave
<1>14. CASE vdb_leave_lt(t)
  BY Zenon, <1>14, vdb_leave_ltMoves, MovesKeeps DEF vdb_leave_lt
<1>15. CASE CommitLogged(t)
  BY Zenon, <1>15, CommitLoggedMoves, MovesKeeps DEF CommitLogged
<1>16. CASE RollbackLogged(t)
  BY Zenon, <1>16, RollbackLoggedMoves, MovesKeeps DEF RollbackLogged
<1>17. CASE Release(t)
  BY Zenon, <1>17, ReleaseKeeps
<1>18. CASE TransactOver(t)
  BY Zenon, <1>18, TransactOverMoves, MovesKeeps DEF TransactOver
<1>19. CASE DeadSeen(t)
  BY Zenon, <1>19, DeadSeenMoves, MovesKeeps DEF DeadSeen
<1>20. CASE lt_clear(t)
  BY Zenon, <1>20, lt_clearMoves, MovesKeeps DEF lt_clear
<1>21. CASE CheckpointSeen(t)
  BY Zenon, <1>21, CheckpointSeenMoves, MovesKeeps, FailsKeeps DEF CheckpointSeen
<1>22. QED
  BY Zenon, <1>1, <1>2, <1>3, <1>4, <1>5, <1>6, <1>7, <1>8, <1>9, <1>10, <1>11, <1>12, <1>13, <1>14, <1>15, <1>16, <1>17, <1>18, <1>19, <1>20, <1>21 DEF Statement, Continue

\* Initially every transaction is out, pending and idle.
LEMMA InitFits == Init => IInv
<1> SUFFICES ASSUME Init PROVE IInv
  OBVIOUS
<1>1. NoKill.trx \notin Trx /\ NoKill.at # "spin"
  BY Zenon, NoTrxIsNone DEF NoKill
<1>2. ASSUME NEW t \in Trx PROVE FitsNow(t)
  <2> DEFINE r == [status |-> "PENDING", threads |-> 0, lw |-> 0, ack |-> 0, vdb |-> 0, wait_end |-> {},
              timeout |-> FALSE]
  <2>1. r \in Records /\ Idle(r) /\ r.status = "PENDING"
    BY DEF Records, Idle, Counts, Status
  <2>2. lt[t] = r /\ pc[t] = "out" /\ killer = NoKill
    BY Zenon DEF Init
  <2>3. Left(t, NoKill)
    BY Zenon, <1>1 DEF Left
  <2> HIDE DEF r
  <2>4. QED
    BY Zenon, <2>1, <2>2, <2>3 DEF FitsNow, Fits, Places
<1>3. KillerFits
  BY Zenon, <1>1 DEF KillerFits, Init
<1>4. lt = [t \in Trx |-> lt[t]] /\ pc = [t \in Trx |-> pc[t]] /\ then = [t \in Trx |-> then[t]]
  BY Zenon DEF Init
<1>5. owner = NoTrx /\ waiting_checkpoint = {} /\ cpt = "idle" /\ failed = "none"
  BY Zenon DEF Init
<1>6. QED
  BY Zenon, <1>2, <1>3, <1>4, <1>5, WellFits DEF Well, Table

\* Every step keeps the invariant.
LEMMA NextFits == IInv /\ [Next]_vars => IInv'
<1> SUFFICES ASSUME IInv, [Next]_vars PROVE IInv'
  OBVIOUS
<1>1. CASE UNCHANGED vars
  BY Zenon, <1>1 DEF vars, IInv, NoOtherGpf, Table, FitsNow, KillerFits
<1>2. CASE Next
  <2>1. Well
    BY Zenon, <1>2 DEF Next, IInv, Well
  <2>2. Well' => IInv'
    BY Zenon DEF Well, IInv, NoOtherGpf
  <2>3. ASSUME NEW t \in Trx, qi_initial_enter_trx(t) \/ Statement(t) \/ Continue(t) PROVE Well' \/ IInv'
    BY Zenon, <2>1, <2>3, ClientKeeps
  <2>4. CASE BeginCheckpoint \/ Checkpoint
    BY Zenon, <2>1, <2>2, <2>4, CptStepKeeps, cpt_rollbackKeeps, cpt_overKeeps DEF Checkpoint
  <2>5. ASSUME NEW t \in Trx, lt_kill_other_trx(t) PROVE Well'
    BY Zenon, <2>1, <2>5, lt_kill_other_trxKeeps
  <2>6. CASE KillerStep
    BY Zenon, <2>1, <2>2, <2>6, KillerBeginsKeeps, KillerReleasesKeeps, KillOverKeeps, KillSeenKeeps DEF KillerStep
  <2>7. QED
    BY Zenon, <1>2, <2>2, <2>3, <2>4, <2>5, <2>6 DEF Next
<1>3. QED
  BY Zenon, <1>1, <1>2

\* The invariant holds in every reachable state.
LEMMA SpecFits == Spec => []IInv
BY InitFits, NextFits, PTL DEF Spec

\* While the checkpoint is atomic no lock changes hands: a thread that could take one is
\* in a statement of a transaction that has not ended, one that could release one is in
\* lt_transact, and the checkpoint has waited for both.
LEMMA StepQuiet ==
  ASSUME IInv, [Next]_vars
  PROVE  [Atomic => owner' = owner]_vars
<1> SUFFICES ASSUME Atomic, Next PROVE owner' = owner
  BY Zenon
<1>0. Well
  BY Zenon DEF Next, IInv, Well
<1>1. ASSUME NEW t \in Trx, TakeLock(t) PROVE FALSE
  <2>1. pc[t] = "run" /\ lt[t].status # "DELTA_ROLLED_BACK"
    BY Zenon, <1>1 DEF TakeLock
  <2>2. QED
    BY Zenon, <1>0, <2>1, HereRun
<1>2. ASSUME NEW t \in Trx, Release(t) PROVE FALSE
  <2>1. Fits(t, "release", then[t], lt[t], waiting_checkpoint, owner, cpt, killer)
    BY Zenon, <1>0, <1>2, Here DEF Release
  <2>2. QED
    BY Zenon, <2>1 DEF Fits, Atomic, Stops
<1>3. ASSUME KillerReleases PROVE FALSE
  <2>1. killer.at = "release"
    BY Zenon, <1>3 DEF KillerReleases
  <2>2. killer.trx \in Trx
    BY Zenon, <1>0, <2>1, KillerIs
  <2>3. Fits(killer.trx, pc[killer.trx], then[killer.trx], lt[killer.trx], waiting_checkpoint, owner, cpt, killer)
    BY Zenon, <1>0, <2>2, Here
  <2>4. QED
    BY Zenon, <2>1, <2>3 DEF Fits, Places, Left, Ends, EndsIdle, Atomic, Stops
<1>4. ASSUME NEW t \in Trx, qi_initial_enter_trx(t) \/ Statement(t) \/ Continue(t) PROVE owner' = owner
  BY Zenon, <1>1, <1>2, <1>4 DEF Statement, Continue, qi_initial_enter_trx, lock_wait, vdb_enter_lt, lt_commit, lt_rollback,
     WaitOver, CheckTrxDead, itc_bust_this_trx, lt_ack_freeze, qi_check_trx_error, Thaw, lt_leave, vdb_leave_lt,
     CommitLogged, RollbackLogged, TransactOver, DeadSeen, lt_clear, CheckpointSeen
<1>5. CASE BeginCheckpoint \/ Checkpoint
  <2>1. UNCHANGED checkpointer
    BY Zenon, <1>5 DEF BeginCheckpoint, Checkpoint, cpt_rollback, CptResumes, CptAtomic, cpt_over
  <2>2. QED
    BY Zenon, <2>1 DEF checkpointer
<1>6. ASSUME NEW t \in Trx, lt_kill_other_trx(t) PROVE owner' = owner
  BY Zenon, <1>6 DEF lt_kill_other_trx
<1>7. CASE KillerStep
  BY Zenon, <1>3, <1>7 DEF KillerStep, KillerBegins, KillOver, KillSeen
<1>8. QED
  BY Zenon, <1>4, <1>5, <1>6, <1>7 DEF Next

\* For every set of transactions, whoever is killed and however close checkpoints
\* follow: the GPF_T1 of lt_transact, lt_wait_until_dead, lt_threads_dec_inner,
\* lock_wait, vdb_leave_lt, lt_rollback_1 and lt_clear are not reached, and that of
\* lt_threads_inc_inner only by a client that enters a transaction which
\* lt_rollback_other found idle and has not ended yet.
THEOREM NoOtherGpfCorrect == Spec => []NoOtherGpf
<1>1. IInv => NoOtherGpf
  BY Zenon DEF IInv
<1>2. QED
  BY <1>1, SpecFits, PTL

\* The four thread counts stay between 0 and 1: a thread is counted inside, waiting,
\* acknowledged or in an io section once at most, also the one that
\* lt_rollback_other counts for itself.
THEOREM TypeCorrect == Spec => []TypeOK
<1>1. IInv => TypeOK
  <2> SUFFICES ASSUME IInv PROVE TypeOK
    OBVIOUS
  <2>1. lt \in [Trx -> Records]
    <3>1. \A t \in Trx : lt[t] \in Records
      BY Zenon DEF IInv, Table, FitsNow, Fits
    <3>2. QED
      BY Zenon, <3>1 DEF IInv, Table
  <2>2. killer.trx \in Trx \cup {NoTrx}
    <3>1. CASE killer = NoKill
      BY Zenon, <3>1 DEF NoKill
    <3>2. CASE killer # NoKill
      BY Zenon, <3>2 DEF IInv, Table, KillerFits
    <3>3. QED
      BY Zenon, <3>1, <3>2
  <2>3. QED
    BY Zenon, <2>1, <2>2 DEF IInv, Table, TypeOK, Records
<1>2. QED
  BY <1>1, SpecFits, PTL

\* cpt_rollback leaves nobody who could lock, change or release a row until cpt_over,
\* although log_checkpoint runs with the mutex free and idle transactions are killed.
THEOREM CheckpointQuietCorrect == Spec => CheckpointQuiet
<1>1. IInv /\ [Next]_vars => [Atomic => owner' = owner]_vars
  BY Zenon, StepQuiet
<1>2. QED
  BY <1>1, SpecFits, PTL DEF Spec, CheckpointQuiet
=============================================================================
