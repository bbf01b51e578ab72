------------------------------ MODULE Semaphore ------------------------------
(***************************************************************************)
(* The ordered (#ifndef SEM_NO_ORDER) semaphore of                         *)
(* libsrc/Thread/sched_pthread.c.  Every action is one critical section    *)
(* of sem_handle: the section up to pthread_cond_wait, or the one that     *)
(* starts when it returns.  A thread that finds no entry queues itself,    *)
(* sets WAITSEM and sleeps on its own condition variable; semaphore_leave  *)
(* dequeues the head and hands it the entry by setting RUNNING.  Spurious  *)
(* wakeups re-test thr_status and change nothing.                          *)
(***************************************************************************)
EXTENDS Naturals, Sequences, FiniteSets, SequencesExt

CONSTANTS Threads,           \* threads using one semaphore_t
          EntryCount,        \* semaphore_allocate (entry_count)
          MaxLeaves          \* bound on the calls of semaphore_leave

ASSUME ThreadsFinite == IsFiniteSet(Threads)
ASSUME CountsAreNat == EntryCount \in Nat /\ MaxLeaves \in Nat

VARIABLES sem_entry_count,
          sem_waiting,       \* the FIFO thread_queue_t
          num_wait,          \* this semaphore's share of _thread_num_wait
          thr_status,        \* "RUNNING" or "WAITSEM"
          pc,                \* "idle", or inside cond_wait: "wait", "timed"
          result,            \* what the thread's last call returned
          leaves, entries    \* history: calls of leave, successful entries

vars == <<sem_entry_count, sem_waiting, num_wait, thr_status, pc, result,
          leaves, entries>>

\* Threads a leave has handed an entry to and that have not returned yet.
Granted == {t \in Threads : pc[t] # "idle" /\ thr_status[t] = "RUNNING"}

semaphore_allocate ==
  /\ sem_entry_count = EntryCount
  /\ sem_waiting = <<>>
  /\ num_wait = 0
  /\ thr_status = [t \in Threads |-> "RUNNING"]
  /\ pc = [t \in Threads |-> "idle"]
  /\ result = [t \in Threads |-> "none"]
  /\ leaves = 0
  /\ entries = 0

Init == semaphore_allocate

-----------------------------------------------------------------------------

\* Variant: the count is tested for >= 0.
EnterAtOnceOffByOne(t) ==
  /\ pc[t] = "idle"
  /\ sem_entry_count' = sem_entry_count - 1
  /\ entries' = entries + 1
  /\ result' = [result EXCEPT ![t] = "entered"]
  /\ UNCHANGED <<sem_waiting, num_wait, thr_status, pc, leaves>>

\* The first branch of semaphore_enter, _try_enter and _enter_timed.
EnterAtOnce(t) ==
  /\ pc[t] = "idle"
  /\ sem_entry_count > 0
  /\ sem_entry_count' = sem_entry_count - 1
  /\ entries' = entries + 1
  /\ result' = [result EXCEPT ![t] = "entered"]
  /\ UNCHANGED <<sem_waiting, num_wait, thr_status, pc, leaves>>

\* semaphore_try_enter, or semaphore_enter_timed with msec <= 0, refused.
TryFails(t) ==
  /\ pc[t] = "idle"
  /\ sem_entry_count = 0
  /\ result' = [result EXCEPT ![t] = "refused"]
  /\ UNCHANGED <<sem_entry_count, sem_waiting, num_wait, thr_status, pc,
                 leaves, entries>>

\* No entry: queue up and sleep; how is "wait" or "timed".
EnterWaits(t, how) ==
  /\ pc[t] = "idle"
  /\ sem_entry_count = 0
  /\ sem_waiting' = Append(sem_waiting, t)
  /\ num_wait' = num_wait + 1
  /\ thr_status' = [thr_status EXCEPT ![t] = "WAITSEM"]
  /\ pc' = [pc EXCEPT ![t] = how]
  /\ UNCHANGED <<sem_entry_count, result, leaves, entries>>

\* Variant: a late timed wait reports failure without looking at thr_status.
WakeUpForgetsEntry(t) ==
  /\ pc[t] # "idle"
  /\ thr_status[t] = "RUNNING"
  /\ pc' = [pc EXCEPT ![t] = "idle"]
  /\ result' = [result EXCEPT ![t] = "refused"]
  /\ UNCHANGED <<sem_entry_count, sem_waiting, num_wait, thr_status, leaves,
                 entries>>

\* cond_wait returns, or cond_timedwait does in time or too late: a thread
\* whose status is no longer WAITSEM was handed the entry.
WakeUp(t) ==
  /\ pc[t] # "idle"
  /\ thr_status[t] = "RUNNING"
  /\ pc' = [pc EXCEPT ![t] = "idle"]
  /\ result' = [result EXCEPT ![t] = "entered"]
  /\ entries' = entries + 1
  /\ UNCHANGED <<sem_entry_count, sem_waiting, num_wait, thr_status, leaves>>

\* Variant: the timed out thread is left in the queue.
TimesOutStaysQueued(t) ==
  /\ pc[t] = "timed"
  /\ thr_status[t] = "WAITSEM"
  /\ num_wait' = num_wait - 1
  /\ thr_status' = [thr_status EXCEPT ![t] = "RUNNING"]
  /\ pc' = [pc EXCEPT ![t] = "idle"]
  /\ result' = [result EXCEPT ![t] = "refused"]
  /\ UNCHANGED <<sem_entry_count, sem_waiting, leaves, entries>>

\* ETIMEDOUT while still WAITSEM: leave the queue, report no entry.
TimesOut(t) ==
  /\ pc[t] = "timed"
  /\ thr_status[t] = "WAITSEM"
  /\ \E i \in 1..Len(sem_waiting) :
       /\ sem_waiting[i] = t
       /\ sem_waiting' = RemoveAt(sem_waiting, i)   \* thread_queue_remove
  /\ num_wait' = num_wait - 1
  /\ thr_status' = [thr_status EXCEPT ![t] = "RUNNING"]
  /\ pc' = [pc EXCEPT ![t] = "idle"]
  /\ result' = [result EXCEPT ![t] = "refused"]
  /\ UNCHANGED <<sem_entry_count, leaves, entries>>

\* Variant: the entry is banked although threads wait.
LeaveAlwaysBanks(t) ==
  /\ pc[t] = "idle"
  /\ leaves < MaxLeaves
  /\ leaves' = leaves + 1
  /\ sem_entry_count' = sem_entry_count + 1
  /\ UNCHANGED <<sem_waiting, num_wait, thr_status, pc, result, entries>>

\* Variant: the last thread to queue is woken first.
LeaveWakesLast(t) ==
  /\ pc[t] = "idle"
  /\ leaves < MaxLeaves
  /\ leaves' = leaves + 1
  /\ IF sem_entry_count = 0 /\ sem_waiting # <<>>
     THEN /\ sem_waiting' = Front(sem_waiting)
          /\ num_wait' = num_wait - 1
          /\ thr_status' = [thr_status EXCEPT ![Last(sem_waiting)] = "RUNNING"]
          /\ UNCHANGED sem_entry_count
     ELSE /\ sem_entry_count' = sem_entry_count + 1
          /\ UNCHANGED <<sem_waiting, num_wait, thr_status>>
  /\ UNCHANGED <<pc, result, entries>>

\* semaphore_leave, by a thread that is not itself asleep here.
semaphore_leave(t) ==
  /\ pc[t] = "idle"
  /\ leaves < MaxLeaves
  /\ leaves' = leaves + 1
  /\ IF sem_entry_count = 0 /\ sem_waiting # <<>>
     THEN /\ sem_waiting' = Tail(sem_waiting)
          /\ num_wait' = num_wait - 1
          /\ thr_status' = [thr_status EXCEPT ![Head(sem_waiting)] = "RUNNING"]
          /\ UNCHANGED sem_entry_count
     ELSE /\ sem_entry_count' = sem_entry_count + 1
          /\ UNCHANGED <<sem_waiting, num_wait, thr_status>>
  /\ UNCHANGED <<pc, result, entries>>

Next == \E t \in Threads :
          \/ EnterAtOnce(t)
          \/ TryFails(t)
          \/ EnterWaits(t, "wait")
          \/ EnterWaits(t, "timed")
          \/ WakeUp(t)
          \/ TimesOut(t)
          \/ semaphore_leave(t)

\* A signalled condition variable wakes its thread, and a deadline passes.
Fairness == \A t \in Threads : WF_vars(WakeUp(t)) /\ WF_vars(TimesOut(t))

Spec == Init /\ [][Next]_vars /\ Fairness
-----------------------------------------------------------------------------

(* The variables range over the values the C fields can hold. *)
TypeOK ==
  /\ sem_entry_count \in Nat
  /\ sem_waiting \in Seq(Threads)
  /\ num_wait \in Int
  /\ thr_status \in [Threads -> {"RUNNING", "WAITSEM"}]
  /\ pc \in [Threads -> {"idle", "wait", "timed"}]
  /\ result \in [Threads -> {"none", "entered", "refused"}]
  /\ leaves \in Nat
  /\ entries \in Nat

(* No lost wakeup: semaphore_leave banks an entry in sem_entry_count only  *)
(* when nobody is queued, so a free entry and a sleeping thread never      *)
(* coexist, whatever the order of leaves, timeouts and wakeups.            *)
NoIdleEntry == sem_entry_count > 0 => sem_waiting = <<>>

(* thr_status = WAITSEM means exactly "queued and asleep", each thread is  *)
(* queued once, and _thread_num_wait counts the queue: what                *)
(* semaphore_leave's assert and the comment in semaphore_enter_timed about *)
(* "one still waiting at the deadline" both rest on.                       *)
WaitersAreQueued ==
  /\ \A t \in Threads : thr_status[t] = "WAITSEM"
                          <=> \E i \in 1..Len(sem_waiting) : sem_waiting[i] = t
  /\ \A t \in Threads : thr_status[t] = "WAITSEM" => pc[t] # "idle"
  /\ \A i, j \in 1..Len(sem_waiting) : sem_waiting[i] = sem_waiting[j] => i = j
  /\ num_wait = Len(sem_waiting)

(* Entries are neither made up nor dropped: what was there at first plus   *)
(* every leave is either banked, taken, or on its way to a thread that was *)
(* handed it.  A timed wait whose deadline races the hand-over must still  *)
(* report the entry for this to hold.                                      *)
EntriesConserved ==
  EntryCount + leaves = sem_entry_count + entries + Cardinality(Granted)

(* semaphore_enter is first come first served: while threads are queued,   *)
(* only the queue's head can be handed an entry, a timeout keeps the order *)
(* of the others, and newcomers go to the tail.                            *)
FirstComeFirstServed ==
  [][\/ sem_waiting' = sem_waiting
     \/ \E t \in Threads : sem_waiting' = Append(sem_waiting, t)
     \/ sem_waiting # <<>> /\ sem_waiting' = Tail(sem_waiting)
     \/ \E i \in 1..Len(sem_waiting) :
          /\ sem_waiting' = RemoveAt(sem_waiting, i)
          /\ result'[sem_waiting[i]] = "refused"]_vars

(* A thread that was handed an entry returns with it. *)
HandedEntryIsTaken ==
  \A t \in Threads : (t \in Granted) ~> (pc[t] = "idle" /\ result[t] = "entered")

(* The ordered semaphore is a counting semaphore: an entry handed to a     *)
(* sleeping thread is a permit until the thread returns with it.           *)
Abstract == INSTANCE CountingSemaphore
              WITH permits <- sem_entry_count + Cardinality(Granted),
                   taken <- entries

(* The specification callers program against, implemented by this one.    *)
ImplementsCounting == Abstract!Spec
=============================================================================
