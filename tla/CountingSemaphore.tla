-------------------------- MODULE CountingSemaphore --------------------------
(***************************************************************************)
(* What Virtuoso's callers rely on when they use a semaphore_t: a number   *)
(* of permits that semaphore_leave adds to and a successful entry takes    *)
(* from, and nothing else.  The ordered implementation in                  *)
(* libsrc/Thread/sched_pthread.c (module Semaphore) hands a permit to a    *)
(* waiting thread before that thread runs; here the permit simply exists   *)
(* until it is taken.                                                      *)
(***************************************************************************)
EXTENDS Naturals

CONSTANT EntryCount          \* semaphore_allocate (entry_count)

VARIABLES permits,           \* permits nobody has returned with yet
          taken              \* successful returns so far

vars == <<permits, taken>>

TypeOK == permits \in Nat /\ taken \in Nat

Init == permits = EntryCount /\ taken = 0

\* semaphore_leave: one more permit.
Leave == permits' = permits + 1 /\ UNCHANGED taken

\* A successful return of any of the three entry functions.
Take == permits > 0 /\ permits' = permits - 1 /\ taken' = taken + 1

Next == Leave \/ Take

Spec == Init /\ [][Next]_vars
=============================================================================
