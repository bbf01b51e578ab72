----------------------------- MODULE MCSemaphore -----------------------------
(* Three threads on one semaphore, at most four leaves. *)
EXTENDS Semaphore

CONSTANTS t1, t2, t3

MCThreads == {t1, t2, t3}
=============================================================================
