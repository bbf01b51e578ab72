--------------------------- MODULE SemaphoreProofs ---------------------------
(***************************************************************************)
(* The invariants of module Semaphore, for every finite set of threads and *)
(* every initial count.  The inductive invariant is the conjunction of the *)
(* four: conservation needs the link between thr_status and the queue (the *)
(* head that semaphore_leave wakes was not granted before), and that link  *)
(* needs the typing.                                                       *)
(***************************************************************************)
EXTENDS Semaphore, FiniteSetTheorems, SequenceTheorems, TLAPS

IInv == TypeOK /\ NoIdleEntry /\ WaitersAreQueued /\ EntriesConserved

(* thread_queue_remove takes one element out and keeps the others in order. *)
LEMMA RemoveAtFacts ==
  ASSUME NEW S, NEW q \in Seq(S), NEW i \in 1..Len(q)
  PROVE  /\ RemoveAt(q, i) \in Seq(S)
         /\ Len(RemoveAt(q, i)) = Len(q) - 1
         /\ \A j \in 1..(Len(q) - 1) :
              RemoveAt(q, i)[j] = IF j < i THEN q[j] ELSE q[j + 1]
<1> DEFINE a == SubSeq(q, 1, i - 1)
           b == SubSeq(q, i + 1, Len(q))
<1>1. a \in Seq(S) /\ Len(a) = i - 1 /\ \A j \in 1..(i - 1) : a[j] = q[j]
  OBVIOUS
<1>2. /\ b \in Seq(S) /\ Len(b) = Len(q) - i
      /\ \A j \in 1..(Len(q) - i) : b[j] = q[i + j]
  OBVIOUS
<1>3. RemoveAt(q, i) = a \o b
  BY DEF RemoveAt
<1>4. /\ a \o b \in Seq(S)
      /\ Len(a \o b) = Len(a) + Len(b)
      /\ \A j \in 1..(Len(a) + Len(b)) :
           (a \o b)[j] = IF j <= Len(a) THEN a[j] ELSE b[j - Len(a)]
  BY <1>1, <1>2, ConcatProperties
<1> HIDE DEF a, b
<1>5. ASSUME NEW j \in 1..(Len(q) - 1)
      PROVE  RemoveAt(q, i)[j] = IF j < i THEN q[j] ELSE q[j + 1]
  <2>1. RemoveAt(q, i)[j] = IF j <= i - 1 THEN a[j] ELSE b[j - (i - 1)]
    BY <1>1, <1>2, <1>3, <1>4
  <2>2. CASE j < i
    BY <2>1, <2>2, <1>1
  <2>3. CASE ~(j < i)
    <3>1. j - (i - 1) \in 1..(Len(q) - i) /\ i + (j - (i - 1)) = j + 1
      BY <2>3
    <3>2. QED
      BY <2>1, <2>3, <3>1, <1>2
  <2>4. QED
    BY <2>2, <2>3
<1>6. QED
  BY <1>1, <1>2, <1>3, <1>4, <1>5

(* A subset of the threads is finite, so counting it makes sense. *)
LEMMA GrantedFinite == IsFiniteSet(Granted) /\ Cardinality(Granted) \in Nat
<1>1. Granted \subseteq Threads
  BY DEF Granted
<1>2. QED
  BY <1>1, ThreadsFinite, FS_Subset, FS_CardinalityType

LEMMA InitIInv == Init => IInv
<1> SUFFICES ASSUME Init PROVE IInv
  OBVIOUS
<1> USE DEF Init, semaphore_allocate
<1>1. TypeOK
  BY CountsAreNat DEF TypeOK
<1>2. NoIdleEntry /\ WaitersAreQueued
  BY DEF NoIdleEntry, WaitersAreQueued
<1>3. Granted = {}
  BY DEF Granted
<1>4. EntriesConserved
  BY <1>3, FS_EmptySet, CountsAreNat DEF EntriesConserved
<1>5. QED
  BY <1>1, <1>2, <1>4 DEF IInv

(* Every operation keeps the four invariants. *)
LEMMA NextIInv == IInv /\ [Next]_vars => IInv'
<1> SUFFICES ASSUME IInv, [Next]_vars PROVE IInv'
  OBVIOUS
<1> USE DEF IInv
<1>0. IsFiniteSet(Granted) /\ Cardinality(Granted) \in Nat
  BY GrantedFinite
<1>1. ASSUME NEW t \in Threads, EnterAtOnce(t) PROVE IInv'
  <2> USE <1>1 DEF EnterAtOnce
  <2>1. TypeOK'
    BY DEF TypeOK
  <2>2. NoIdleEntry' /\ WaitersAreQueued'
    BY DEF TypeOK, NoIdleEntry, WaitersAreQueued
  <2>3. Granted' = Granted
    BY DEF Granted
  <2>4. EntriesConserved'
    BY <1>0, <2>3, CountsAreNat DEF EntriesConserved, TypeOK
  <2>5. QED
    BY SMTT(30), <2>1, <2>2, <2>4
<1>2. ASSUME NEW t \in Threads, TryFails(t) PROVE IInv'
  <2> USE <1>2 DEF TryFails
  <2>1. TypeOK'
    BY DEF TypeOK
  <2>2. NoIdleEntry' /\ WaitersAreQueued'
    BY DEF TypeOK, NoIdleEntry, WaitersAreQueued
  <2>3. Granted' = Granted
    BY DEF Granted
  <2>4. EntriesConserved'
    BY <2>3 DEF EntriesConserved
  <2>5. QED
    BY SMTT(30), <2>1, <2>2, <2>4
<1>3. ASSUME NEW t \in Threads, NEW how \in {"wait", "timed"}, EnterWaits(t, how)
      PROVE  IInv'
  <2> USE <1>3 DEF EnterWaits
  <2>1. TypeOK'
    BY DEF TypeOK
  <2>2. NoIdleEntry'
    BY DEF NoIdleEntry, TypeOK
  <2>3. /\ Len(sem_waiting') = Len(sem_waiting) + 1
        /\ \A i \in 1..Len(sem_waiting) : sem_waiting'[i] = sem_waiting[i]
        /\ sem_waiting'[Len(sem_waiting) + 1] = t
        /\ Len(sem_waiting) \in Nat
    BY DEF TypeOK
  <2>4. thr_status[t] # "WAITSEM"
    BY DEF WaitersAreQueued
  <2>5. WaitersAreQueued'
    <3>1. ASSUME NEW u \in Threads
          PROVE  thr_status'[u] = "WAITSEM"
                   <=> \E i \in 1..Len(sem_waiting') : sem_waiting'[i] = u
      BY <2>3, <2>4 DEF WaitersAreQueued, TypeOK
    <3>2. ASSUME NEW u \in Threads, thr_status'[u] = "WAITSEM"
          PROVE  pc'[u] # "idle"
      BY <3>2 DEF WaitersAreQueued, TypeOK
    <3>3. ASSUME NEW i \in 1..Len(sem_waiting'), NEW j \in 1..Len(sem_waiting'),
                 sem_waiting'[i] = sem_waiting'[j]
          PROVE  i = j
      <4>1. \A k \in 1..Len(sem_waiting) : sem_waiting[k] # t
        BY <2>4 DEF WaitersAreQueued
      <4>2. QED
        BY <2>3, <3>3, <4>1 DEF WaitersAreQueued
    <3>4. num_wait' = Len(sem_waiting')
      BY <2>3 DEF WaitersAreQueued
    <3>5. QED
      BY SMTT(30), <3>1, <3>2, <3>3, <3>4 DEF WaitersAreQueued
  <2>6. Granted' = Granted
    BY DEF Granted, TypeOK
  <2>7. EntriesConserved'
    BY <2>6 DEF EntriesConserved
  <2>8. QED
    BY SMTT(30), <2>1, <2>2, <2>5, <2>7
<1>4. ASSUME NEW t \in Threads, WakeUp(t) PROVE IInv'
  <2> USE <1>4 DEF WakeUp
  <2>1. TypeOK'
    BY DEF TypeOK
  <2>2. NoIdleEntry' /\ WaitersAreQueued'
    BY DEF TypeOK, NoIdleEntry, WaitersAreQueued
  <2>3. t \in Granted /\ Granted' = Granted \ {t}
    BY DEF Granted, TypeOK
  <2>4. Cardinality(Granted') = Cardinality(Granted) - 1
    BY SMTT(30), <1>0, <2>3, FS_RemoveElement
  <2>5. EntriesConserved'
    BY <1>0, <2>4, CountsAreNat DEF EntriesConserved, TypeOK
  <2>6. QED
    BY SMTT(30), <2>1, <2>2, <2>5
<1>5. ASSUME NEW t \in Threads, TimesOut(t) PROVE IInv'
  <2> USE <1>5 DEF TimesOut
  <2>1. PICK i \in 1..Len(sem_waiting) :
          sem_waiting[i] = t /\ sem_waiting' = RemoveAt(sem_waiting, i)
    OBVIOUS
  <2>2. /\ sem_waiting' \in Seq(Threads)
        /\ Len(sem_waiting') = Len(sem_waiting) - 1
        /\ \A j \in 1..(Len(sem_waiting) - 1) :
             sem_waiting'[j] = IF j < i THEN sem_waiting[j] ELSE sem_waiting[j + 1]
        /\ Len(sem_waiting) \in Nat
    <3>1. sem_waiting \in Seq(Threads)
      BY DEF TypeOK
    <3>2. /\ RemoveAt(sem_waiting, i) \in Seq(Threads)
          /\ Len(RemoveAt(sem_waiting, i)) = Len(sem_waiting) - 1
          /\ \A j \in 1..(Len(sem_waiting) - 1) :
               RemoveAt(sem_waiting, i)[j]
                 = IF j < i THEN sem_waiting[j] ELSE sem_waiting[j + 1]
      BY <3>1, RemoveAtFacts
    <3>3. Len(sem_waiting) \in Nat
      BY <3>1, LenProperties
    <3>4. QED
      BY ONLY <2>1, <3>2, <3>3
  <2>3. TypeOK'
    BY <2>2 DEF TypeOK
  <2>4. NoIdleEntry'
    BY <2>1 DEF NoIdleEntry, TypeOK
  <2>5. WaitersAreQueued'
    <3>1. ASSUME NEW u \in Threads
          PROVE  thr_status'[u] = "WAITSEM"
                   <=> \E j \in 1..Len(sem_waiting') : sem_waiting'[j] = u
      <4>1. CASE u = t
        <5>1. \A j \in 1..Len(sem_waiting') : sem_waiting'[j] # t
          BY <2>1, <2>2 DEF WaitersAreQueued
        <5>2. QED
          BY <4>1, <5>1 DEF TypeOK
      <4>2. CASE u # t
        <5>1. thr_status'[u] = thr_status[u]
          BY <4>2 DEF TypeOK
        <5>2. ASSUME NEW k \in 1..Len(sem_waiting), sem_waiting[k] = u
              PROVE  \E j \in 1..Len(sem_waiting') : sem_waiting'[j] = u
          <6>1. k # i
            BY <4>2, <5>2, <2>1
          <6>2. CASE k < i
            <7>1. k \in 1..(Len(sem_waiting) - 1)
              BY <6>2, <2>2
            <7>2. QED
              BY SMTT(30), <7>1, <6>2, <5>2, <2>2
          <6>3. CASE k > i
            <7>1. k - 1 \in 1..(Len(sem_waiting) - 1) /\ ~(k - 1 < i)
                  /\ (k - 1) + 1 = k
              BY <6>3, <2>2
            <7>2. QED
              BY <7>1, <5>2, <2>2
          <6>4. QED
            BY <6>1, <6>2, <6>3
        <5>3. ASSUME NEW j \in 1..Len(sem_waiting'), sem_waiting'[j] = u
              PROVE  \E k \in 1..Len(sem_waiting) : sem_waiting[k] = u
          BY <5>3, <2>2
        <5>4. QED
          BY <5>1, <5>2, <5>3 DEF WaitersAreQueued
      <4>3. QED
        BY <4>1, <4>2
    <3>2. ASSUME NEW u \in Threads, thr_status'[u] = "WAITSEM"
          PROVE  pc'[u] # "idle"
      BY <3>2 DEF WaitersAreQueued, TypeOK
    <3>3. ASSUME NEW j \in 1..Len(sem_waiting'), NEW k \in 1..Len(sem_waiting'),
                 sem_waiting'[j] = sem_waiting'[k]
          PROVE  j = k
      BY SMTT(30), <2>2, <3>3 DEF WaitersAreQueued
    <3>4. num_wait' = Len(sem_waiting')
      BY <2>2 DEF WaitersAreQueued
    <3>5. QED
      BY SMTT(30), <3>1, <3>2, <3>3, <3>4 DEF WaitersAreQueued
  <2>6. Granted' = Granted
    BY DEF Granted, TypeOK
  <2>7. EntriesConserved'
    BY <2>6 DEF EntriesConserved
  <2>8. QED
    BY SMTT(30), <2>3, <2>4, <2>5, <2>7
<1>6. ASSUME NEW t \in Threads, semaphore_leave(t),
             sem_entry_count = 0, sem_waiting # <<>>
      PROVE  IInv'
  <2> USE <1>6 DEF semaphore_leave
  <2> DEFINE h == Head(sem_waiting)
  <2>1. /\ h \in Threads /\ h = sem_waiting[1]
        /\ Len(sem_waiting) \in Nat /\ Len(sem_waiting) >= 1
        /\ sem_waiting' \in Seq(Threads)
        /\ Len(sem_waiting') = Len(sem_waiting) - 1
        /\ \A j \in 1..(Len(sem_waiting) - 1) : sem_waiting'[j] = sem_waiting[j + 1]
    <3>1. sem_waiting \in Seq(Threads) /\ sem_waiting # <<>>
      BY DEF TypeOK
    <3>2. Len(sem_waiting) \in Nat /\ Len(sem_waiting) >= 1
      BY ONLY <3>1, LenProperties, EmptySeq
    <3>3. /\ Head(sem_waiting) \in Threads
          /\ Head(sem_waiting) = sem_waiting[1]
      BY ONLY <3>1, <3>2, HeadTailProperties
    <3>4. /\ Tail(sem_waiting) \in Seq(Threads)
          /\ Len(Tail(sem_waiting)) = Len(sem_waiting) - 1
          /\ \A j \in 1..Len(Tail(sem_waiting)) :
               Tail(sem_waiting)[j] = sem_waiting[j + 1]
      BY ONLY <3>1, <3>2, HeadTailProperties
    <3>5. sem_waiting' = Tail(sem_waiting)
      OBVIOUS
    <3>6. QED
      BY ONLY SMTT(30), <3>2, <3>3, <3>4, <3>5 DEF h
  <2>2. thr_status' = [thr_status EXCEPT ![h] = "RUNNING"]
    OBVIOUS
  <2> HIDE DEF h
  <2>3. TypeOK'
    BY <2>1, <2>2 DEF TypeOK
  <2>4. NoIdleEntry'
    BY DEF NoIdleEntry
  <2>5. WaitersAreQueued'
    <3>1. ASSUME NEW u \in Threads
          PROVE  thr_status'[u] = "WAITSEM"
                   <=> \E j \in 1..Len(sem_waiting') : sem_waiting'[j] = u
      <4>1. CASE u = h
        <5>1. \A j \in 1..Len(sem_waiting') : sem_waiting'[j] # h
          BY <2>1 DEF WaitersAreQueued
        <5>2. QED
          BY <4>1, <5>1, <2>2 DEF TypeOK
      <4>2. CASE u # h
        <5>1. thr_status'[u] = thr_status[u]
          BY <4>2, <2>2 DEF TypeOK
        <5>2. ASSUME NEW k \in 1..Len(sem_waiting), sem_waiting[k] = u
              PROVE  \E j \in 1..Len(sem_waiting') : sem_waiting'[j] = u
          <6>1. k - 1 \in 1..(Len(sem_waiting) - 1) /\ (k - 1) + 1 = k
            BY <4>2, <5>2, <2>1
          <6>2. QED
            BY <6>1, <5>2, <2>1
        <5>3. ASSUME NEW j \in 1..Len(sem_waiting'), sem_waiting'[j] = u
              PROVE  \E k \in 1..Len(sem_waiting) : sem_waiting[k] = u
          BY <5>3, <2>1
        <5>4. QED
          BY SMTT(30), <5>1, <5>2, <5>3 DEF WaitersAreQueued
      <4>3. QED
        BY <4>1, <4>2
    <3>2. ASSUME NEW u \in Threads, thr_status'[u] = "WAITSEM"
          PROVE  pc'[u] # "idle"
      BY <3>2, <2>2 DEF WaitersAreQueued, TypeOK
    <3>3. ASSUME NEW j \in 1..Len(sem_waiting'), NEW k \in 1..Len(sem_waiting'),
                 sem_waiting'[j] = sem_waiting'[k]
          PROVE  j = k
      BY <2>1, <3>3 DEF WaitersAreQueued
    <3>4. num_wait' = Len(sem_waiting')
      BY <2>1 DEF WaitersAreQueued
    <3>5. QED
      BY <3>1, <3>2, <3>3, <3>4 DEF WaitersAreQueued
  <2>6. thr_status[h] = "WAITSEM" /\ pc[h] # "idle"
    BY <2>1 DEF WaitersAreQueued
  <2>7. h \notin Granted /\ Granted' = Granted \cup {h}
    BY <2>1, <2>2, <2>6 DEF Granted, TypeOK
  <2>8. Cardinality(Granted') = Cardinality(Granted) + 1
    BY <1>0, <2>7, FS_AddElement
  <2>9. EntriesConserved'
    BY SMTT(30), <1>0, <2>8, CountsAreNat DEF EntriesConserved, TypeOK
  <2>10. QED
    BY SMTT(30), <2>3, <2>4, <2>5, <2>9
<1>7. ASSUME NEW t \in Threads, semaphore_leave(t),
             ~(sem_entry_count = 0 /\ sem_waiting # <<>>)
      PROVE  IInv'
  <2> USE <1>7 DEF semaphore_leave
  <2>1. TypeOK'
    BY DEF TypeOK
  <2>2. NoIdleEntry' /\ WaitersAreQueued'
    BY DEF TypeOK, NoIdleEntry, WaitersAreQueued
  <2>3. Granted' = Granted
    BY DEF Granted
  <2>4. EntriesConserved'
    BY SMTT(15), ZenonT(40), <1>0, <2>3, CountsAreNat DEF EntriesConserved, TypeOK
  <2>5. QED
    BY SMTT(30), <2>1, <2>2, <2>4
<1>8. CASE UNCHANGED vars
  <2>1. Granted' = Granted
    BY <1>8 DEF vars, Granted
  <2>2. QED
    BY <1>8, <2>1 DEF vars, TypeOK, NoIdleEntry, WaitersAreQueued, EntriesConserved
<1>9. QED
  BY SMTT(30), <1>1, <1>2, <1>3, <1>4, <1>5, <1>6, <1>7, <1>8 DEF Next

(* The inductive invariant holds in every reachable state. *)
THEOREM SpecIInv == Spec => []IInv
BY InitIInv, NextIInv, PTL DEF Spec

(* No wakeup is lost (semaphore_leave), thr_status, the queue and the count *)
(* of waiting threads agree, and no entry is made up or dropped by a leave, *)
(* a wakeup or a timed wait that expires, for any number of threads.        *)
THEOREM SemaphoreCorrect ==
  Spec => [](TypeOK /\ NoIdleEntry /\ WaitersAreQueued /\ EntriesConserved)
BY SpecIInv, PTL DEF IInv

(* Each step of the ordered semaphore is a step of the abstract one: an    *)
(* entry at once or a wakeup takes a permit, a leave adds one whether it   *)
(* banks it or hands it over, everything else changes no permit.           *)
LEMMA StepRefines == IInv /\ [Next]_vars => [Abstract!Next]_(Abstract!vars)
<1> SUFFICES ASSUME IInv, [Next]_vars PROVE [Abstract!Next]_(Abstract!vars)
  OBVIOUS
<1> USE DEF IInv, Abstract!Next, Abstract!vars, Abstract!Leave, Abstract!Take
<1>0. IsFiniteSet(Granted) /\ Cardinality(Granted) \in Nat /\ sem_entry_count \in Nat
  BY GrantedFinite DEF TypeOK
<1>1. ASSUME NEW t \in Threads, EnterAtOnce(t) PROVE Abstract!Take
  <2>1. Granted' = Granted
    BY <1>1 DEF EnterAtOnce, Granted
  <2>2. QED
    BY SMTT(30), <1>0, <1>1, <2>1 DEF EnterAtOnce
<1>2. ASSUME NEW t \in Threads, TryFails(t) PROVE UNCHANGED Abstract!vars
  <2>1. Granted' = Granted
    BY <1>2 DEF TryFails, Granted
  <2>2. QED
    BY SMTT(30), <1>2, <2>1 DEF TryFails
<1>3. ASSUME NEW t \in Threads, NEW how \in {"wait", "timed"}, EnterWaits(t, how)
      PROVE  UNCHANGED Abstract!vars
  <2>1. thr_status[t] # "WAITSEM"
    BY <1>3 DEF EnterWaits, WaitersAreQueued
  <2>2. Granted' = Granted
    BY SMTT(30), <1>3, <2>1 DEF EnterWaits, Granted, TypeOK
  <2>3. QED
    BY SMTT(30), <1>3, <2>2 DEF EnterWaits
<1>4. ASSUME NEW t \in Threads, WakeUp(t) PROVE Abstract!Take
  <2>1. t \in Granted /\ Granted' = Granted \ {t}
    BY <1>4 DEF WakeUp, Granted, TypeOK
  <2>2. Cardinality(Granted') = Cardinality(Granted) - 1
    BY SMTT(30), <1>0, <2>1, FS_RemoveElement
  <2>3. Granted # {} /\ Cardinality(Granted) # 0
    BY SMTT(30), <1>0, <2>1, FS_EmptySet
  <2>4. QED
    BY SMTT(30), <1>0, <1>4, <2>2, <2>3 DEF WakeUp
<1>5. ASSUME NEW t \in Threads, TimesOut(t) PROVE UNCHANGED Abstract!vars
  <2>1. Granted' = Granted
    BY <1>5 DEF TimesOut, Granted, TypeOK
  <2>2. QED
    BY SMTT(30), <1>5, <2>1 DEF TimesOut
<1>6. ASSUME NEW t \in Threads, semaphore_leave(t),
             sem_entry_count = 0, sem_waiting # <<>>
      PROVE  Abstract!Leave
  <2> DEFINE h == Head(sem_waiting)
  <2>1. sem_waiting \in Seq(Threads)
    BY DEF TypeOK
  <2>2. h \in Threads /\ h = sem_waiting[1] /\ 1 \in 1..Len(sem_waiting)
    BY SMTT(30), <1>6, <2>1, HeadTailProperties, LenProperties, EmptySeq
  <2>3. thr_status' = [thr_status EXCEPT ![h] = "RUNNING"] /\ pc' = pc
    BY <1>6 DEF semaphore_leave
  <2> HIDE DEF h
  <2>4. thr_status[h] = "WAITSEM" /\ pc[h] # "idle"
    BY <2>2 DEF WaitersAreQueued
  <2>5. h \notin Granted /\ Granted' = Granted \cup {h}
    BY <2>2, <2>3, <2>4 DEF Granted, TypeOK
  <2>6. Cardinality(Granted') = Cardinality(Granted) + 1
    BY <1>0, <2>5, FS_AddElement
  <2>7. QED
    BY SMTT(30), <1>0, <1>6, <2>6 DEF semaphore_leave
<1>7. ASSUME NEW t \in Threads, semaphore_leave(t),
             ~(sem_entry_count = 0 /\ sem_waiting # <<>>)
      PROVE  Abstract!Leave
  <2>1. Granted' = Granted
    BY <1>7 DEF semaphore_leave, Granted
  <2>2. QED
    BY <1>0, <1>7, <2>1 DEF semaphore_leave
<1>8. CASE UNCHANGED vars
  <2>1. Granted' = Granted
    BY <1>8 DEF vars, Granted
  <2>2. QED
    BY <1>8, <2>1 DEF vars
<1>9. QED
  <2>1. CASE UNCHANGED vars
    BY SMTT(30), <1>8, <2>1
  <2>2. CASE Next
    <3>1. PICK t \in Threads :
            \/ EnterAtOnce(t) \/ TryFails(t)
            \/ EnterWaits(t, "wait") \/ EnterWaits(t, "timed")
            \/ WakeUp(t) \/ TimesOut(t) \/ semaphore_leave(t)
      BY <2>2 DEF Next
    <3>2. QED
      BY SMTT(30), <3>1, <1>1, <1>2, <1>3, <1>4, <1>5, <1>6, <1>7
  <2>3. QED
    BY <2>1, <2>2

LEMMA InitRefines == Init => Abstract!Init
<1>1. Init => Granted = {}
  BY DEF Init, semaphore_allocate, Granted
<1>2. QED
  BY <1>1, FS_EmptySet, CountsAreNat DEF Init, semaphore_allocate, Abstract!Init

(* The ordered semaphore of sched_pthread.c implements a counting          *)
(* semaphore, for any threads and any initial count.                       *)
THEOREM Refinement == Spec => ImplementsCounting
<1>1. Init => Abstract!Init
  BY InitRefines
<1>2. IInv /\ [Next]_vars => [Abstract!Next]_(Abstract!vars)
  BY StepRefines
<1>3. Spec => []IInv
  BY SpecIInv
<1>4. Spec => Abstract!Spec
  BY <1>1, <1>2, <1>3, PTL DEF Spec, Abstract!Spec
<1>5. QED
  BY <1>4 DEF ImplementsCounting

(* semaphore_leave banks an entry only while nobody waits for one.         *)
THEOREM NoIdleEntryCorrect == Spec => []NoIdleEntry
BY SemaphoreCorrect, PTL

(* thr_status, the queue and num_wait name the same threads.               *)
THEOREM WaitersAreQueuedCorrect == Spec => []WaitersAreQueued
BY SemaphoreCorrect, PTL

(* semaphore_enter is first come first served for any number of threads: a *)
(* leave takes the head, a timed wait that expires only its own place.     *)
THEOREM FirstComeFirstServedCorrect == Spec => FirstComeFirstServed
<1> DEFINE InOrder == \/ sem_waiting' = sem_waiting
                      \/ \E t \in Threads : sem_waiting' = Append(sem_waiting, t)
                      \/ sem_waiting # <<>> /\ sem_waiting' = Tail(sem_waiting)
                      \/ \E i \in 1..Len(sem_waiting) :
                           /\ sem_waiting' = RemoveAt(sem_waiting, i)
                           /\ result'[sem_waiting[i]] = "refused"
<1>1. TypeOK /\ [Next]_vars => [InOrder]_vars
  <2> SUFFICES ASSUME TypeOK, NEW t \in Threads,
                      \/ EnterAtOnce(t) \/ TryFails(t) \/ WakeUp(t)
                      \/ EnterWaits(t, "wait") \/ EnterWaits(t, "timed")
                      \/ TimesOut(t) \/ semaphore_leave(t)
               PROVE  InOrder
    BY DEF Next
  <2>1. CASE EnterAtOnce(t) \/ TryFails(t) \/ WakeUp(t)
    BY <2>1 DEF EnterAtOnce, TryFails, WakeUp
  <2>2. CASE EnterWaits(t, "wait") \/ EnterWaits(t, "timed")
    BY <2>2 DEF EnterWaits
  <2>3. CASE TimesOut(t)
    <3>1. PICK i \in 1..Len(sem_waiting) :
            sem_waiting[i] = t /\ sem_waiting' = RemoveAt(sem_waiting, i)
      BY <2>3 DEF TimesOut
    <3>2. result'[t] = "refused"
      BY <2>3 DEF TimesOut, TypeOK
    <3>3. QED
      BY <3>1, <3>2
  <2>4. CASE semaphore_leave(t)
    BY <2>4 DEF semaphore_leave
  <2>5. QED
    BY SMTT(30), <2>1, <2>2, <2>3, <2>4
<1>2. QED
  BY <1>1, SemaphoreCorrect, PTL DEF Spec, FirstComeFirstServed
=============================================================================
