---------------------------- MODULE PageGateSteps ----------------------------
(***************************************************************************)
(* The inductive invariant of module PageGate, and what the operators its  *)
(* steps are made of keep of it: releases, page_mark_change, a turn of one *)
(* cursor; and the steps that start to read a page, enter it, wait for it  *)
(* or end a read.                                                          *)
(*                                                                         *)
(* Most steps combine several sections of the code: enter a page, leave    *)
(* another, signal its waiters. They are operators from a pair of buffers  *)
(* and cursors to another, and so the invariant is a predicate on such     *)
(* pairs, Good(B, I).                                                      *)
(***************************************************************************)
EXTENDS PageGate, FiniteSetTheorems, WellFoundedInduction, TLAPS

\* Zenon proves the leaves that name no other prover.
USE Zenon

-----------------------------------------------------------------------------
(* Buffers and cursors *)

Buffer == [state : {"here", "absent", "decoy", "deleted"}, readers : Nat, is_write : BOOLEAN,
           write_waiting : Seq(Cursor), read_waiting : Seq(Cursor)]

Places == {"out", "in", "call", "read", "wait", "woken", "free"}

Itc == [pc : Places, fn : Call \cup {"none"}, to : Page \cup {NoPage}, from : Page \cup {NoPage},
        dive : {"READ", "WRITE", "READ_ONLY"}, landed : BOOLEAN, reg : BOOLEAN,
        page : Page \cup {NoPage}, holds : SUBSET Page, decoy : BOOLEAN,
        to_reset : 0 .. 9, entered : Page \cup {NoPage}, changed : 0 .. 9]

Types(B, I) == B \in [Page -> Buffer] /\ I \in [Cursor -> Itc]

\* No wait has begun.
Unwaited(i) == ~i.decoy /\ i.to_reset = NO_WAIT /\ i.entered = NoPage /\ i.changed = NO_WAIT

\* No call is under way.
Quiet(i) == i.fn = "none" /\ i.to = NoPage /\ i.from = NoPage /\ Unwaited(i)

\* The page that the call comes from is not left yet.
Calling(i) == i.pc \in {"call", "read"}

\* Out of all pages: registered, or about to start a search.
OutFits(i) == Quiet(i) /\ i.holds = {} /\ (IF i.reg THEN i.landed /\ i.page \in Page ELSE ~i.landed)

\* In a page, or in a leaf and the root.
InFits(i) ==
    /\ Quiet(i) /\ ~i.reg /\ i.page \in Page
    /\ \/ i.holds = {i.page}
       \/ i.landed /\ ~WantsRead(i) /\ \E x \in Leaf : i.holds = {Root, x} /\ i.page \in {Root, x}

FreeFits(i) == Quiet(i) /\ ~i.reg /\ i.page \in Leaf /\ i.landed /\ ~WantsRead(i) /\ i.holds = {Root, i.page}

\* What each function has when it calls page_wait_access.
CallFits(i) ==
    \/ i.fn = "reset" /\ i.to = Root /\ i.from = NoPage /\ ~i.landed /\ ~i.reg /\ i.holds = {}
    \/ /\ i.fn = "dive" /\ i.to \in Leaf /\ i.from = Root /\ ~i.landed /\ ~i.reg
       /\ i.holds = IF Calling(i) THEN {Root} ELSE {}
    \/ /\ i.fn = "down" /\ i.to \in Leaf /\ i.from = Root /\ i.landed /\ i.page = Root
       /\ i.reg = ~Calling(i) /\ i.holds = IF Calling(i) THEN {Root} ELSE {}
    \/ /\ i.fn = "pl_enter" /\ i.from = NoPage /\ i.landed /\ i.reg /\ i.page \in Page /\ i.holds = {}
       /\ IF i.pc = "call" THEN i.to = NoPage ELSE i.to \in Page
    \/ i.fn = "up" /\ i.to = Root /\ i.from \in Leaf /\ i.landed /\ ~i.reg /\ i.holds = {i.from}
    \/ /\ i.fn = "parent" /\ i.to = Root /\ i.from = NoPage /\ i.landed /\ ~i.reg /\ ~WantsRead(i)
       /\ i.page \in Leaf /\ i.holds = {i.page}
    \/ /\ i.fn = "link" /\ i.pc = "read" /\ i.to \in Leaf /\ i.from = NoPage /\ i.landed /\ ~i.reg /\ ~WantsRead(i)
       /\ i.page = Root /\ i.holds = {Root}
    \/ /\ i.fn = "land" /\ ~Calling(i) /\ i.to \in Leaf /\ i.from = NoPage /\ ~i.landed /\ ~i.reg
       /\ i.dive = "READ" /\ i.holds = {}

\* A waiter has been told of all changes; one that is signalled knows whether it is inside.
WaitFits(i) == i.entered = NoPage /\ NO_WAIT <= i.changed /\ i.changed <= i.to_reset

WokenFits(i) ==
    /\ i.entered \in {NoPage, i.to}
    /\ FindsItselfIn(i) <=> i.entered # NoPage
    /\ NO_WAIT <= i.changed /\ (i.entered # NoPage => i.changed <= MaxChange(i.fn))

Place(i) ==
    /\ i.pc = "out" => OutFits(i)
    /\ i.pc = "in" => InFits(i)
    /\ i.pc = "free" => FreeFits(i)
    /\ i.pc \in {"call", "read", "wait", "woken"} => CallFits(i)
    /\ i.pc \in {"call", "read"} => Unwaited(i)
    /\ i.pc = "wait" => WaitFits(i)
    /\ i.pc = "woken" => WokenFits(i)

-----------------------------------------------------------------------------
(* Who is inside, and who waits *)

IsIn(i, p) ==
    \/ p \in i.holds
    \/ i.pc = "read" /\ i.to = p
    \/ i.pc = "woken" /\ i.entered = p

IsWriter(i, p) == IF p \in i.holds THEN ~WantsRead(i) ELSE ~IsRead(i)

Readers(I, p) == {c \in Cursor : IsIn(I[c], p) /\ ~IsWriter(I[c], p)}
Writers(I, p) == {c \in Cursor : IsIn(I[c], p) /\ IsWriter(I[c], p)}

Waits(i, p) == i.pc = "wait" /\ i.to = p

Once(q) == \A j, k \in DOMAIN q : q[j] = q[k] => j = k

QueuesFit(B, I, p) ==
    /\ Once(B[p].write_waiting) /\ Once(B[p].read_waiting)
    /\ Elems(B[p].write_waiting) = {c \in Cursor : Waits(I[c], p) /\ ~IsRead(I[c])}
    /\ Elems(B[p].read_waiting) = {c \in Cursor : Waits(I[c], p) /\ IsRead(I[c])}

Sound(B, I) ==
    /\ Types(B, I)
    /\ \A c \in Cursor : Place(I[c])
    /\ \A p \in Page : QueuesFit(B, I, p)
    /\ \A p \in Page : B[p].state = "decoy" => \E c \in Cursor : I[c].pc = "read" /\ I[c].to = p
    /\ \A p \in Page : B[p].state = "absent" => B[p] = Absent
    /\ \A p \in Page : B[p].state = "deleted" => p \in Leaf
    /\ \A c \in Cursor : I[c].reg => B[I[c].page].state # "deleted"
    /\ \A c \in Cursor : I[c].pc = "call" => B[Target(I[c])].state # "deleted"
    /\ \A c, d \in Cursor : I[d].pc = "free" /\ I[c].reg => I[c].page # I[d].page

\* The counts of page p tell who is inside.
Counts(B, I, p) ==
    /\ B[p].readers = Cardinality(Readers(I, p))
    /\ B[p].is_write <=> Writers(I, p) # {}
    /\ Writers(I, p) # {} => Readers(I, p) = {}
    /\ \A c, d \in Writers(I, p) : c = d

Deserted(I, p) == \A c \in Cursor : ~IsIn(I[c], p) /\ ~Waits(I[c], p)

\* A registration leads to the page that is entered, unless that is about to be freed.
Follows(I, p) ==
    \A c \in Cursor : I[c].fn = "pl_enter" /\ I[c].page # p =>
        /\ ~IsIn(I[c], p)
        /\ Waits(I[c], p) => \E d \in Cursor : I[d].pc = "free" /\ I[d].page = p

Counted(B, I, p) ==
    /\ Counts(B, I, p)
    /\ (\E c \in Cursor : Waits(I[c], p)) => \E c \in Cursor : IsIn(I[c], p)
    /\ B[p].state = "deleted" => Deserted(I, p)
    /\ Follows(I, p)

Good(B, I) == Sound(B, I) /\ \A p \in Page : Counted(B, I, p)

IInv == Good(bd, itc)

-----------------------------------------------------------------------------
(* Numbers *)

LEMMA UpTo == \A m, n \in Nat : m <= n => m \in 0 .. n
BY SMT

LEMMA BeyondAny == WAIT_ANY + 1 = 9 /\ 9 \in 1 .. 9
BY SMT DEF WAIT_ANY

-----------------------------------------------------------------------------
(* Queues *)

LEMMA Least ==
  ASSUME NEW T, T \subseteq Nat, T # {}
  PROVE  \E x \in T : \A y \in T : x <= y
<1> DEFINE R == OpToRel(<, Nat)
<1>1. IsWellFoundedOn(R, Nat)
  BY NatLessThanWellFounded
<1>2. \A x, y \in Nat : x < y => <<x, y>> \in R
  BY DEF OpToRel
<1> HIDE DEF R
<1>3. PICK x \in T : \A y \in T : ~(<<y, x>> \in R)
  BY <1>1, WFMin
<1>4. \A y \in T : x \in Nat /\ y \in Nat /\ ~(y < x)
  BY <1>2, <1>3
<1>5. \A y \in T : x <= y
  BY SMT, <1>4
<1>6. QED
  BY <1>3, <1>5

\* FirstFit finds the first waiter that accepts what happened, or runs past the end.
LEMMA FirstFitIs ==
  ASSUME NEW I, NEW q \in Seq(Cursor)
  PROVE  /\ FirstFit(I, q) \in 1 .. Len(q) + 1
         /\ FirstFit(I, q) <= Len(q) => Fits(I[q[FirstFit(I, q)]])
         /\ \A j \in 1 .. FirstFit(I, q) - 1 : ~Fits(I[q[j]])
<1> DEFINE T == {k \in 1 .. Len(q) + 1 : k <= Len(q) => Fits(I[q[k]])}
<1>1. T \subseteq Nat /\ Len(q) + 1 \in T
  BY SMT
<1>2. PICK x \in T : \A y \in T : x <= y
  <2> HIDE DEF T
  <2> QED
    BY <1>1, Least
<1>3. \A j \in 1 .. x - 1 : ~Fits(I[q[j]])
  BY SMT, <1>2
<1>4. QED
  BY <1>2, <1>3 DEF FirstFit

LEMMA TailElems ==
  ASSUME NEW q \in Seq(Cursor), NEW k \in 1 .. Len(q), Once(q)
  PROVE  /\ SubSeq(q, k + 1, Len(q)) \in Seq(Cursor)
         /\ Once(SubSeq(q, k + 1, Len(q)))
         /\ Elems(SubSeq(q, k + 1, Len(q))) = Elems(q) \ ({q[k]} \cup {q[j] : j \in 1 .. k - 1})
<1> DEFINE t == SubSeq(q, k + 1, Len(q))
<1>1. t \in Seq(Cursor) /\ Len(t) = Len(q) - k /\ \A j \in 1 .. Len(t) : t[j] = q[k + j]
  BY SMTT(30)
<1>2. DOMAIN q = 1 .. Len(q) /\ DOMAIN t = 1 .. Len(t) /\ Len(q) \in Nat
  BY SMT, <1>1
<1> HIDE DEF t
<1>3. Once(t)
  <2> SUFFICES ASSUME NEW m \in 1 .. Len(t), NEW n \in 1 .. Len(t), t[m] = t[n]
               PROVE  m = n
    BY <1>2 DEF Once
  <2>1. k + m \in 1 .. Len(q) /\ k + n \in 1 .. Len(q) /\ q[k + m] = q[k + n]
    BY SMT, <1>1, <1>2
  <2>2. k + m = k + n
    BY <2>1, <1>2 DEF Once
  <2>3. QED
    BY SMT, <2>2
<1>4. ASSUME NEW x \in Elems(t)
      PROVE  x \in Elems(q) \ ({q[k]} \cup {q[j] : j \in 1 .. k - 1})
  <2>1. PICK n \in 1 .. Len(t) : x = t[n]
    BY <1>2 DEF Elems
  <2>2. x = q[k + n] /\ k + n \in 1 .. Len(q)
    BY SMT, <2>1, <1>1, <1>2
  <2>3. \A j \in 1 .. k : q[j] # x
    BY SMT, <2>2, <1>2 DEF Once
  <2>4. QED
    BY SMT, <2>2, <2>3, <1>2 DEF Elems
<1>5. ASSUME NEW x \in Elems(q) \ ({q[k]} \cup {q[j] : j \in 1 .. k - 1})
      PROVE  x \in Elems(t)
  <2>1. PICK n \in 1 .. Len(q) : x = q[n]
    BY <1>2 DEF Elems
  <2>2. n > k
    BY SMT, <2>1, <1>2
  <2>3. n - k \in 1 .. Len(t) /\ t[n - k] = x
    BY SMT, <2>1, <2>2, <1>1, <1>2
  <2>4. QED
    BY <2>3, <1>2 DEF Elems
<1>6. QED
  BY <1>1, <1>3, <1>4, <1>5 DEF t

LEMMA EmptyElems == Elems(<<>>) = {} /\ Once(<<>>) /\ <<>> \in Seq(Cursor)
  BY SMT DEF Elems, Once

LEMMA ElemsEmpty ==
  ASSUME NEW q \in Seq(Cursor), Elems(q) = {}
  PROVE  q = <<>>
<1>1. Len(q) \in Nat /\ DOMAIN q = 1 .. Len(q)
  BY SMT
<1>2. 1 \notin DOMAIN q
  BY DEF Elems
<1>3. QED
  BY SMT, <1>1, <1>2

LEMMA ElemsCursors ==
  ASSUME NEW q \in Seq(Cursor)
  PROVE  Elems(q) \subseteq Cursor
  BY SMT DEF Elems

LEMMA AppendElems ==
  ASSUME NEW q \in Seq(Cursor), NEW c \in Cursor, c \notin Elems(q), Once(q)
  PROVE  /\ Append(q, c) \in Seq(Cursor)
         /\ Once(Append(q, c))
         /\ Elems(Append(q, c)) = Elems(q) \cup {c}
<1> DEFINE t == Append(q, c)
<1>1. t \in Seq(Cursor) /\ Len(t) = Len(q) + 1 /\ t[Len(q) + 1] = c /\ \A j \in 1 .. Len(q) : t[j] = q[j]
  BY SMT
<1>2. DOMAIN q = 1 .. Len(q) /\ DOMAIN t = 1 .. Len(t) /\ Len(q) \in Nat
  BY SMT, <1>1
<1> HIDE DEF t
<1>3. \A j \in 1 .. Len(q) : q[j] # c
  BY <1>2 DEF Elems
<1>4. Once(t)
  BY SMT, <1>1, <1>2, <1>3 DEF Once
<1>5. \A x \in Elems(t) : x \in Elems(q) \cup {c}
  BY SMT, <1>1, <1>2 DEF Elems
<1>6. Elems(q) \cup {c} \subseteq Elems(t)
  <2>1. c \in Elems(t)
    BY SMT, <1>1, <1>2 DEF Elems
  <2>2. \A x \in Elems(q) : x \in Elems(t)
    BY SMT, <1>1, <1>2 DEF Elems
  <2>3. QED
    BY <2>1, <2>2
<1>7. QED
  BY <1>1, <1>4, <1>5, <1>6 DEF t

LEMMA PrependElems ==
  ASSUME NEW q \in Seq(Cursor), NEW c \in Cursor, c \notin Elems(q), Once(q)
  PROVE  /\ <<c>> \o q \in Seq(Cursor)
         /\ Once(<<c>> \o q)
         /\ Elems(<<c>> \o q) = Elems(q) \cup {c}
<1> DEFINE t == <<c>> \o q
<1>1. t \in Seq(Cursor) /\ Len(t) = Len(q) + 1 /\ t[1] = c /\ \A j \in 1 .. Len(q) : t[j + 1] = q[j]
  BY SMT
<1>2. DOMAIN q = 1 .. Len(q) /\ DOMAIN t = 1 .. Len(t) /\ Len(q) \in Nat
  BY SMT, <1>1
<1> HIDE DEF t
<1>3. \A j \in 1 .. Len(q) : q[j] # c
  BY <1>2 DEF Elems
<1>4. \A n \in 1 .. Len(t) : n = 1 \/ (n - 1 \in 1 .. Len(q) /\ t[n] = q[n - 1])
  BY SMT, <1>1, <1>2
<1>5. Once(t)
  <2> SUFFICES ASSUME NEW m \in 1 .. Len(t), NEW n \in 1 .. Len(t), t[m] = t[n]
               PROVE  m = n
    BY <1>2 DEF Once
  <2>1. CASE m = 1 \/ n = 1
    BY <2>1, <1>1, <1>3, <1>4
  <2>2. CASE m # 1 /\ n # 1
    <3>1. m - 1 = n - 1
      BY <2>2, <1>2, <1>4 DEF Once
    <3>2. QED
      BY SMT, <3>1
  <2>3. QED
    BY <2>1, <2>2
<1>6. \A x \in Elems(t) : x \in Elems(q) \cup {c}
  <2> SUFFICES ASSUME NEW n \in 1 .. Len(t)
               PROVE  t[n] \in Elems(q) \cup {c}
    BY <1>2 DEF Elems
  <2>1. QED
    BY <1>1, <1>4, <1>2 DEF Elems
<1>7. Elems(q) \cup {c} \subseteq Elems(t)
  <2>1. c \in Elems(t)
    BY SMT, <1>1, <1>2 DEF Elems
  <2>2. ASSUME NEW j \in 1 .. Len(q)
        PROVE  q[j] \in Elems(t)
    <3>1. j + 1 \in 1 .. Len(t) /\ t[j + 1] = q[j]
      BY SMT, <1>1, <1>2
    <3>2. QED
      BY <3>1, <1>2 DEF Elems
  <2>3. QED
    BY <2>1, <2>2, <1>2 DEF Elems
<1>8. QED
  BY <1>1, <1>5, <1>6, <1>7 DEF t

-----------------------------------------------------------------------------
(* A cursor that is signalled, inside the pages P or without entry *)

Signalled(i, j, P) ==
    /\ j \in Itc /\ Place(j) /\ j.pc = "woken"
    /\ j.reg = i.reg /\ j.page = i.page /\ j.fn = i.fn
    /\ \A q \in Page : IsIn(j, q) <=> (IsIn(i, q) \/ q \in P)
    /\ \A q \in Page \ P : IsIn(i, q) => (IsWriter(j, q) <=> IsWriter(i, q))

LEMMA WaiterApart ==
  ASSUME NEW i \in Itc, Place(i), NEW p \in Page, Waits(i, p)
  PROVE  p \notin i.holds /\ ~IsIn(i, p) /\ p # NoPage
<1>1. CallFits(i)
  BY DEF Place, Waits
<1>2. p \notin i.holds
  BY SMT, <1>1, PagesApart DEF CallFits, Waits, Calling, Page, Itc
<1>3. QED
  BY PagesApart, <1>2 DEF IsIn, Waits

LEMMA RegisteredOnPage ==
  ASSUME NEW i \in Itc, Place(i), i.reg
  PROVE  i.page \in Page
BY PagesApart DEF Place, Places, OutFits, InFits, FreeFits, CallFits, Page, Itc

LEMMA TargetIsPage ==
  ASSUME NEW i \in Itc, Place(i), i.pc = "call"
  PROVE  Target(i) \in Page
  BY DEF Place, CallFits, Page, Target

LEMMA EntersSignalled ==
  ASSUME NEW i \in Itc, Place(i), NEW p \in Page, Waits(i, p), Fits(i)
  PROVE  Signalled(i, Enters(i, p), {p}) /\ (IsWriter(Enters(i, p), p) <=> ~IsRead(i))
<1> DEFINE j == Enters(i, p)
<1>1. /\ j \in Itc /\ j.pc = "woken" /\ j.entered = p /\ j.fn = i.fn /\ j.to = i.to /\ j.from = i.from
      /\ j.dive = i.dive /\ j.landed = i.landed /\ j.reg = i.reg /\ j.page = i.page /\ j.holds = i.holds
      /\ j.decoy = i.decoy /\ j.to_reset = i.to_reset /\ j.changed = i.changed
  BY DEF Enters, Itc, Places
<1> HIDE DEF j
<1>2. i.pc = "wait" /\ i.to = p /\ CallFits(i) /\ WaitFits(i) /\ p \notin i.holds /\ p # NoPage
  BY WaiterApart DEF Waits, Place
<1>3. CallFits(j)
  BY SMT, <1>1, <1>2 DEF CallFits, Calling, WantsRead
<1>4. WokenFits(j)
  <2>1. i.to_reset \in Nat /\ i.changed \in Nat /\ MaxChange(i.fn) \in Nat
    BY SMT, <1>2 DEF Itc, MaxChange, CallFits, NO_ENTRY_IF_WAIT, NO_WAIT, WAIT_KEY, WAIT_DATA, WAIT_ANY
  <2>2. QED
    BY SMT, <1>1, <1>2, <2>1 DEF WokenFits, WaitFits, FindsItselfIn, Fits, NO_ENTRY_IF_WAIT, NO_WAIT
<1>5. \A q : IsWriter(j, q) <=> IsWriter(i, q)
  BY <1>1 DEF IsWriter, WantsRead, IsRead
<1>6. QED
  BY <1>5, <1>2, <1>1, <1>3, <1>4 DEF Signalled, j, Place, IsIn, IsWriter

LEMMA AdaptiveSignalled ==
  ASSUME NEW i \in Itc, Place(i), NEW p \in Page, Waits(i, p), Fits(i), IsRead(i), i.dive = "READ"
  PROVE  /\ Signalled(i, [Enters(i, p) EXCEPT !.dive = "WRITE"], {p})
         /\ IsWriter([Enters(i, p) EXCEPT !.dive = "WRITE"], p)
<1> DEFINE j == [Enters(i, p) EXCEPT !.dive = "WRITE"]
<1>1. /\ j \in Itc /\ j.pc = "woken" /\ j.entered = p /\ j.fn = i.fn /\ j.to = i.to /\ j.from = i.from
      /\ j.dive = "WRITE" /\ j.landed = i.landed /\ j.reg = i.reg /\ j.page = i.page /\ j.holds = i.holds
      /\ j.decoy = i.decoy /\ j.to_reset = i.to_reset /\ j.changed = i.changed
  BY DEF Enters, Itc, Places
<1> HIDE DEF j
<1>2. i.pc = "wait" /\ i.to = p /\ CallFits(i) /\ WaitFits(i) /\ p \notin i.holds /\ p # NoPage
  BY WaiterApart DEF Waits, Place
<1>3. ~i.landed /\ i.fn # "land"
  BY DEF IsRead, WantsRead
<1>4. CallFits(j) /\ i.holds = {}
  BY <1>1, <1>2, <1>3 DEF CallFits, Calling, WantsRead
<1>5. WokenFits(j)
  <2>1. i.to_reset \in Nat /\ i.changed \in Nat /\ MaxChange(i.fn) \in Nat
    BY SMT, <1>2 DEF Itc, MaxChange, CallFits, NO_ENTRY_IF_WAIT, NO_WAIT, WAIT_KEY, WAIT_DATA, WAIT_ANY
  <2>2. QED
    BY SMT, <1>1, <1>2, <2>1 DEF WokenFits, WaitFits, FindsItselfIn, Fits, NO_ENTRY_IF_WAIT, NO_WAIT
<1>6. QED
  BY <1>1, <1>3, <1>4, <1>2, <1>5 DEF Signalled, j, Place, IsIn, IsWriter, WantsRead, IsRead

LEMMA RefusedSignalled ==
  ASSUME NEW i \in Itc, Place(i), NEW p \in Page, Waits(i, p), ~Fits(i)
  PROVE  Signalled(i, Refused(i), {})
<1> DEFINE j == Refused(i)
<1>1. /\ j \in Itc /\ j.pc = "woken" /\ j.entered = NoPage /\ j.fn = i.fn /\ j.to = i.to /\ j.from = i.from
      /\ j.dive = i.dive /\ j.landed = i.landed /\ j.reg = i.reg /\ j.page = i.page /\ j.holds = i.holds
      /\ j.decoy = i.decoy /\ j.changed = i.changed /\ j.to_reset = (IF i.fn = "up" THEN 0 ELSE i.to_reset)
  <2>1. PICK r \in 0 .. 9 : r = IF i.fn = "up" THEN 0 ELSE i.to_reset
    BY SMT DEF Itc
  <2>2. j = [i EXCEPT !.pc = "woken", !.entered = NoPage, !.to_reset = r]
    BY <2>1 DEF Refused, NO_ENTRY_IF_WAIT
  <2> HIDE DEF j
  <2>3. /\ j \in Itc /\ j.pc = "woken" /\ j.entered = NoPage /\ j.fn = i.fn /\ j.to = i.to /\ j.from = i.from
        /\ j.dive = i.dive /\ j.landed = i.landed /\ j.reg = i.reg /\ j.page = i.page /\ j.holds = i.holds
        /\ j.decoy = i.decoy /\ j.changed = i.changed /\ j.to_reset = r
    BY <2>2 DEF Itc, Places
  <2>4. QED
    BY <2>1, <2>3
<1> HIDE DEF j
<1>2. i.pc = "wait" /\ i.to = p /\ CallFits(i) /\ WaitFits(i) /\ p \notin i.holds /\ p # NoPage
  BY WaiterApart DEF Waits, Place
<1>3. CallFits(j)
  BY SMT, <1>1, <1>2 DEF CallFits, Calling, WantsRead
<1>4. WokenFits(j)
  <2>1. i.to_reset \in Nat /\ MaxChange(i.fn) \in Nat
    BY SMT, <1>2 DEF Itc, MaxChange, CallFits, NO_ENTRY_IF_WAIT, NO_WAIT, WAIT_KEY, WAIT_DATA, WAIT_ANY
  <2>2. QED
    BY <1>1, <1>2, <2>1 DEF WokenFits, WaitFits, FindsItselfIn, Fits, NO_ENTRY_IF_WAIT
<1>5. QED
  BY <1>1, <1>2, PagesApart, <1>3, <1>4 DEF Signalled, j, Place, IsIn, IsWriter, WantsRead, IsRead

-----------------------------------------------------------------------------
(* A release signals cursors that wait for page p: those of "in" enter, those of "out" do not *)

\* The cursors of S are taken out of the queues of p.
Shortens(B, B2, p, S) ==
    /\ B2 \in [Page -> Buffer]
    /\ \A q \in Page \ {p} : B2[q] = B[q]
    /\ B2[p].state = B[p].state
    /\ Once(B2[p].write_waiting) /\ Once(B2[p].read_waiting)
    /\ Elems(B2[p].write_waiting) = Elems(B[p].write_waiting) \ S
    /\ Elems(B2[p].read_waiting) = Elems(B[p].read_waiting) \ S

Wakes(B, I, B2, J, p, in, out) ==
    /\ Shortens(B, B2, p, in \cup out) /\ J \in [Cursor -> Itc]
    /\ \A c \in in : c \in Cursor /\ Waits(I[c], p) /\ Signalled(I[c], J[c], {p})
    /\ \A c \in out : c \in Cursor /\ Waits(I[c], p) /\ Signalled(I[c], J[c], {})
    /\ \A c \in Cursor \ (in \cup out) : J[c] = I[c]

LEMMA SignalledFacts ==
  ASSUME NEW i, NEW j, NEW P, Signalled(i, j, P)
  PROVE  /\ j \in Itc /\ Place(j) /\ j.pc = "woken" /\ j.reg = i.reg /\ j.page = i.page /\ j.fn = i.fn
         /\ \A q : ~Waits(j, q)
  BY DEF Signalled, Waits

LEMMA WakesSound ==
  ASSUME NEW B, NEW I, NEW B2, NEW J, NEW p \in Page, NEW in, NEW out,
         Sound(B, I), B[p].state # "absent", Wakes(B, I, B2, J, p, in, out)
  PROVE  Sound(B2, J)
<1> DEFINE S == in \cup out
<1>1. \A c \in S : /\ c \in Cursor /\ Waits(I[c], p) /\ J[c] \in Itc /\ Place(J[c]) /\ J[c].pc = "woken"
                   /\ J[c].reg = I[c].reg /\ J[c].page = I[c].page /\ \A q : ~Waits(J[c], q)
  <2> TAKE c \in S
  <2>1. PICK P : c \in Cursor /\ Waits(I[c], p) /\ Signalled(I[c], J[c], P)
    BY DEF Wakes, Shortens
  <2>2. QED
    BY <2>1, SignalledFacts
<1>2. \A c \in Cursor \ S : J[c] = I[c]
  BY DEF Wakes, Shortens
<1>3. \A q \in Page : B2[q].state = B[q].state
  BY DEF Wakes, Shortens
<1>4. \A q \in Page : QueuesFit(B2, J, q)
  <2> TAKE q \in Page
  <2>1. CASE q = p
    <3>1. /\ Elems(B[p].write_waiting) = {c \in Cursor : Waits(I[c], p) /\ ~IsRead(I[c])}
          /\ Elems(B[p].read_waiting) = {c \in Cursor : Waits(I[c], p) /\ IsRead(I[c])}
      BY DEF Sound, QueuesFit
    <3>2. {c \in Cursor : Waits(J[c], p) /\ ~IsRead(J[c])} = {c \in Cursor : Waits(I[c], p) /\ ~IsRead(I[c])} \ S
      <4> HIDE DEF S
      <4> QED
        BY <1>1, <1>2
    <3>3. {c \in Cursor : Waits(J[c], p) /\ IsRead(J[c])} = {c \in Cursor : Waits(I[c], p) /\ IsRead(I[c])} \ S
      <4> HIDE DEF S
      <4> QED
        BY <1>1, <1>2
    <3>4. QED
      BY <2>1, <3>1, <3>2, <3>3 DEF QueuesFit, Wakes, Shortens
  <2>2. CASE q # p
    <3>1. \A c \in Cursor : Waits(I[c], q) => c \notin S
      BY <1>1, <2>2 DEF Waits
    <3>2. \A c \in Cursor : /\ Waits(J[c], q) <=> Waits(I[c], q)
                            /\ Waits(J[c], q) => J[c] = I[c]
      <4> HIDE DEF S
      <4> QED
        BY <1>1, <1>2, <3>1
    <3>3. B2[q] = B[q]
      BY <2>2 DEF Wakes, Shortens
    <3>4. QueuesFit(B, I, q)
      BY DEF Sound
    <3>5. QED
      BY <3>2, <3>3, <3>4 DEF QueuesFit
  <2>3. QED
    BY <2>1, <2>2
<1> HIDE DEF S
<1>5. \A c \in Cursor : Place(J[c])
  BY <1>1, <1>2 DEF Sound
<1>6. \A c \in Cursor : /\ J[c].reg = I[c].reg /\ J[c].page = I[c].page
                        /\ J[c] = I[c] \/ (J[c].pc = "woken" /\ I[c].pc = "wait")
  BY <1>1, <1>2 DEF Waits
<1>7. \A q \in Page : B2[q].state = "decoy" => \E c \in Cursor : J[c].pc = "read" /\ J[c].to = q
  <2> SUFFICES ASSUME NEW q \in Page, B2[q].state = "decoy"
               PROVE  \E c \in Cursor : J[c].pc = "read" /\ J[c].to = q
    OBVIOUS
  <2>1. PICK c \in Cursor : I[c].pc = "read" /\ I[c].to = q
    BY <1>3 DEF Sound
  <2>2. QED
    BY <2>1, <1>6
<1>8. \A q \in Page : B2[q].state = "absent" => B2[q] = Absent
  BY <1>3 DEF Sound, Wakes, Shortens
<1>9. \A q \in Page : B2[q].state = "deleted" => q \in Leaf
  BY <1>3 DEF Sound
<1>10. \A c \in Cursor : J[c].reg => B2[J[c].page].state # "deleted"
  <2> SUFFICES ASSUME NEW c \in Cursor, J[c].reg
               PROVE  B2[J[c].page].state # "deleted"
    OBVIOUS
  <2>1. I[c].reg /\ J[c].page = I[c].page /\ B[I[c].page].state # "deleted"
    BY <1>6 DEF Sound
  <2>2. I[c].page \in Page
    BY <2>1, RegisteredOnPage DEF Sound, Types
  <2>3. QED
    BY <2>1, <2>2, <1>3
<1>11. \A c \in Cursor : J[c].pc = "call" => B2[Target(J[c])].state # "deleted"
  <2> SUFFICES ASSUME NEW c \in Cursor, J[c].pc = "call"
               PROVE  B2[Target(J[c])].state # "deleted"
    OBVIOUS
  <2>1. J[c] = I[c]
    BY <1>6
  <2>2. Target(I[c]) \in Page
    BY <2>1, TargetIsPage DEF Sound, Types
  <2>3. QED
    BY <2>1, <2>2, <1>3 DEF Sound
<1>12. \A c, d \in Cursor : J[d].pc = "free" /\ J[c].reg => J[c].page # J[d].page
  <2> SUFFICES ASSUME NEW c \in Cursor, NEW d \in Cursor, J[d].pc = "free", J[c].reg
               PROVE  J[c].page # J[d].page
    OBVIOUS
  <2>1. I[d].pc = "free" /\ I[c].reg /\ J[c].page = I[c].page /\ J[d].page = I[d].page
    BY <1>6
  <2>2. QED
    BY SMT, <2>1 DEF Sound
<1>13. Types(B2, J)
  BY DEF Wakes, Shortens, Types
<1>14. QED
  BY <1>4, <1>5, <1>7, <1>8, <1>9, <1>10, <1>11, <1>12, <1>13 DEF Sound

\* Nothing about page q changes for cursor i when it becomes j.
Alike(i, j, q) ==
    /\ IsIn(j, q) <=> IsIn(i, q)
    /\ IsIn(i, q) => (IsWriter(j, q) <=> IsWriter(i, q))
    /\ Waits(j, q) <=> Waits(i, q)
    /\ (IsIn(j, q) \/ Waits(j, q)) /\ j.fn = "pl_enter" => i.fn = "pl_enter" /\ j.page = i.page
    /\ i.pc = "free" /\ i.page = q => j.pc = "free" /\ j.page = q

LEMMA AlikeCounted ==
  ASSUME NEW B, NEW I, NEW B2, NEW J, NEW q \in Page, Counted(B, I, q),
         B2[q].readers = B[q].readers, B2[q].is_write = B[q].is_write,
         B2[q].state = "deleted" => B[q].state = "deleted",
         \A c \in Cursor : Alike(I[c], J[c], q)
  PROVE  Counted(B2, J, q)
<1>1. Readers(J, q) = Readers(I, q) /\ Writers(J, q) = Writers(I, q)
  BY DEF Readers, Writers, Alike
<1>2. \A c \in Cursor : (IsIn(J[c], q) <=> IsIn(I[c], q)) /\ (Waits(J[c], q) <=> Waits(I[c], q))
  BY DEF Alike
<1>3. Follows(J, q)
  <2> SUFFICES ASSUME NEW c \in Cursor, J[c].fn = "pl_enter", J[c].page # q, IsIn(J[c], q) \/ Waits(J[c], q)
               PROVE  /\ ~IsIn(J[c], q)
                      /\ \E d \in Cursor : J[d].pc = "free" /\ J[d].page = q
    BY DEF Follows
  <2>1. QED
    BY <1>2 DEF Alike, Counted, Follows
<1>4. QED
  BY <1>1, <1>2, <1>3 DEF Counted, Deserted, Counts

LEMMA WakesCounted ==
  ASSUME NEW B, NEW I, NEW B2, NEW J, NEW p \in Page, NEW in, NEW out, NEW q \in Page, q # p,
         Counted(B, I, q), Wakes(B, I, B2, J, p, in, out)
  PROVE  Counted(B2, J, q)
<1>1. B2[q] = B[q]
  BY DEF Wakes, Shortens
<1>2. \A c \in Cursor : Alike(I[c], J[c], q)
  <2> TAKE c \in Cursor
  <2>1. CASE c \in in \cup out
    <3>1. PICK P : P \in {{}, {p}} /\ Waits(I[c], p) /\ Signalled(I[c], J[c], P)
      BY <2>1 DEF Wakes, Shortens
    <3>2. QED
      BY <3>1, SignalledFacts DEF Alike, Signalled, Waits
  <2>2. CASE c \notin in \cup out
    BY <2>2 DEF Wakes, Shortens, Alike
  <2>3. QED
    BY <2>1, <2>2
<1>3. QED
  BY <1>1, <1>2, AlikeCounted

\* Who is inside p and who waits for it afterwards.
Adds(I, J, p, in, out) ==
    /\ \A c \in Cursor : IsIn(J[c], p) <=> (IsIn(I[c], p) \/ c \in in)
    /\ \A c \in Cursor : IsIn(I[c], p) => (IsWriter(J[c], p) <=> IsWriter(I[c], p))
    /\ \A c \in Cursor : Waits(J[c], p) <=> (Waits(I[c], p) /\ c \notin in \cup out)
    /\ \A c \in Cursor : J[c].page = I[c].page /\ J[c].fn = I[c].fn
    /\ \A c \in in : c \in Cursor /\ ~IsIn(I[c], p)

LEMMA WakesMembers ==
  ASSUME NEW B, NEW I, NEW B2, NEW J, NEW p \in Page, NEW in, NEW out,
         Sound(B, I), Wakes(B, I, B2, J, p, in, out)
  PROVE  Adds(I, J, p, in, out)
<1>1. \A c \in in \cup out : c \in Cursor /\ Waits(I[c], p) /\ ~IsIn(I[c], p)
  BY WaiterApart DEF Wakes, Sound, Types
<1>2. ASSUME NEW c \in in
      PROVE  IsIn(J[c], p) /\ ~Waits(J[c], p) /\ J[c].page = I[c].page /\ J[c].fn = I[c].fn
  <2>1. Signalled(I[c], J[c], {p})
    BY DEF Wakes, Shortens
  <2>2. QED
    BY <2>1, SignalledFacts DEF Signalled
<1>3. ASSUME NEW c \in out
      PROVE  ~IsIn(J[c], p) /\ ~Waits(J[c], p) /\ J[c].page = I[c].page /\ J[c].fn = I[c].fn
  BY <1>1 DEF Wakes, Shortens, Signalled, Waits
<1>4. \A c \in Cursor : c \notin in \cup out => J[c] = I[c]
  BY DEF Wakes, Shortens
<1>5. \A c \in Cursor : IsIn(J[c], p) <=> (IsIn(I[c], p) \/ c \in in)
  <2> TAKE c \in Cursor
  <2>1. CASE c \in in
    BY <2>1, <1>2
  <2>2. CASE c \notin in /\ c \in out
    BY <2>2, <1>1, <1>3
  <2>3. CASE c \notin in \cup out
    BY <2>3, <1>4
  <2>4. QED
    BY <2>1, <2>2, <2>3
<1>6. QED
  BY <1>2, <1>3, <1>4, <1>1, <1>5 DEF Adds

-----------------------------------------------------------------------------
(* Releasing page p *)

\* Everything but page p is in order.
Others(B, I, p) == Sound(B, I) /\ \A q \in Page \ {p} : Counted(B, I, q)

\* The cursors inside p, and those that wait for p, that follow a registration are registered on p.
Returned(I, p) == \A c \in Cursor : IsIn(I[c], p) /\ I[c].fn = "pl_enter" => I[c].page = p
Expected(I, p) == \A c \in Cursor : Waits(I[c], p) /\ I[c].fn = "pl_enter" => I[c].page = p

NoneFits(I, p) == \A c \in Cursor : Waits(I[c], p) => ~Fits(I[c])

LEMMA WakesGood ==
  ASSUME NEW B, NEW I, NEW B2, NEW J, NEW p \in Page, NEW in, NEW out,
         Others(B, I, p), Returned(I, p), B[p].state # "absent", Wakes(B, I, B2, J, p, in, out),
         Counts(B2, J, p),
         \/ /\ B[p].state # "deleted" /\ Expected(I, p)
            /\ (\E c \in Cursor : IsIn(J[c], p)) \/ (\A c \in Cursor : ~Waits(J[c], p))
         \/ in = {} /\ \A c \in Cursor : ~IsIn(I[c], p) /\ ~Waits(J[c], p)
  PROVE  Good(B2, J)
<1>1. Counted(B2, J, p)
  <2>1. /\ \A c \in Cursor : IsIn(J[c], p) <=> (IsIn(I[c], p) \/ c \in in)
        /\ \A c \in Cursor : Waits(J[c], p) <=> (Waits(I[c], p) /\ c \notin in \cup out)
        /\ \A c \in Cursor : J[c].page = I[c].page /\ J[c].fn = I[c].fn
    <3>1. Adds(I, J, p, in, out)
      BY WakesMembers DEF Others
    <3>2. QED
      BY <3>1 DEF Adds
  <2>2. B2[p].state = B[p].state /\ \A c \in in : Waits(I[c], p)
    BY DEF Wakes, Shortens
  <2>3. CASE B[p].state # "deleted" /\ Expected(I, p)
    BY <2>1, <2>2, <2>3 DEF Counted, Follows, Returned, Expected
  <2>4. CASE in = {} /\ \A c \in Cursor : ~IsIn(I[c], p) /\ ~Waits(J[c], p)
    BY <2>1, <2>4 DEF Counted, Follows, Deserted
  <2>5. QED
    BY <2>3, <2>4
<1>2. QED
  BY WakesCounted, WakesSound, <1>1 DEF Good, Others

\* Those let in accept what happened, those turned away do not.
Judged(I, p, in, out) ==
    /\ \A c \in in : c \in Cursor /\ Waits(I[c], p) /\ Fits(I[c])
    /\ \A c \in out : c \in Cursor /\ Waits(I[c], p) /\ ~Fits(I[c])

LEMMA WokenWakes ==
  ASSUME NEW B, NEW I, NEW B2, NEW p \in Page, NEW in, NEW out, Sound(B, I),
         Judged(I, p, in, out), Shortens(B, B2, p, in \cup out)
  PROVE  /\ Wakes(B, I, B2, Woken(I, p, in, out), p, in, out)
         /\ \A c \in in : IsWriter(Woken(I, p, in, out)[c], p) <=> ~IsRead(I[c])
<1> DEFINE J == Woken(I, p, in, out)
<1>1. \A c \in Cursor : I[c] \in Itc /\ Place(I[c])
  BY DEF Sound, Types
<1>2. J = [c \in Cursor |-> J[c]]
  BY DEF Woken
<1>3. \A c \in in : J[c] = Enters(I[c], p)
  BY DEF Woken, Judged
<1>4. \A c \in out : J[c] = Refused(I[c])
  BY DEF Woken, Judged
<1>5. \A c \in Cursor : c \notin in \cup out => J[c] = I[c]
  BY DEF Woken
<1> HIDE DEF J
<1>6. \A c \in in : c \in Cursor /\ Waits(I[c], p) /\ Signalled(I[c], J[c], {p}) /\ (IsWriter(J[c], p) <=> ~IsRead(I[c]))
  <2> TAKE c \in in
  <2>1. QED
    BY <1>1, <1>3, EntersSignalled DEF Judged
<1>7. \A c \in out : c \in Cursor /\ Waits(I[c], p) /\ Signalled(I[c], J[c], {})
  <2> TAKE c \in out
  <2>1. QED
    BY <1>1, <1>4, RefusedSignalled DEF Judged
<1>8. J \in [Cursor -> Itc]
  BY <1>1, <1>5, <1>6, <1>7, <1>2 DEF Signalled
<1>9. QED
  BY <1>5, <1>6, <1>7, <1>8 DEF J, Wakes

LEMMA Scanned ==
  ASSUME NEW I, NEW q \in Seq(Cursor), Once(q), NEW k, k = FirstFit(I, q)
  PROVE  LET out == {q[j] : j \in 1 .. k - 1}
         IN /\ out \subseteq Elems(q) /\ \A c \in out : ~Fits(I[c])
            /\ k <= Len(q) => k \in 1 .. Len(q) /\ q[k] \in Elems(q) /\ Fits(I[q[k]]) /\ q[k] \notin out
            /\ ~(k <= Len(q)) => out = Elems(q) /\ {k} \cap DOMAIN q = {}
<1> DEFINE out == {q[j] : j \in 1 .. k - 1}
<1>1. /\ k \in 1 .. Len(q) + 1 /\ (k <= Len(q) => Fits(I[q[k]]))
      /\ \A j \in 1 .. k - 1 : ~Fits(I[q[j]])
  BY FirstFitIs
<1>2. DOMAIN q = 1 .. Len(q) /\ Len(q) \in Nat
  BY SMT
<1>3. \A j \in 1 .. k - 1 : j \in 1 .. Len(q)
  BY SMT, <1>1, <1>2
<1>4. out \subseteq Elems(q) /\ \A c \in out : ~Fits(I[c])
  BY <1>1, <1>2, <1>3 DEF Elems
<1>5. ASSUME k <= Len(q)
      PROVE  k \in 1 .. Len(q) /\ q[k] \in Elems(q) /\ Fits(I[q[k]]) /\ q[k] \notin out
  <2>1. k \in 1 .. Len(q)
    BY SMT, <1>1, <1>2, <1>5
  <2>2. QED
    BY <2>1, <1>1, <1>2, <1>4, <1>5 DEF Elems
<1>6. ASSUME ~(k <= Len(q))
      PROVE  out = Elems(q) /\ {k} \cap DOMAIN q = {}
  <2>1. 1 .. k - 1 = 1 .. Len(q) /\ k \notin 1 .. Len(q)
    BY SMT, <1>1, <1>2, <1>6
  <2>2. QED
    BY <2>1, <1>2 DEF Elems
<1>7. QED
  BY <1>4, <1>5, <1>6

LEMMA MembersFinite ==
  ASSUME NEW I, NEW p
  PROVE  /\ IsFiniteSet(Readers(I, p)) /\ Cardinality(Readers(I, p)) \in Nat
         /\ Cardinality(Readers(I, p)) = 0 <=> Readers(I, p) = {}
BY CursorsFinite, FS_Subset, FS_CardinalityType, FS_EmptySet DEF Readers

\* page_release_read may start: the counts are right and nobody inside writes.
Open(B, I, p) ==
    /\ Others(B, I, p) /\ Returned(I, p) /\ B[p].state # "absent"
    /\ ~B[p].is_write /\ Writers(I, p) = {} /\ B[p].readers = Cardinality(Readers(I, p))
    /\ Readers(I, p) # {} \/ B[p].write_waiting = <<>>
    /\ \/ B[p].state # "deleted" /\ Expected(I, p)
       \/ NoneFits(I, p) /\ Readers(I, p) = {}

LEMMA ReadersJoin ==
  ASSUME NEW B, NEW I, NEW B2, NEW J, NEW p \in Page, NEW in, NEW out,
         Sound(B, I), Wakes(B, I, B2, J, p, in, out), Writers(I, p) = {},
         B[p].readers = Cardinality(Readers(I, p)),
         \A c \in in : ~IsWriter(J[c], p),
         B2[p].readers = B[p].readers + Cardinality(in), ~B2[p].is_write
  PROVE  Counts(B2, J, p)
<1>1. /\ \A c \in Cursor : IsIn(J[c], p) <=> (IsIn(I[c], p) \/ c \in in)
      /\ \A c \in Cursor : IsIn(I[c], p) => (IsWriter(J[c], p) <=> IsWriter(I[c], p))
      /\ \A c \in in : c \in Cursor /\ ~IsIn(I[c], p)
  <2>1. Adds(I, J, p, in, out)
    BY WakesMembers
  <2>2. QED
    BY <2>1 DEF Adds
<1>2. Readers(J, p) = Readers(I, p) \cup in
  BY <1>1 DEF Readers
<1>3. Readers(I, p) \cap in = {}
  BY <1>1 DEF Readers
<1>4. IsFiniteSet(in)
  BY <1>1, CursorsFinite, FS_Subset
<1>5. /\ Cardinality(Readers(J, p)) = Cardinality(Readers(I, p)) + Cardinality(in) - Cardinality({})
      /\ Cardinality({}) = 0
  <2>1. Cardinality(Readers(I, p) \cup in) = Cardinality(Readers(I, p)) + Cardinality(in) - Cardinality(Readers(I, p) \cap in)
    BY MembersFinite, <1>4, FS_Union
  <2>2. QED
    BY <2>1, <1>2, <1>3, FS_EmptySet
<1>6. Cardinality(Readers(I, p)) \in Nat /\ Cardinality(in) \in Nat
  BY <1>4, MembersFinite, FS_CardinalityType
<1>7. B2[p].readers = Cardinality(Readers(J, p))
  BY SMT, <1>5, <1>6
<1>8. QED
  BY <1>1, <1>7 DEF Counts, Writers

LEMMA WriterJoins ==
  ASSUME NEW B, NEW I, NEW B2, NEW J, NEW p \in Page, NEW w, NEW out,
         Sound(B, I), Wakes(B, I, B2, J, p, {w}, out), Writers(I, p) = {}, Readers(I, p) = {},
         IsWriter(J[w], p), B2[p].readers = 0, B2[p].is_write
  PROVE  Counts(B2, J, p) /\ \E c \in Cursor : IsIn(J[c], p)
<1>1. /\ \A c \in Cursor : IsIn(J[c], p) <=> (IsIn(I[c], p) \/ c = w)
      /\ w \in Cursor
  <2>1. Adds(I, J, p, {w}, out)
    BY WakesMembers
  <2>2. QED
    BY <2>1 DEF Adds
<1>2. QED
  BY <1>1, FS_EmptySet DEF Counts, Readers, Writers

LEMMA page_release_readGood ==
  ASSUME NEW B, NEW I, NEW p \in Page, Open(B, I, p)
  PROVE  LET r == page_release_read(B, I, p) IN Good(r.bd, r.itc)
<1> DEFINE b == B[p]
           q == b.read_waiting
           k == FirstFit(I, q)
           in == {c \in Elems(q) : Fits(I[c])}
           out == {q[j] : j \in 1 .. k - 1}
<1>1. Sound(B, I) /\ B \in [Page -> Buffer] /\ I \in [Cursor -> Itc]
  BY DEF Open, Others, Sound, Types
<1>2. b \in Buffer /\ q \in Seq(Cursor) /\ b.write_waiting \in Seq(Cursor) /\ b.readers \in Nat
  BY <1>1 DEF Buffer
<1>3. QueuesFit(B, I, p) /\ Once(q) /\ Once(b.write_waiting)
  BY <1>1 DEF Sound, QueuesFit
<1>4. /\ \A c \in Elems(q) : c \in Cursor /\ Waits(I[c], p) /\ IsRead(I[c])
      /\ \A c \in Elems(b.write_waiting) : c \in Cursor /\ Waits(I[c], p) /\ ~IsRead(I[c])
      /\ \A c \in Cursor : Waits(I[c], p) => c \in Elems(q) \/ c \in Elems(b.write_waiting)
  BY <1>3 DEF QueuesFit
<1>5. CASE k <= Len(q) /\ AdaptiveWrite(b, I[q[k]], p)
  <2> DEFINE w == q[k]
             B2 == [B EXCEPT ![p].read_waiting = SubSeq(q, k + 1, Len(q)), ![p].is_write = TRUE]
             J0 == Woken(I, p, {w}, out)
             J == [J0 EXCEPT ![w].dive = "WRITE"]
  <2>1. /\ out \subseteq Elems(q) /\ \A c \in out : ~Fits(I[c])
        /\ k \in 1 .. Len(q) /\ w \in Elems(q) /\ Fits(I[w]) /\ w \notin out
    BY ZenonT(60), <1>2, <1>3, <1>5, Scanned
  <2>2. /\ SubSeq(q, k + 1, Len(q)) \in Seq(Cursor) /\ Once(SubSeq(q, k + 1, Len(q)))
        /\ Elems(SubSeq(q, k + 1, Len(q))) = Elems(q) \ ({w} \cup out)
    <3> HIDE DEF q
    <3> QED
      BY <1>2, <1>3, <2>1, TailElems
  <2>3. page_release_read(B, I, p) = [bd |-> B2, itc |-> J]
    BY <1>5 DEF page_release_read
  <2>4. I[w].dive = "READ" /\ b.readers = 0
    BY <1>5 DEF AdaptiveWrite
  <2> HIDE DEF k, w, out
  <2>5. /\ B2 \in [Page -> Buffer] /\ \A r \in Page \ {p} : B2[r] = B[r]
        /\ B2[p].state = b.state /\ B2[p].write_waiting = b.write_waiting
        /\ B2[p].read_waiting = SubSeq(q, k + 1, Len(q)) /\ B2[p].is_write /\ B2[p].readers = 0
    BY <1>2, <2>2, <1>1, <2>4 DEF Buffer
  <2>6. /\ w \in Cursor /\ Waits(I[w], p) /\ IsRead(I[w]) /\ I[w] \in Itc /\ Place(I[w])
        /\ \A c \in out : c \in Cursor /\ Waits(I[c], p) /\ ~Fits(I[c])
    BY <2>1, <1>1, <1>4 DEF Sound
  <2>7. Elems(b.write_waiting) = Elems(b.write_waiting) \ ({w} \cup out)
    BY <2>1, <1>4
  <2> HIDE DEF q, B2
  <2>8. Wakes(B, I, B2, J0, p, {w}, out)
    <3>1. Shortens(B, B2, p, {w} \cup out)
      BY <1>3, <2>2, <2>5, <2>7 DEF Shortens, q
    <3>2. QED
      BY <2>1, <2>6, <1>1, <3>1, WokenWakes DEF Judged
  <2>9. /\ J[w] = [Enters(I[w], p) EXCEPT !.dive = "WRITE"]
        /\ \A c \in Cursor : c # w => J[c] = J0[c]
    <3>1. J0[w] = Enters(I[w], p) /\ w \in DOMAIN J0
      BY <2>6 DEF Woken
    <3>2. DOMAIN J0 = Cursor
      BY DEF Woken
    <3> HIDE DEF J0
    <3>3. QED
      BY <3>1, <3>2, <2>6
  <2>10. Signalled(I[w], J[w], {p}) /\ IsWriter(J[w], p)
    BY ZenonT(60), <2>1, <2>4, <2>6, <2>9, AdaptiveSignalled
  <2>11. J \in [Cursor -> Itc]
    <3> HIDE DEF J0
    <3>1. QED
      BY <2>8, <2>10, <2>9 DEF Signalled, Wakes
  <2> HIDE DEF J0, J
  <2>12. Wakes(B, I, B2, J, p, {w}, out)
    BY <2>1, <2>6, <2>8, <2>9, <2>10, <2>11 DEF Wakes
  <2>13. Writers(I, p) = {} /\ Readers(I, p) = {}
    BY <2>4, MembersFinite DEF Open
  <2>14. Counts(B2, J, p) /\ \E c \in Cursor : IsIn(J[c], p)
    BY <1>1, <2>5, <2>10, <2>12, <2>13, WriterJoins
  <2>15. Good(B2, J)
    BY <2>1, <2>6, <2>12, <2>14, WakesGood DEF Open, NoneFits
  <2>16. QED
    BY SMT, <2>3, <2>15
<1>6. CASE ~(k <= Len(q) /\ AdaptiveWrite(b, I[q[k]], p))
  <2> DEFINE B2 == [B EXCEPT ![p].read_waiting = <<>>, ![p].readers = @ + Cardinality(in)]
             no == Elems(q) \ in
             J == Woken(I, p, in, no)
  <2>1. page_release_read(B, I, p) = [bd |-> B2, itc |-> J]
    BY <1>6 DEF page_release_read
  <2>2. in \subseteq Cursor /\ Cardinality(in) \in Nat
    BY <1>4, CursorsFinite, FS_Subset, FS_CardinalityType
  <2> HIDE DEF k, out
  <2>3. /\ \A c \in in : c \in Cursor /\ Waits(I[c], p) /\ Fits(I[c]) /\ IsRead(I[c])
        /\ \A c \in no : c \in Cursor /\ Waits(I[c], p) /\ ~Fits(I[c])
        /\ in \cup no = Elems(q)
    BY <1>4
  <2> HIDE DEF in, no
  <2>4. /\ B2 \in [Page -> Buffer] /\ \A r \in Page \ {p} : B2[r] = B[r]
        /\ B2[p].state = b.state /\ B2[p].write_waiting = b.write_waiting
        /\ B2[p].read_waiting = <<>> /\ B2[p].is_write = b.is_write
        /\ B2[p].readers = b.readers + Cardinality(in)
    <3>1. PICK n \in Nat : n = b.readers + Cardinality(in)
      BY SMT, <1>2, <2>2
    <3>2. B2 = [B EXCEPT ![p] = [b EXCEPT !.read_waiting = <<>>, !.readers = n]]
      BY <1>1, <3>1 DEF Buffer
    <3> HIDE DEF B2
    <3>3. QED
      BY <1>2, EmptyElems, <1>1, <3>1, <3>2 DEF Buffer
  <2> HIDE DEF q, B2
  <2>5. /\ Elems(b.write_waiting) = Elems(b.write_waiting) \ (in \cup no)
        /\ Elems(<<>>) = Elems(q) \ (in \cup no)
    BY <2>3, <1>4, EmptyElems
  <2>6. /\ Wakes(B, I, B2, J, p, in, no)
        /\ \A c \in in : IsWriter(J[c], p) <=> ~IsRead(I[c])
    <3>1. Shortens(B, B2, p, in \cup no)
      BY <1>3, <2>4, <2>5, EmptyElems DEF Shortens, q
    <3>2. QED
      BY <2>3, <1>1, <3>1, WokenWakes DEF Judged
  <2> HIDE DEF J
  <2>7. Counts(B2, J, p)
    BY <1>1, <2>3, <2>4, <2>6, ReadersJoin DEF Open, b
  <2>8. Adds(I, J, p, in, no)
    BY <1>1, <2>6, WakesMembers
  <2>9. /\ \A c \in Cursor : Waits(J[c], p) <=> (Waits(I[c], p) /\ c \notin in \cup no)
        /\ \A c \in Cursor : IsIn(J[c], p) <=> (IsIn(I[c], p) \/ c \in in)
    BY <2>8 DEF Adds
  <2>10. b.write_waiting = <<>> => \A c \in Cursor : ~Waits(J[c], p)
    BY <2>3, <2>9, <1>4, EmptyElems
  <2>11. Readers(I, p) # {} => \E c \in Cursor : IsIn(J[c], p)
    BY <2>9 DEF Readers
  <2>12. CASE B[p].state # "deleted" /\ Expected(I, p)
    <3>1. Good(B2, J)
      BY <2>6, <2>7, <2>10, <2>11, <2>12, WakesGood DEF Open, b
    <3>2. QED
      BY SMT, <2>1, <3>1
  <2>13. CASE NoneFits(I, p) /\ Readers(I, p) = {}
    <3>1. Good(B2, J)
      BY <2>13, <2>3, <2>6, <2>7, <2>10, WakesGood DEF Open, NoneFits, Readers, Writers
    <3>2. QED
      BY SMT, <2>1, <3>1
  <2>14. QED
    BY <2>12, <2>13 DEF Open
<1>7. QED
  BY <1>5, <1>6

\* Nobody is inside p, and page_release_writes may start.
Vacant(B, I, p) ==
    /\ Others(B, I, p) /\ B[p].state # "absent"
    /\ ~B[p].is_write /\ B[p].readers = 0 /\ \A c \in Cursor : ~IsIn(I[c], p)
    /\ (B[p].state # "deleted" /\ Expected(I, p)) \/ NoneFits(I, p)

LEMMA NobodyIn ==
  ASSUME NEW I, NEW p, \A c \in Cursor : ~IsIn(I[c], p)
  PROVE  Readers(I, p) = {} /\ Writers(I, p) = {} /\ Cardinality(Readers(I, p)) = 0 /\ Returned(I, p)
BY FS_EmptySet DEF Readers, Writers, Returned

LEMMA ReleaseWaitingGood ==
  ASSUME NEW B, NEW I, NEW p \in Page, Vacant(B, I, p)
  PROVE  LET r == ReleaseWaiting(B, I, p) IN Good(r.bd, r.itc)
<1> DEFINE b == B[p]
           q == b.write_waiting
           k == FirstFit(I, q)
           in == {q[j] : j \in {k} \cap DOMAIN q}
           out == {q[j] : j \in 1 .. k - 1}
           J == Woken(I, p, in, out)
<1>1. Sound(B, I) /\ B \in [Page -> Buffer] /\ I \in [Cursor -> Itc]
  BY DEF Vacant, Others, Sound, Types
<1>2. b \in Buffer /\ q \in Seq(Cursor) /\ b.read_waiting \in Seq(Cursor) /\ b.readers \in Nat
  BY <1>1 DEF Buffer
<1>3. QueuesFit(B, I, p) /\ Once(q) /\ Once(b.read_waiting)
  BY <1>1 DEF Sound, QueuesFit
<1>4. /\ \A c \in Elems(q) : c \in Cursor /\ Waits(I[c], p) /\ ~IsRead(I[c])
      /\ \A c \in Elems(b.read_waiting) : c \in Cursor /\ Waits(I[c], p) /\ IsRead(I[c])
  BY <1>3 DEF QueuesFit
<1>5. /\ out \subseteq Elems(q) /\ \A c \in out : ~Fits(I[c])
      /\ k <= Len(q) => k \in 1 .. Len(q) /\ q[k] \in Elems(q) /\ Fits(I[q[k]]) /\ q[k] \notin out
      /\ ~(k <= Len(q)) => out = Elems(q) /\ {k} \cap DOMAIN q = {}
  BY <1>2, <1>3, Scanned
<1>6. Readers(I, p) = {} /\ Writers(I, p) = {} /\ Cardinality(Readers(I, p)) = 0 /\ Returned(I, p)
  BY NobodyIn DEF Vacant
<1>7. CASE k <= Len(q)
  <2> DEFINE w == q[k]
             B2 == [B EXCEPT ![p].write_waiting = SubSeq(q, k + 1, Len(q)), ![p].is_write = TRUE]
  <2>1. ReleaseWaiting(B, I, p) = [bd |-> B2, itc |-> J]
    BY <1>7 DEF ReleaseWaiting
  <2>2. in = {w}
    <3>1. DOMAIN q = 1 .. Len(q) /\ k \in 1 .. Len(q)
      BY SMT, <1>2, <1>5, <1>7
    <3> HIDE DEF k, q
    <3>2. QED
      BY <3>1
  <2>3. /\ SubSeq(q, k + 1, Len(q)) \in Seq(Cursor) /\ Once(SubSeq(q, k + 1, Len(q)))
        /\ Elems(SubSeq(q, k + 1, Len(q))) = Elems(q) \ ({w} \cup out)
    <3> HIDE DEF q
    <3> QED
      BY <1>2, <1>3, <1>5, <1>7, TailElems
  <2> HIDE DEF k, w, out
  <2>4. /\ B2 \in [Page -> Buffer] /\ \A r \in Page \ {p} : B2[r] = B[r]
        /\ B2[p].state = b.state /\ B2[p].read_waiting = b.read_waiting
        /\ B2[p].write_waiting = SubSeq(q, k + 1, Len(q)) /\ B2[p].is_write /\ B2[p].readers = 0
    BY <1>2, <2>3, <1>1 DEF Buffer, Vacant
  <2>5. /\ w \in Elems(q) /\ Fits(I[w]) /\ w \in Cursor /\ Waits(I[w], p) /\ ~IsRead(I[w])
        /\ \A c \in out : c \in Cursor /\ Waits(I[c], p) /\ ~Fits(I[c])
    BY <1>4, <1>5, <1>7 DEF w
  <2>6. Elems(b.read_waiting) = Elems(b.read_waiting) \ ({w} \cup out)
    BY <1>4, <1>5, <2>5
  <2> HIDE DEF q, B2
  <2>7. Judged(I, p, {w}, out)
    BY <2>5 DEF Judged
  <2>8. Shortens(B, B2, p, {w} \cup out)
    BY <1>3, <2>3, <2>4, <2>6 DEF Shortens, q
  <2>9. /\ Wakes(B, I, B2, J, p, {w}, out)
        /\ IsWriter(J[w], p)
    <3>1. J = Woken(I, p, {w}, out)
      BY <2>2
    <3> HIDE DEF J, in
    <3>2. QED
      BY <1>1, <2>7, <2>8, <3>1, WokenWakes, <2>5
  <2> HIDE DEF J, in
  <2>10. Good(B2, J)
    BY <2>5, <1>1, <1>6, <2>4, <2>9, WriterJoins, WakesGood DEF Vacant, NoneFits
  <2>11. QED
    BY SMT, <2>1, <2>10
<1>8. CASE ~(k <= Len(q))
  <2> DEFINE B2 == [B EXCEPT ![p].write_waiting = <<>>]
  <2>1. ReleaseWaiting(B, I, p) = page_release_read(B2, J, p)
    BY <1>8 DEF ReleaseWaiting
  <2>2. in = {}
    <3> HIDE DEF k, q
    <3>1. QED
      BY <1>5, <1>8
  <2> HIDE DEF k, out, in
  <2>3. /\ B2 \in [Page -> Buffer] /\ \A r \in Page \ {p} : B2[r] = B[r]
        /\ B2[p].state = b.state /\ B2[p].read_waiting = b.read_waiting
        /\ B2[p].write_waiting = <<>> /\ B2[p].is_write = b.is_write /\ B2[p].readers = b.readers
    BY <1>2, EmptyElems, <1>1 DEF Buffer
  <2> HIDE DEF q, B2
  <2>4. Judged(I, p, {}, out)
    BY <1>4, <1>5 DEF Judged
  <2>5. Shortens(B, B2, p, {} \cup out)
    BY <1>5, <1>8, <1>4, EmptyElems, <1>3, <2>3 DEF Shortens, q
  <2>6. Wakes(B, I, B2, J, p, {}, out)
    <3>1. J = Woken(I, p, {}, out)
      BY <2>2
    <3> HIDE DEF J
    <3>2. QED
      BY <1>1, <2>4, <2>5, <3>1, WokenWakes
  <2> HIDE DEF J
  <2>7. Adds(I, J, p, {}, out)
    BY <1>1, <2>6, WakesMembers
  <2>8. \A c \in Cursor : Waits(J[c], p) => Waits(I[c], p) /\ J[c] = I[c]
    BY <2>6, <2>7 DEF Adds, Wakes
  <2>9. Readers(J, p) = {} /\ Writers(J, p) = {} /\ Cardinality(Readers(J, p)) = 0 /\ Returned(J, p)
    BY <2>7, NobodyIn DEF Adds, Vacant
  <2>10. Open(B2, J, p)
    BY <2>8, <2>3, <1>1, <2>6, WakesSound, WakesCounted, <2>9 DEF Open, Vacant, Others, Expected, NoneFits
  <2>11. QED
    BY <2>1, <2>10, page_release_readGood
<1>9. QED
  BY <1>7, <1>8

\* The counts of p have one more than there is inside, which leaves it.
Held(B, I, p) ==
    /\ Others(B, I, p) /\ Returned(I, p) /\ B[p].state # "absent"
    /\ \/ /\ ~B[p].is_write /\ Writers(I, p) = {} /\ B[p].readers = Cardinality(Readers(I, p)) + 1
          /\ B[p].state # "deleted" /\ Expected(I, p)
       \/ /\ B[p].is_write /\ B[p].readers = 0 /\ \A c \in Cursor : ~IsIn(I[c], p)
          /\ (B[p].state # "deleted" /\ Expected(I, p)) \/ NoneFits(I, p)

Recounted(B, p, n, w) == [B EXCEPT ![p].readers = n, ![p].is_write = w]

Recounts(B, I, B2, p, n, w) ==
    /\ Others(B2, I, p) /\ Wakes(B, I, B2, I, p, {}, {})
    /\ B2[p].readers = n /\ B2[p].is_write = w /\ B2[p].state = B[p].state

LEMMA CountsChange ==
  ASSUME NEW B, NEW I, NEW p \in Page, Others(B, I, p), B[p].state # "absent", NEW n \in Nat, NEW w \in BOOLEAN
  PROVE  Recounts(B, I, Recounted(B, p, n, w), p, n, w)
<1> DEFINE B2 == Recounted(B, p, n, w)
<1>1. Sound(B, I) /\ B \in [Page -> Buffer] /\ I \in [Cursor -> Itc] /\ QueuesFit(B, I, p)
  BY DEF Others, Sound, Types
<1>2. /\ B2 \in [Page -> Buffer] /\ \A r \in Page \ {p} : B2[r] = B[r]
      /\ B2[p].state = B[p].state /\ B2[p].read_waiting = B[p].read_waiting
      /\ B2[p].write_waiting = B[p].write_waiting /\ B2[p].is_write = w /\ B2[p].readers = n
  BY <1>1 DEF Buffer, Recounted
<1> HIDE DEF B2
<1>3. Wakes(B, I, B2, I, p, {}, {})
  BY <1>1, <1>2 DEF Wakes, Shortens, QueuesFit
<1>4. Recounts(B, I, B2, p, n, w)
  BY <1>3, WakesCounted, <1>1, WakesSound, <1>2 DEF Others, Recounts
<1>5. QED
  BY <1>4 DEF B2

LEMMA page_leave_innerGood ==
  ASSUME NEW B, NEW I, NEW p \in Page, Held(B, I, p)
  PROVE  LET r == page_leave_inner(B, I, p) IN Good(r.bd, r.itc)
<1>1. Others(B, I, p) /\ B[p].state # "absent" /\ B \in [Page -> Buffer]
  BY DEF Held, Others, Sound, Types
<1>2. B[p] \in Buffer /\ B[p].readers \in Nat /\ B[p].is_write \in BOOLEAN
  BY <1>1 DEF Buffer
<1>3. Cardinality(Readers(I, p)) \in Nat /\ (Cardinality(Readers(I, p)) = 0 <=> Readers(I, p) = {})
  BY MembersFinite
<1>4. CASE B[p].readers > 1
  <2> DEFINE B2 == [B EXCEPT ![p].readers = @ - 1]
  <2>1. page_leave_inner(B, I, p) = [bd |-> B2, itc |-> I]
    BY <1>4 DEF page_leave_inner
  <2>2. /\ ~B[p].is_write /\ Writers(I, p) = {} /\ B[p].readers = Cardinality(Readers(I, p)) + 1
        /\ B[p].state # "deleted" /\ Expected(I, p)
    BY SMT, <1>4 DEF Held
  <2>3. PICK n \in Nat : n = B[p].readers - 1 /\ n = Cardinality(Readers(I, p)) /\ n # 0
    BY SMT, <1>2, <1>3, <1>4, <2>2
  <2>4. B2 = Recounted(B, p, n, FALSE)
    BY <1>1, <1>2, <2>2, <2>3 DEF Buffer, Recounted
  <2> HIDE DEF B2
  <2>5. /\ Others(B2, I, p) /\ Wakes(B, I, B2, I, p, {}, {})
        /\ B2[p].readers = n /\ B2[p].is_write = FALSE /\ B2[p].state = B[p].state
    <3>1. Recounts(B, I, B2, p, n, FALSE)
      BY <1>1, <2>4, CountsChange
    <3>2. QED
      BY <3>1 DEF Recounts
  <2>6. Good(B2, I)
    BY <1>3, <2>3, <2>2, <2>5, <1>1, WakesGood DEF Held, Counts, Readers
  <2>7. QED
    BY SMT, <2>1, <2>6
<1>5. CASE ~(B[p].readers > 1)
  <2> DEFINE B2 == [B EXCEPT ![p].readers = 0, ![p].is_write = FALSE]
  <2>1. page_leave_inner(B, I, p) = ReleaseWaiting(B2, I, p)
    BY <1>5 DEF page_leave_inner
  <2>2. B2 = Recounted(B, p, 0, FALSE)
    BY DEF Recounted
  <2> HIDE DEF B2
  <2>3. /\ Others(B2, I, p)
        /\ B2[p].readers = 0 /\ B2[p].is_write = FALSE /\ B2[p].state = B[p].state
    <3>1. Recounts(B, I, B2, p, 0, FALSE)
      BY <1>1, <2>2, CountsChange
    <3>2. QED
      BY <3>1 DEF Recounts
  <2>4. \A c \in Cursor : ~IsIn(I[c], p)
    <3>1. CASE B[p].readers = Cardinality(Readers(I, p)) + 1 /\ Writers(I, p) = {}
      <4>1. Cardinality(Readers(I, p)) = 0
        BY SMT, <1>3, <1>5, <3>1
      <4>2. QED
        BY <4>1, <3>1, <1>3 DEF Readers, Writers
    <3>2. QED
      BY <3>1 DEF Held
  <2>5. QED
    BY <1>1, <2>3, <2>4, <2>1, ReleaseWaitingGood DEF Vacant, Held
<1>6. QED
  BY <1>4, <1>5

-----------------------------------------------------------------------------
(* page_mark_change *)

Marks(i, change) == [i EXCEPT !.to_reset = Max(@, change), !.changed = Max(@, change)]
Marked(i, p, change) == IF Waits(i, p) THEN Marks(i, change) ELSE i

LEMMA MarkIs ==
  ASSUME NEW B, NEW I, NEW p \in Page, Sound(B, I), NEW change, NEW c \in Cursor
  PROVE  page_mark_change(B, I, p, change)[c] = Marked(I[c], p, change)
<1>1. c \in Queued(B[p]) <=> Waits(I[c], p)
  BY ZenonT(60) DEF Sound, QueuesFit, Queued
<1>2. I[c] \in Itc
  BY DEF Sound, Types
<1>3. CASE Waits(I[c], p)
  BY <1>1, <1>3, <1>2 DEF page_mark_change, Waits, Marks, Marked, Itc
<1>4. CASE ~Waits(I[c], p)
  BY <1>1, <1>4 DEF Waits, page_mark_change, Marked
<1>5. QED
  BY <1>3, <1>4

LEMMA MarkedFits ==
  ASSUME NEW i \in Itc, Place(i), NEW p \in Page, Waits(i, p), NEW change \in 1 .. 9
  PROVE  LET j == Marks(i, change)
         IN /\ j \in Itc /\ Place(j) /\ j.reg = i.reg /\ j.page = i.page /\ j.fn = i.fn /\ j.pc = "wait" /\ j.to = p
            /\ IsRead(j) <=> IsRead(i)
            /\ \A q : (IsIn(j, q) <=> IsIn(i, q)) /\ (IsWriter(j, q) <=> IsWriter(i, q))
            /\ i.to_reset <= j.to_reset /\ change <= j.to_reset
<1> DEFINE j == Marks(i, change)
<1>1. /\ i.to_reset \in 0 .. 9 /\ i.changed \in 0 .. 9
      /\ i.pc = "wait" /\ i.to = p /\ CallFits(i) /\ WaitFits(i)
  BY DEF Itc, Waits, Place
<1>2. PICK r \in 0 .. 9 : r = Max(i.to_reset, change) /\ i.to_reset <= r /\ change <= r
  BY SMT, <1>1 DEF Max
<1>3. PICK s \in 0 .. 9 : s = Max(i.changed, change) /\ s <= r /\ 1 <= s
  BY SMT, <1>1, <1>2 DEF Max, WaitFits
<1>4. j = [i EXCEPT !.to_reset = r, !.changed = s]
  BY <1>2, <1>3 DEF Marks
<1> HIDE DEF j
<1>5. /\ j \in Itc /\ j.pc = "wait" /\ j.entered = i.entered /\ j.fn = i.fn /\ j.to = i.to /\ j.from = i.from
      /\ j.dive = i.dive /\ j.landed = i.landed /\ j.reg = i.reg /\ j.page = i.page /\ j.holds = i.holds
      /\ j.to_reset = r /\ j.changed = s
  BY <1>1, <1>4 DEF Itc, Places
<1>6. CallFits(j)
  BY SMT, <1>1, <1>5 DEF CallFits, Calling, WantsRead
<1>7. QED
  BY <1>1, <1>2, <1>3, <1>5, <1>6 DEF j, IsIn, IsWriter, WantsRead, IsRead, Place, WaitFits, NO_WAIT

\* After page_mark_change, K.
LEMMA MarkKeeps ==
  ASSUME NEW B, NEW I, NEW p \in Page, Sound(B, I), NEW change \in 1 .. 9, NEW K, K = page_mark_change(B, I, p, change)
  PROVE  /\ Sound(B, K)
         /\ \A q \in Page, c \in Cursor : Alike(I[c], K[c], q)
         /\ \A c \in Cursor : K[c].fn = I[c].fn /\ K[c].page = I[c].page
         /\ NoneFits(I, p) \/ change = 9 => NoneFits(K, p)
<1>1. \A c \in Cursor : I[c] \in Itc /\ Place(I[c])
  BY DEF Sound, Types
<1>2. \A c \in Cursor : K[c] = IF Waits(I[c], p) THEN Marks(I[c], change) ELSE I[c]
  <2> TAKE c \in Cursor
  <2>1. page_mark_change(B, I, p, change)[c] = Marked(I[c], p, change)
    BY SMT, MarkIs
  <2>2. QED
    BY <2>1 DEF Marked
<1>3. ASSUME NEW c \in Cursor
      PROVE  /\ K[c] \in Itc /\ Place(K[c]) /\ K[c].reg = I[c].reg /\ K[c].page = I[c].page /\ K[c].fn = I[c].fn
             /\ K[c].pc = I[c].pc /\ K[c].to = I[c].to
             /\ IsRead(K[c]) <=> IsRead(I[c])
             /\ \A q : (IsIn(K[c], q) <=> IsIn(I[c], q)) /\ (IsWriter(K[c], q) <=> IsWriter(I[c], q))
             /\ Waits(I[c], p) => I[c].to_reset <= K[c].to_reset /\ change <= K[c].to_reset
  <2>1. CASE Waits(I[c], p)
    <3>1. K[c] = Marks(I[c], change) /\ I[c].pc = "wait" /\ I[c].to = p
      BY <2>1, <1>2 DEF Waits
    <3>2. QED
      BY SMTT(30), <3>1, <2>1, <1>1, MarkedFits
  <2>2. CASE ~Waits(I[c], p)
    BY <2>2, <1>2, <1>1
  <2>3. QED
    BY <2>1, <2>2
<1>4. \A c \in Cursor, q \in Page : Waits(K[c], q) <=> Waits(I[c], q)
  BY <1>3 DEF Waits
<1>5. \A q \in Page : QueuesFit(B, K, q)
  <2> TAKE q \in Page
  <2>1. /\ {c \in Cursor : Waits(K[c], q) /\ ~IsRead(K[c])} = {c \in Cursor : Waits(I[c], q) /\ ~IsRead(I[c])}
        /\ {c \in Cursor : Waits(K[c], q) /\ IsRead(K[c])} = {c \in Cursor : Waits(I[c], q) /\ IsRead(I[c])}
    BY <1>3, <1>4
  <2>2. QED
    BY <2>1 DEF QueuesFit, Sound
<1>6. \A c \in Cursor : Target(K[c]) = Target(I[c])
  BY <1>3 DEF Target
<1>7. /\ \A q \in Page : B[q].state = "decoy" => \E c \in Cursor : I[c].pc = "read" /\ I[c].to = q
      /\ \A c \in Cursor : I[c].reg => B[I[c].page].state # "deleted"
      /\ \A c \in Cursor : I[c].pc = "call" => B[Target(I[c])].state # "deleted"
      /\ \A c, d \in Cursor : I[d].pc = "free" /\ I[c].reg => I[c].page # I[d].page
  BY DEF Sound
<1>8. \A c \in Cursor : /\ K[c].reg = I[c].reg /\ K[c].page = I[c].page
                        /\ K[c].pc = I[c].pc /\ K[c].to = I[c].to
  BY <1>3
<1>9. \A c \in Cursor : K[c].reg => B[K[c].page].state # "deleted"
  BY ONLY SMT, <1>7, <1>8
<1>10. \A c \in Cursor : K[c].pc = "call" => B[Target(K[c])].state # "deleted"
  BY ONLY SMT, <1>6, <1>7, <1>8
<1>11. \A c, d \in Cursor : K[d].pc = "free" /\ K[c].reg => K[c].page # K[d].page
  BY ONLY SMT, <1>7, <1>8
<1>12. \A q \in Page : B[q].state = "decoy" => \E c \in Cursor : K[c].pc = "read" /\ K[c].to = q
  BY ONLY SMT, <1>7, <1>8
<1>13. Sound(B, K)
  BY <1>3, <1>5, <1>9, <1>10, <1>11, <1>12 DEF Sound, Types, page_mark_change
<1>14. \A q \in Page, c \in Cursor : Alike(I[c], K[c], q)
  BY <1>3, <1>4 DEF Alike
<1>15. NoneFits(I, p) \/ change = 9 => NoneFits(K, p)
  <2> SUFFICES ASSUME NoneFits(I, p) \/ change = 9, NEW c \in Cursor, Waits(K[c], p)
               PROVE  ~Fits(K[c])
    BY DEF NoneFits
  <2>1. Waits(I[c], p) /\ K[c].fn = I[c].fn /\ I[c].to_reset <= K[c].to_reset /\ change <= K[c].to_reset
    BY <1>3, <1>4
  <2>2. I[c].to_reset \in 0 .. 9 /\ K[c].to_reset \in 0 .. 9 /\ I[c].fn \in Call
    BY <1>1, <1>3, <2>1 DEF Itc, Waits, Place, CallFits, Call
  <2>3. MaxChange(I[c].fn) \in 0 .. 8
    BY SMT, <2>2 DEF MaxChange, Call, NO_ENTRY_IF_WAIT, NO_WAIT, WAIT_KEY, WAIT_DATA, WAIT_ANY
  <2>4. CASE NoneFits(I, p)
    <3>1. ~(I[c].to_reset <= MaxChange(I[c].fn))
      BY <2>1, <2>4 DEF NoneFits, Fits
    <3>2. QED
      BY SMT, <3>1, <2>1, <2>2, <2>3 DEF Fits
  <2>5. CASE change = 9
    BY SMT, <2>1, <2>2, <2>3, <2>5 DEF Fits
  <2>6. QED
    BY <2>4, <2>5
<1>16. QED
  BY <1>3, <1>13, <1>14, <1>15

LEMMA MarkGood ==
  ASSUME NEW B, NEW I, NEW p \in Page, Good(B, I), NEW change \in 1 .. 9
  PROVE  Good(B, page_mark_change(B, I, p, change))
<1> DEFINE K == page_mark_change(B, I, p, change)
<1>1. Sound(B, K) /\ \A q \in Page, c \in Cursor : Alike(I[c], K[c], q)
  BY MarkKeeps DEF Good
<1> HIDE DEF K
<1>2. QED
  BY <1>1, AlikeCounted DEF Good, K

\* The waiters of a page that is left need not be ready for that until they have been marked.
LeftBy(B, I, p) ==
    /\ Others(B, I, p) /\ Returned(I, p) /\ B[p].state # "absent"
    /\ \/ /\ ~B[p].is_write /\ Writers(I, p) = {} /\ B[p].readers = Cardinality(Readers(I, p)) + 1
          /\ B[p].state # "deleted" /\ Expected(I, p)
       \/ B[p].is_write /\ B[p].readers = 0 /\ \A c \in Cursor : ~IsIn(I[c], p)

LEMMA MarkHeld ==
  ASSUME NEW B, NEW I, NEW p \in Page, NEW change \in 1 .. 9, LeftBy(B, I, p),
         (B[p].state # "deleted" /\ Expected(I, p)) \/ change = 9
  PROVE  Held(B, page_mark_change(B, I, p, change), p)
<1> DEFINE K == page_mark_change(B, I, p, change)
<1>1. Sound(B, I)
  BY DEF LeftBy, Others
<1>2. /\ Sound(B, K)
      /\ \A q \in Page, c \in Cursor : Alike(I[c], K[c], q)
      /\ \A c \in Cursor : K[c].fn = I[c].fn /\ K[c].page = I[c].page
      /\ NoneFits(I, p) \/ change = 9 => NoneFits(K, p)
  BY <1>1, MarkKeeps
<1> HIDE DEF K
<1>3. \A c \in Cursor : /\ IsIn(K[c], p) <=> IsIn(I[c], p)
                        /\ IsIn(I[c], p) => (IsWriter(K[c], p) <=> IsWriter(I[c], p))
                        /\ Waits(K[c], p) <=> Waits(I[c], p)
  BY <1>2 DEF Alike
<1>4. Others(B, K, p)
  BY <1>2, AlikeCounted DEF Others, LeftBy
<1>5. Held(B, K, p)
  BY <1>2, <1>3, <1>4 DEF Held, LeftBy, Readers, Writers, Returned, Expected
<1>6. QED
  BY <1>5 DEF K

-----------------------------------------------------------------------------
(* A step of cursor c alone, which becomes j, while the buffer of page p becomes b *)

\* What keeps the state sound.
Turns(B, I, c, j, p, b) ==
    /\ j \in Itc /\ Place(j) /\ b \in Buffer /\ I[c].pc # "wait" /\ j.pc # "free"
    /\ \A q \in Page \ {p} : ~Waits(j, q)
    /\ Once(b.write_waiting) /\ Once(b.read_waiting)
    /\ Elems(b.write_waiting) = Elems(B[p].write_waiting) \cup (IF Waits(j, p) /\ ~IsRead(j) THEN {c} ELSE {})
    /\ Elems(b.read_waiting) = Elems(B[p].read_waiting) \cup (IF Waits(j, p) /\ IsRead(j) THEN {c} ELSE {})
    /\ I[c].pc = "read" => I[c].to = p
    /\ b.state = "decoy" => (B[p].state = "decoy" /\ I[c].pc # "read") \/ (j.pc = "read" /\ j.to = p)
    /\ b.state = "absent" => b = Absent
    /\ b.state = "deleted" => B[p].state = "deleted"
    /\ j.reg => B[j.page].state # "deleted" /\ \A d \in Cursor : I[d].pc = "free" => I[d].page # j.page
    /\ j.pc = "call" => B[Target(j)].state # "deleted"

LEMMA TurnsSound ==
  ASSUME NEW B, NEW I, Sound(B, I), NEW c \in Cursor, NEW j, NEW p \in Page, NEW b, Turns(B, I, c, j, p, b),
         NEW B2, B2 = [B EXCEPT ![p] = b], NEW J, J = [I EXCEPT ![c] = j]
  PROVE  Sound(B2, J)
<1>1. B \in [Page -> Buffer] /\ I \in [Cursor -> Itc] /\ j \in Itc /\ b \in Buffer
  BY DEF Sound, Types, Turns
<1>2. J[c] = j /\ \A d \in Cursor : d # c => J[d] = I[d]
  BY <1>1
<1>3. B2[p] = b /\ \A q \in Page : q # p => B2[q] = B[q]
  BY <1>1
<1>4. Types(B2, J)
  BY <1>1 DEF Types
<1>5. \A d \in Cursor : Place(J[d])
  BY SMT, <1>2 DEF Sound, Turns
<1>6. \A q \in Page : QueuesFit(B2, J, q)
  <2> TAKE q \in Page
  <2>1. QueuesFit(B, I, q)
    BY DEF Sound
  <2>2. ~Waits(I[c], q)
    BY DEF Turns, Waits
  <2>3. CASE q # p
    <3>1. \A d \in Cursor : /\ Waits(J[d], q) <=> Waits(I[d], q)
                            /\ Waits(J[d], q) => J[d] = I[d]
      BY <1>2, <2>2, <2>3 DEF Turns
    <3>2. QED
      BY <3>1, <1>3, <2>1, <2>3 DEF QueuesFit
  <2>4. CASE q = p
    <3>1. {d \in Cursor : Waits(J[d], p) /\ ~IsRead(J[d])}
            = {d \in Cursor : Waits(I[d], p) /\ ~IsRead(I[d])} \cup (IF Waits(j, p) /\ ~IsRead(j) THEN {c} ELSE {})
      BY <1>2, <2>2, <2>4
    <3>2. {d \in Cursor : Waits(J[d], p) /\ IsRead(J[d])}
            = {d \in Cursor : Waits(I[d], p) /\ IsRead(I[d])} \cup (IF Waits(j, p) /\ IsRead(j) THEN {c} ELSE {})
      BY <1>2, <2>2, <2>4
    <3>3. /\ Elems(B[p].write_waiting) = {d \in Cursor : Waits(I[d], p) /\ ~IsRead(I[d])}
          /\ Elems(B[p].read_waiting) = {d \in Cursor : Waits(I[d], p) /\ IsRead(I[d])}
      BY <2>1, <2>4 DEF QueuesFit
    <3>4. Elems(b.write_waiting) = {d \in Cursor : Waits(J[d], p) /\ ~IsRead(J[d])}
      BY <3>1, <3>3 DEF Turns
    <3>5. Elems(b.read_waiting) = {d \in Cursor : Waits(J[d], p) /\ IsRead(J[d])}
      BY <3>2, <3>3 DEF Turns
    <3>6. Once(b.write_waiting) /\ Once(b.read_waiting)
      BY DEF Turns
    <3>7. QED
      BY ZenonT(60), <1>3, <2>4, <3>4, <3>5, <3>6 DEF QueuesFit
  <2>5. QED
    BY <2>3, <2>4
<1>7. \A q \in Page : B2[q].state = "deleted" => B[q].state = "deleted"
  BY <1>3 DEF Turns
<1>8. \A q \in Page : B2[q].state = "decoy" => \E d \in Cursor : J[d].pc = "read" /\ J[d].to = q
  <2> SUFFICES ASSUME NEW q \in Page, B2[q].state = "decoy"
               PROVE  \E d \in Cursor : J[d].pc = "read" /\ J[d].to = q
    OBVIOUS
  <2>1. CASE q = p /\ j.pc = "read" /\ j.to = p
    BY <2>1, <1>2
  <2>2. CASE B[q].state = "decoy" /\ (I[c].pc = "read" => I[c].to # q)
    <3>1. PICK d \in Cursor : I[d].pc = "read" /\ I[d].to = q
      BY <2>2 DEF Sound
    <3>2. QED
      BY <2>2, <3>1, <1>2
  <2>3. CASE q = p
    BY <2>1, <2>2, <2>3, <1>3 DEF Turns
  <2>4. CASE q # p
    BY <2>2, <2>4, <1>3 DEF Turns
  <2>5. QED
    BY <2>3, <2>4
<1>9. \A q \in Page : B2[q].state = "absent" => B2[q] = Absent
  BY SMT, <1>3 DEF Sound, Turns
<1>10. \A q \in Page : B2[q].state = "deleted" => q \in Leaf
  BY <1>7 DEF Sound
<1>11. \A d \in Cursor : J[d].reg => B2[J[d].page].state # "deleted"
  <2> SUFFICES ASSUME NEW d \in Cursor, J[d].reg
               PROVE  B2[J[d].page].state # "deleted"
    OBVIOUS
  <2>1. B[J[d].page].state # "deleted"
    BY SMT, <1>2 DEF Sound, Turns
  <2>2. QED
    BY <1>4, <1>5, RegisteredOnPage, <2>1, <1>7 DEF Types
<1>12. \A d \in Cursor : J[d].pc = "call" => B2[Target(J[d])].state # "deleted"
  <2> SUFFICES ASSUME NEW d \in Cursor, J[d].pc = "call"
               PROVE  B2[Target(J[d])].state # "deleted"
    OBVIOUS
  <2>1. B[Target(J[d])].state # "deleted"
    BY SMT, <1>2 DEF Sound, Turns
  <2>2. QED
    BY <1>4, <1>5, TargetIsPage, <2>1, <1>7 DEF Types
<1>13. \A d, e \in Cursor : J[e].pc = "free" /\ J[d].reg => J[d].page # J[e].page
  <2> SUFFICES ASSUME NEW d \in Cursor, NEW e \in Cursor, J[e].pc = "free", J[d].reg
               PROVE  J[d].page # J[e].page
    OBVIOUS
  <2>1. e # c /\ J[e] = I[e]
    BY <1>2 DEF Turns
  <2>2. CASE d = c
    BY SMT, <2>1, <2>2, <1>2 DEF Turns
  <2>3. CASE d # c
    BY SMT, <2>1, <2>3, <1>2 DEF Sound
  <2>4. QED
    BY <2>2, <2>3
<1>14. QED
  BY <1>4, <1>5, <1>6, <1>8, <1>9, <1>10, <1>11, <1>12, <1>13 DEF Sound

\* The counts of page q before and after, when cursor c becomes j.
LEMMA TurnAlike ==
  ASSUME NEW B, NEW I \in [Cursor -> Itc], NEW B2, NEW c \in Cursor, NEW j, NEW q \in Page,
         Counted(B, I, q), Alike(I[c], j, q),
         B2[q].readers = B[q].readers, B2[q].is_write = B[q].is_write,
         B2[q].state = "deleted" => B[q].state = "deleted"
  PROVE  Counted(B2, [I EXCEPT ![c] = j], q)
<1> DEFINE J == [I EXCEPT ![c] = j]
<1>1. J[c] = j /\ \A d \in Cursor : d # c => J[d] = I[d]
  OBVIOUS
<1> HIDE DEF J
<1>2. \A d \in Cursor : Alike(I[d], J[d], q)
  <2> TAKE d \in Cursor
  <2>1. CASE d = c
    BY <1>1, <2>1
  <2>2. CASE d # c
    BY <1>1, <2>2 DEF Alike
  <2>3. QED
    BY <2>1, <2>2
<1>3. QED
  BY <1>2, AlikeCounted DEF J

\* c enters p, or its access to p becomes write access.
Joins(b, i, b2, j, p) ==
    /\ IsIn(j, p) /\ ~b.is_write
    /\ \/ ~IsIn(i, p) /\ ~IsWriter(j, p) /\ ~b2.is_write /\ b2.readers = b.readers + 1
       \/ ~IsIn(i, p) /\ IsWriter(j, p) /\ b.readers = 0 /\ b2.is_write /\ b2.readers = 0
       \/ IsIn(i, p) /\ IsWriter(j, p) /\ b.readers = 1 /\ b2.is_write /\ b2.readers = 0

LEMMA JoinsCounts ==
  ASSUME NEW B, NEW I \in [Cursor -> Itc], NEW B2, NEW c \in Cursor, NEW j, NEW p \in Page,
         Counts(B, I, p), Joins(B[p], I[c], B2[p], j, p)
  PROVE  Counts(B2, [I EXCEPT ![c] = j], p)
<1> DEFINE J == [I EXCEPT ![c] = j]
<1>1. J[c] = j /\ \A d \in Cursor : d # c => J[d] = I[d]
  OBVIOUS
<1> HIDE DEF J
<1>2. /\ Writers(I, p) = {} /\ B[p].readers = Cardinality(Readers(I, p))
      /\ IsFiniteSet(Readers(I, p)) /\ Cardinality(Readers(I, p)) \in Nat
  BY MembersFinite DEF Counts, Joins
<1>3. CASE ~IsIn(I[c], p) /\ ~IsWriter(j, p) /\ ~B2[p].is_write /\ B2[p].readers = B[p].readers + 1
  <2>1. Readers(J, p) = Readers(I, p) \cup {c} /\ Writers(J, p) = {} /\ c \notin Readers(I, p)
    BY <1>1, <1>2, <1>3 DEF Readers, Writers, Joins
  <2>2. Cardinality(Readers(J, p)) = Cardinality(Readers(I, p)) + 1
    BY <2>1, <1>2, FS_AddElement
  <2>3. QED
    BY <2>1, <2>2, <1>2, <1>3 DEF J, Counts
<1>4. CASE IsWriter(j, p) /\ B2[p].is_write /\ B2[p].readers = 0 /\ Readers(I, p) \subseteq {c}
  <2>1. Cardinality({}) = 0
    BY FS_EmptySet
  <2>2. Counts(B2, J, p)
    BY <1>1, <1>2, <1>4, <2>1 DEF Counts, Readers, Writers, Joins
  <2>3. QED
    BY <2>2 DEF J
<1>5. CASE ~IsIn(I[c], p) /\ IsWriter(j, p) /\ B[p].readers = 0 /\ B2[p].is_write /\ B2[p].readers = 0
  BY <1>2, <1>5, MembersFinite, <1>4
<1>6. CASE IsIn(I[c], p) /\ IsWriter(j, p) /\ B[p].readers = 1 /\ B2[p].is_write /\ B2[p].readers = 0
  <2>1. c \in Readers(I, p)
    BY <1>2, <1>6 DEF Readers, Writers
  <2>2. Cardinality(Readers(I, p) \ {c}) = 0 /\ IsFiniteSet(Readers(I, p) \ {c})
    <3>1. /\ IsFiniteSet(Readers(I, p) \ {c})
          /\ Cardinality(Readers(I, p) \ {c})
               = IF c \in Readers(I, p) THEN Cardinality(Readers(I, p)) - 1 ELSE Cardinality(Readers(I, p))
      BY <1>2, FS_RemoveElement
    <3>2. QED
      BY SMT, <3>1, <2>1, <1>2, <1>6
  <2>3. QED
    BY <2>2, FS_EmptySet, <1>4, <1>6
<1>7. QED
  BY <1>3, <1>5, <1>6 DEF Joins

LEMMA JoinsCounted ==
  ASSUME NEW B, NEW I \in [Cursor -> Itc], NEW B2, NEW c \in Cursor, NEW j, NEW p \in Page,
         Counted(B, I, p), Joins(B[p], I[c], B2[p], j, p),
         B2[p].state # "deleted", j.fn = "pl_enter" => j.page = p, I[c].pc # "free"
  PROVE  Counted(B2, [I EXCEPT ![c] = j], p)
<1> DEFINE J == [I EXCEPT ![c] = j]
<1>1. J[c] = j /\ \A d \in Cursor : d # c => J[d] = I[d]
  OBVIOUS
<1>2. Counts(B2, J, p)
  BY JoinsCounts DEF Counted
<1> HIDE DEF J
<1>3. Follows(J, p)
  <2> SUFFICES ASSUME NEW d \in Cursor, J[d].fn = "pl_enter", J[d].page # p
               PROVE  ~IsIn(J[d], p) /\ (Waits(J[d], p) => \E e \in Cursor : J[e].pc = "free" /\ J[e].page = p)
    BY DEF Follows
  <2>1. QED
    BY <1>1 DEF Counted, Follows
<1>4. Counted(B2, J, p)
  BY <1>1, <1>2, <1>3 DEF Counted, Joins
<1>5. QED
  BY <1>4 DEF J

\* The counts b of page p have one more than there is inside.
Lacks(b, I, p) ==
    \/ ~b.is_write /\ Writers(I, p) = {} /\ b.readers = Cardinality(Readers(I, p)) + 1
    \/ b.is_write /\ b.readers = 0 /\ \A c \in Cursor : ~IsIn(I[c], p)

LEMMA QuitsLacks ==
  ASSUME NEW B, NEW I \in [Cursor -> Itc], NEW c \in Cursor, NEW j, NEW p \in Page,
         Counts(B, I, p), IsIn(I[c], p), ~IsIn(j, p)
  PROVE  Lacks(B[p], [I EXCEPT ![c] = j], p)
<1> DEFINE J == [I EXCEPT ![c] = j]
<1>1. J[c] = j /\ \A d \in Cursor : d # c => J[d] = I[d]
  OBVIOUS
<1> HIDE DEF J
<1>2. /\ B[p].readers = Cardinality(Readers(I, p))
      /\ IsFiniteSet(Readers(I, p)) /\ Cardinality(Readers(I, p)) \in Nat
  BY MembersFinite DEF Counts
<1>3. CASE IsWriter(I[c], p)
  <2>1. c \in Writers(I, p) /\ Readers(I, p) = {} /\ Writers(I, p) = {c}
    BY <1>3 DEF Counts, Writers
  <2>2. QED
    BY <1>1, <2>1, <1>2, FS_EmptySet DEF Lacks, J, Counts, Readers, Writers
<1>4. CASE ~IsWriter(I[c], p)
  <2>1. c \in Readers(I, p)
    BY <1>4 DEF Readers
  <2>2. Writers(I, p) = {} /\ ~B[p].is_write
    BY <2>1 DEF Counts
  <2>3. Writers(J, p) = {} /\ Readers(J, p) = Readers(I, p) \ {c}
    BY <1>1, <2>2 DEF Readers, Writers
  <2>4. Cardinality(Readers(I, p) \ {c})
          = IF c \in Readers(I, p) THEN Cardinality(Readers(I, p)) - 1 ELSE Cardinality(Readers(I, p))
    BY <1>2, FS_RemoveElement
  <2>5. B[p].readers = Cardinality(Readers(J, p)) + 1
    BY SMT, <2>1, <2>3, <2>4, <1>2
  <2>6. QED
    BY <2>2, <2>3, <2>5 DEF Lacks, J
<1>5. QED
  BY <1>3, <1>4

LEMMA MemberFacts ==
  ASSUME NEW B, NEW I, Good(B, I), NEW c \in Cursor, NEW p \in Page, IsIn(I[c], p)
  PROVE  /\ B[p].state # "absent" /\ B[p].state # "deleted"
         /\ I[c].pc # "free" => \A d \in Cursor : ~(I[d].pc = "free" /\ I[d].page = p)
<1>1. Sound(B, I) /\ Counts(B, I, p) /\ (B[p].state = "deleted" => Deserted(I, p))
  BY DEF Good, Counted
<1>2. B[p].state # "absent"
  <2> SUFFICES ASSUME B[p] = Absent
               PROVE  FALSE
    BY <1>1 DEF Sound
  <2>1. QED
    BY <1>1, MembersFinite DEF Readers, Writers, Counts, Absent, Free
<1>3. ASSUME I[c].pc # "free", NEW d \in Cursor, I[d].pc = "free", I[d].page = p
      PROVE  FALSE
  <2>1. FreeFits(I[d])
    BY <1>1, <1>3 DEF Sound, Place
  <2>2. d \in Writers(I, p)
    BY <2>1, <1>3 DEF Writers, IsIn, IsWriter, FreeFits
  <2>3. QED
    BY <1>3, <1>1, <2>2 DEF Counts, Readers, Writers
<1>4. QED
  BY <1>1, <1>2, <1>3 DEF Deserted

LEMMA QuitsHeld ==
  ASSUME NEW B, NEW I, Good(B, I), NEW c \in Cursor, NEW j, NEW p \in Page, I[c].pc # "free",
         IsIn(I[c], p), ~IsIn(j, p), ~Waits(j, p),
         NEW B2, B2[p] = B[p], Others(B2, [I EXCEPT ![c] = j], p)
  PROVE  LET J == [I EXCEPT ![c] = j]
         IN /\ Held(B2, J, p) /\ LeftBy(B2, J, p)
            /\ B2[p].state # "deleted" /\ Expected(J, p)
<1> DEFINE J == [I EXCEPT ![c] = j]
<1>1. I \in [Cursor -> Itc] /\ Counted(B, I, p)
  BY DEF Good, Sound, Types
<1>2. J[c] = j /\ \A d \in Cursor : d # c => J[d] = I[d]
  BY <1>1
<1>3. Lacks(B[p], J, p)
  BY <1>1, QuitsLacks DEF Counted
<1> HIDE DEF J
<1>4. /\ B[p].state # "absent" /\ B[p].state # "deleted"
      /\ \A d \in Cursor : ~(I[d].pc = "free" /\ I[d].page = p)
  BY MemberFacts
<1>5. Returned(J, p) /\ Expected(J, p)
  BY <1>1, <1>4, <1>2 DEF Returned, Expected, Counted, Follows
<1>6. QED
  BY <1>3, <1>4, <1>5 DEF J, LeftBy, Held, Lacks

LEMMA TurnOthers ==
  ASSUME NEW B, NEW I, Good(B, I), NEW c \in Cursor, NEW j, NEW p \in Page, NEW b, Turns(B, I, c, j, p, b),
         NEW f, \A q \in Page \ {p, f} : Alike(I[c], j, q),
         NEW B2, B2 = [B EXCEPT ![p] = b], NEW J, J = [I EXCEPT ![c] = j],
         p # f => Counted(B2, J, p)
  PROVE  Others(B2, J, f)
<1>1. Sound(B, I) /\ I \in [Cursor -> Itc] /\ B \in [Page -> Buffer]
  BY DEF Good, Sound, Types
<1>2. ASSUME NEW q \in Page, q # f
      PROVE  Counted(B2, J, q)
  BY <1>2, <1>1, TurnAlike DEF Good
<1>3. QED
  BY <1>1, TurnsSound, <1>2 DEF Others

LEMMA TurnGood ==
  ASSUME NEW B, NEW I, Good(B, I), NEW c \in Cursor, NEW j, NEW p \in Page, NEW b, Turns(B, I, c, j, p, b),
         \A q \in Page \ {p} : Alike(I[c], j, q),
         NEW B2, B2 = [B EXCEPT ![p] = b], NEW J, J = [I EXCEPT ![c] = j], Counted(B2, J, p)
  PROVE  Good(B2, J)
<1>1. Others(B2, J, NoPage)
  BY TurnOthers
<1>2. QED
  BY <1>1, PagesApart DEF Others, Good

LEMMA StaysRegistered ==
  ASSUME NEW B, NEW I, Sound(B, I), NEW c \in Cursor, NEW j, j.reg => I[c].reg /\ j.page = I[c].page
  PROVE  j.reg => B[j.page].state # "deleted" /\ \A d \in Cursor : I[d].pc = "free" => I[d].page # j.page
<1>1. I[c].reg => B[I[c].page].state # "deleted" /\ \A d \in Cursor : I[d].pc = "free" => I[d].page # I[c].page
  BY DEF Sound
<1>2. QED
  BY <1>1

\* A step of c that leaves all buffers alone.
LEMMA TurnAlone ==
  ASSUME NEW B, NEW I, Good(B, I), NEW c \in Cursor, NEW j \in Itc, Place(j),
         I[c].pc \in {"out", "in", "call", "woken"}, j.pc \in {"out", "in", "call"},
         \A q \in Page : Alike(I[c], j, q),
         j.reg => B[j.page].state # "deleted" /\ \A d \in Cursor : I[d].pc = "free" => I[d].page # j.page,
         j.pc = "call" => B[Target(j)].state # "deleted"
  PROVE  Good(B, [I EXCEPT ![c] = j])
<1>1. Sound(B, I) /\ I \in [Cursor -> Itc] /\ B \in [Page -> Buffer] /\ QueuesFit(B, I, Root) /\ Root \in Page
  BY DEF Good, Sound, Types, Page
<1>2. /\ \A q : ~Waits(j, q)
      /\ I[c].pc # "wait" /\ I[c].pc # "read" /\ j.pc # "free"
  BY DEF Waits
<1>3. /\ Once(B[Root].write_waiting) /\ Once(B[Root].read_waiting)
      /\ Elems(B[Root].write_waiting)
           = Elems(B[Root].write_waiting) \cup (IF Waits(j, Root) /\ ~IsRead(j) THEN {c} ELSE {})
      /\ Elems(B[Root].read_waiting)
           = Elems(B[Root].read_waiting) \cup (IF Waits(j, Root) /\ IsRead(j) THEN {c} ELSE {})
  BY <1>1, <1>2 DEF QueuesFit
<1>4. Turns(B, I, c, j, Root, B[Root])
  BY <1>1, <1>2, <1>3 DEF Turns, Sound
<1>5. B = [B EXCEPT ![Root] = B[Root]]
  BY <1>1
<1>6. Counted(B, [I EXCEPT ![c] = j], Root)
  BY <1>1, TurnAlike DEF Good
<1>7. QED
  BY ZenonT(60), <1>1, <1>4, <1>5, <1>6, TurnGood

\* c leaves page f on the way.
LEMMA TurnQuits ==
  ASSUME NEW B, NEW I, Good(B, I), NEW c \in Cursor, NEW j, NEW p \in Page, NEW b, Turns(B, I, c, j, p, b),
         NEW f \in Page, p # f, \A q \in Page \ {p, f} : Alike(I[c], j, q),
         IsIn(I[c], f), ~IsIn(j, f), ~Waits(j, f), I[c].pc # "free",
         NEW B2, B2 = [B EXCEPT ![p] = b], NEW J, J = [I EXCEPT ![c] = j],
         Counted(B2, J, p)
  PROVE  LET r == page_leave_inner(B2, J, f) IN Good(r.bd, r.itc)
<1>1. Held(B2, J, f)
  BY TurnOthers, QuitsHeld DEF Good, Sound, Types
<1>2. QED
  BY <1>1, page_leave_innerGood

LEMMA PairIs ==
  ASSUME NEW r, NEW B, NEW I, r = [bd |-> B, itc |-> I]
  PROVE  r.bd = B /\ r.itc = I
  OBVIOUS

LEMMA HoldsSame ==
  ASSUME NEW i \in Itc, NEW f, f \notin i.holds
  PROVE  [i EXCEPT !.holds = @ \ {f}] = i
<1>1. [i EXCEPT !.holds = i.holds] = i
  BY DEF Itc
<1>2. QED
  BY <1>1

\* c becomes in, and j once it has left page f.
TurnsFrom(B, I, c, in, j, p, b, f) ==
    /\ in \in Itc /\ j = [in EXCEPT !.holds = @ \ {f}] /\ Turns(B, I, c, j, p, b) /\ I[c].pc # "free"
    /\ f = NoPage \/ (f \in Page /\ f # p /\ IsIn(I[c], f) /\ ~IsIn(j, f) /\ ~Waits(j, f))
    /\ \A q \in Page \ {p, f} : Alike(I[c], j, q)

LeftTo(r, B2, J, f) == r = IF f = NoPage THEN [bd |-> B2, itc |-> J] ELSE page_leave_inner(B2, J, f)

LEMMA TurnLeaves ==
  ASSUME NEW B, NEW I, Good(B, I), NEW c \in Cursor, NEW in, NEW j, NEW p \in Page, NEW b, NEW f,
         TurnsFrom(B, I, c, in, j, p, b, f),
         NEW B2, B2 = [B EXCEPT ![p] = b], NEW J, J = [I EXCEPT ![c] = j], Counted(B2, J, p),
         NEW K, K = [I EXCEPT ![c] = in], NEW r, r = LeaveFrom(B2, K, c, f)
  PROVE  Good(r.bd, r.itc) /\ LeftTo(r, B2, J, f)
<1>1. /\ I \in [Cursor -> Itc] /\ Turns(B, I, c, j, p, b) /\ in \in Itc /\ j = [in EXCEPT !.holds = @ \ {f}]
      /\ I[c].pc # "free" /\ \A q \in Page \ {p, f} : Alike(I[c], j, q)
  BY DEF Good, Sound, Types, TurnsFrom
<1>2. CASE f = NoPage
  <2>1. r = [bd |-> B2, itc |-> J]
    BY <1>1, PagesApart, <1>2, HoldsSame DEF LeaveFrom, Itc
  <2>2. \A q \in Page \ {p} : Alike(I[c], j, q)
    BY <1>1, <1>2, PagesApart
  <2>3. Good(B2, J)
    BY <1>1, <2>2, TurnGood
  <2>4. r.bd = B2 /\ r.itc = J
    BY <2>1, PairIs
  <2>5. QED
    BY <1>2, <2>1, <2>3, <2>4 DEF LeftTo
<1>3. CASE f # NoPage
  <2>1. Good(page_leave_inner(B2, J, f).bd, page_leave_inner(B2, J, f).itc)
    BY <1>3, <1>1, TurnQuits DEF TurnsFrom
  <2>2. QED
    BY <1>1, <1>3, <2>1 DEF LeftTo, Itc, LeaveFrom
<1>4. QED
  BY <1>2, <1>3

-----------------------------------------------------------------------------
(* StartRead *)

\* Cursor i0 asks as i for page p: in page_wait_access, or in itc_set_parent_link.
Starts(i0, i, p) ==
    \/ i = i0 /\ i0.pc = "call" /\ p = Target(i0)
    \/ /\ i0.pc = "in" /\ i0.holds = {Root} /\ i0.landed /\ ~WantsRead(i0) /\ p \in Leaf
       /\ i = [i0 EXCEPT !.fn = "link"]

\* What it is when it reads p.
Reads(i0, i, j, p) ==
    /\ j \in Itc /\ Place(j) /\ j.pc = "read" /\ j.to = p /\ p \notin j.holds /\ i0.pc \in {"call", "in"}
    /\ IsRead(j) <=> IsRead(i)
    /\ j.reg = i0.reg /\ j.page = i0.page
    /\ j.fn = "pl_enter" => j.page = p
    /\ \A q \in Page \ {p} : Alike(i0, j, q)

LEMMA StartsReads ==
  ASSUME NEW i0 \in Itc, Place(i0), NEW i, NEW p \in Page, Starts(i0, i, p), p \notin i0.holds,
         NEW j, j = [i EXCEPT !.pc = "read", !.to = p]
  PROVE  Reads(i0, i, j, p)
<1>1. CASE i = i0 /\ i0.pc = "call" /\ p = Target(i0)
  <2>1. /\ j \in Itc /\ j.pc = "read" /\ j.entered = i.entered /\ j.fn = i.fn /\ j.to = p /\ j.from = i.from
        /\ j.dive = i.dive /\ j.landed = i.landed /\ j.reg = i.reg /\ j.page = i.page /\ j.holds = i.holds
        /\ j.decoy = i.decoy /\ j.to_reset = i.to_reset /\ j.changed = i.changed
    BY <1>1 DEF Itc, Places
  <2>2. CallFits(i) /\ Unwaited(i)
    BY <1>1 DEF Place
  <2>3. CallFits(j) /\ Unwaited(j)
    BY SMT, <1>1, <2>1, <2>2 DEF CallFits, Unwaited, Target, Calling, WantsRead
  <2>4. \A q : IsWriter(j, q) <=> IsWriter(i, q)
    BY <2>1 DEF IsWriter, WantsRead, IsRead
  <2>5. \A q \in Page \ {p} : Alike(i0, j, q)
    BY <1>1, <2>1, <2>4 DEF Alike, IsIn, Waits
  <2>6. IsRead(j) <=> IsRead(i)
    BY <2>1 DEF WantsRead, IsRead
  <2>7. QED
    BY <2>1, <1>1, <2>3, <2>5, <2>6 DEF Reads, Place, Target
<1>2. CASE /\ i0.pc = "in" /\ i0.holds = {Root} /\ i0.landed /\ ~WantsRead(i0) /\ p \in Leaf
           /\ i = [i0 EXCEPT !.fn = "link"]
  <2>1. /\ j \in Itc /\ j.pc = "read" /\ j.entered = i0.entered /\ j.fn = "link" /\ j.to = p /\ j.from = i0.from
        /\ j.dive = i0.dive /\ j.landed = i0.landed /\ j.reg = i0.reg /\ j.page = i0.page /\ j.holds = i0.holds
        /\ j.decoy = i0.decoy /\ j.to_reset = i0.to_reset /\ j.changed = i0.changed
    BY ZenonT(60), <1>2 DEF Itc, Places, Call
  <2>2. InFits(i0) /\ Root # p
    BY <1>2, PagesApart DEF Place
  <2>3. i0.page = Root /\ ~i0.reg /\ Quiet(i0)
    BY <1>2, <2>2, PagesApart DEF InFits
  <2>4. CallFits(j) /\ Unwaited(j)
    BY ZenonT(60), <1>2, <2>1, <2>3 DEF CallFits, Unwaited, Quiet, WantsRead
  <2>5. IsRead(j) <=> IsRead(i)
    <3>1. i.fn = "link" /\ i.dive = i0.dive /\ i.landed = i0.landed
      BY <1>2 DEF Itc
    <3>2. QED
      BY <2>1, <3>1 DEF WantsRead, IsRead
  <2>6. QED
    BY <2>1, <1>2, <2>4, <2>2, <2>5 DEF Reads, Place, Alike, IsIn, Waits, IsWriter, WantsRead
<1>3. QED
  BY <1>1, <1>2 DEF Starts

LEMMA StartReadGood ==
  ASSUME Good(bd, itc), NEW c \in Cursor, NEW i, NEW p \in Page, Starts(itc[c], i, p), StartRead(c, i, p)
  PROVE  Good(bd, itc)'
<1>1. /\ Sound(bd, itc) /\ bd \in [Page -> Buffer] /\ itc \in [Cursor -> Itc] /\ Place(itc[c])
      /\ bd[p] = Absent /\ Counted(bd, itc, p) /\ QueuesFit(bd, itc, p) /\ bd[p].state = "absent"
  BY DEF Good, Sound, Types, StartRead
<1>2. ~IsIn(itc[c], p)
  BY <1>1, MemberFacts
<1>3. PICK j : j = [i EXCEPT !.pc = "read", !.to = p]
  OBVIOUS
<1>4. Reads(itc[c], i, j, p)
  BY <1>1, <1>2, <1>3, StartsReads DEF IsIn
<1>5. PICK w \in BOOLEAN : w <=> ~IsRead(j)
  OBVIOUS
<1>6. PICK n \in Nat : n = IF IsRead(j) THEN 1 ELSE 0
  BY SMT
<1>7. PICK b : b = [Free EXCEPT !.state = "decoy", !.is_write = w, !.readers = n]
  OBVIOUS
<1>8. /\ b \in Buffer /\ b.state = "decoy" /\ b.is_write = w /\ b.readers = n
      /\ b.write_waiting = <<>> /\ b.read_waiting = <<>>
  BY <1>7, EmptyElems DEF Free, Buffer
<1>9. bd' = [bd EXCEPT ![p] = b] /\ itc' = [itc EXCEPT ![c] = j]
  BY <1>4, <1>5, <1>6, <1>3, <1>7 DEF Reads, StartRead
<1>10. bd[p].write_waiting = <<>> /\ bd[p].read_waiting = <<>> /\ ~bd[p].is_write /\ bd[p].readers = 0
  BY <1>1 DEF Absent, Free
<1>11. Turns(bd, itc, c, j, p, b)
  <2>1. j.reg => bd[j.page].state # "deleted" /\ \A d \in Cursor : itc[d].pc = "free" => itc[d].page # j.page
    <3>1. j.reg = itc[c].reg /\ j.page = itc[c].page
      BY <1>4 DEF Reads
    <3>2. QED
      BY <1>1, <3>1, StaysRegistered
  <2>2. QED
    BY <1>4, <1>8, <1>10, EmptyElems, <2>1 DEF Turns, Reads, Waits
<1>12. Joins(bd[p], itc[c], b, j, p)
  <2>1. IsIn(j, p) /\ (IsWriter(j, p) <=> ~IsRead(j))
    BY <1>4 DEF Reads, IsIn, IsWriter
  <2>2. QED
    BY SMTT(30), <1>2, <1>5, <1>6, <1>8, <1>10, <2>1 DEF Joins
<1>13. Counted(bd', itc', p)
  BY <1>1, <1>9, <1>4, <1>8, <1>12, JoinsCounted DEF Reads
<1>14. QED
  BY <1>4, <1>9, <1>11, <1>13, TurnGood DEF Reads

-----------------------------------------------------------------------------
(* Entering *)

\* j is i inside p and out of f, with the mode d.
Entered(i, j, p, d, f) ==
    /\ j \in Itc /\ j.pc = "in" /\ Quiet(j) /\ ~j.reg /\ j.dive = d
    /\ j.landed <=> i.landed \/ i.fn = "land"
    /\ j.page = IF i.fn \in {"pl_enter", "parent", "link"} THEN i.page ELSE p
    /\ j.holds = (i.holds \cup {p}) \ {f}

Ended(i, o, pc) ==
    /\ o \in Itc /\ o.pc = pc /\ Quiet(o) /\ o.dive = i.dive /\ o.landed = i.landed
    /\ o.reg = i.reg /\ o.page = i.page /\ o.holds = i.holds

LEMMA OverEnded ==
  ASSUME NEW i \in Itc, NEW pc \in Places
  PROVE  Ended(i, Over(i, pc), pc)
<1>1. PICK m : m = [i EXCEPT !.pc = pc, !.fn = "none", !.to = NoPage, !.from = NoPage]
  OBVIOUS
<1>2. /\ m \in Itc /\ m.pc = pc /\ m.fn = "none" /\ m.to = NoPage /\ m.from = NoPage
      /\ m.dive = i.dive /\ m.landed = i.landed /\ m.reg = i.reg /\ m.page = i.page /\ m.holds = i.holds
  BY <1>1 DEF Itc
<1>3. PICK o : o = [m EXCEPT !.decoy = FALSE, !.to_reset = NO_WAIT, !.entered = NoPage, !.changed = NO_WAIT]
  OBVIOUS
<1>4. NO_WAIT \in 0 .. 9
  BY SMT DEF NO_WAIT
<1>5. /\ o \in Itc /\ o.pc = m.pc /\ o.fn = m.fn /\ o.to = m.to /\ o.from = m.from
      /\ o.dive = m.dive /\ o.landed = m.landed /\ o.reg = m.reg /\ o.page = m.page /\ o.holds = m.holds
      /\ o.decoy = FALSE /\ o.to_reset = NO_WAIT /\ o.entered = NoPage /\ o.changed = NO_WAIT
  BY <1>2, <1>3, <1>4 DEF Itc
<1>6. QED
  BY <1>1, <1>3, <1>2, <1>5 DEF Ended, Quiet, Unwaited, Over

LEMMA InsideEntered ==
  ASSUME NEW i \in Itc, NEW p \in Page, NEW d \in {"READ", "WRITE", "READ_ONLY"}, NEW f
  PROVE  /\ Inside(i, p) \in Itc /\ Inside(i, p).dive = i.dive /\ [Inside(i, p) EXCEPT !.dive = d] \in Itc
         /\ Entered(i, [[Inside(i, p) EXCEPT !.dive = d] EXCEPT !.holds = @ \ {f}], p, d, f)
<1>1. PICK g : g = IF i.fn \in {"pl_enter", "parent", "link"} THEN i.page ELSE p
  OBVIOUS
<1>2. PICK l \in BOOLEAN : l = (i.landed \/ i.fn = "land")
  OBVIOUS
<1>3. PICK o : o = Over(i, "in")
  OBVIOUS
<1>4. /\ o \in Itc /\ o.pc = "in" /\ Quiet(o) /\ o.dive = i.dive /\ o.landed = i.landed
      /\ o.page = i.page /\ o.holds = i.holds
  BY <1>3, OverEnded DEF Ended, Places
<1>5. g \in Page \cup {NoPage}
  BY <1>1 DEF Itc
<1>6. PICK h \in SUBSET Page : h = i.holds \cup {p}
  BY DEF Itc
<1>7. Inside(i, p) = [o EXCEPT !.holds = h, !.page = g, !.reg = FALSE, !.landed = l]
  BY <1>1, <1>2, <1>3, <1>4, <1>6 DEF Inside
<1>8. PICK k : k = Inside(i, p)
  OBVIOUS
<1>9. /\ k \in Itc /\ k.pc = "in" /\ Quiet(k) /\ k.landed = l /\ k.reg = FALSE
      /\ k.page = g /\ k.holds = h /\ k.dive = i.dive
  <2>1. /\ k \in Itc /\ k.dive = o.dive /\ k.pc = o.pc /\ k.fn = o.fn /\ k.to = o.to /\ k.from = o.from
        /\ k.landed = l /\ k.reg = FALSE /\ k.page = g /\ k.holds = h
        /\ k.decoy = o.decoy /\ k.to_reset = o.to_reset /\ k.entered = o.entered /\ k.changed = o.changed
    BY ZenonT(60), <1>4, <1>5, <1>7, <1>8 DEF Itc
  <2>2. QED
    BY <2>1, <1>4 DEF Quiet, Unwaited
<1>10. PICK h2 \in SUBSET Page : h2 = h \ {f}
  OBVIOUS
<1>11. PICK j : j = [[k EXCEPT !.dive = d] EXCEPT !.holds = h2]
  OBVIOUS
<1>12. [[k EXCEPT !.dive = d] EXCEPT !.holds = @ \ {f}] = j
  BY <1>9, <1>10, <1>11 DEF Itc
<1>13. /\ j \in Itc /\ j.pc = "in" /\ Quiet(j) /\ j.landed = l /\ j.reg = FALSE
       /\ j.page = g /\ j.holds = h2 /\ j.dive = d
  BY <1>9, <1>11 DEF Itc, Quiet, Unwaited
<1>14. Entered(i, j, p, d, f)
  BY <1>1, <1>2, <1>6, <1>10, <1>13 DEF Entered
<1>15. [k EXCEPT !.dive = d] \in Itc
  BY ZenonT(60), <1>9 DEF Itc
<1>16. QED
  BY <1>8, <1>9, <1>12, <1>14, <1>15

\* The state in which i gets into p, having left f when it asked or leaving it now.
Arrives(i, p, d, f) ==
    /\ i.pc \in {"call", "read", "woken"} /\ f = i.from
    /\ p = IF i.pc = "call" THEN Target(i) ELSE i.to
    /\ i.fn = "pl_enter" => i.page = p
    /\ i.pc = "woken" => i.fn # "up"
    /\ d = i.dive \/ (d = "WRITE" /\ i.fn = "dive")

Arrived(i, j, p, d, f) ==
    /\ j \in Itc /\ Place(j) /\ j.pc = "in" /\ ~j.reg /\ j.fn = "none"
    /\ IsIn(j, p) /\ ~IsIn(j, f)
    /\ IsWriter(j, p) <=> (d # i.dive \/ ~IsRead(i))
    /\ f # NoPage => f \in Page /\ f # p /\ (i.pc # "woken" => IsIn(i, f))
    /\ \A q \in Page \ {p, f} : Alike(i, j, q)

LEMMA ArrivesArrived ==
  ASSUME NEW i \in Itc, Place(i), NEW p \in Page, NEW d, NEW f, Arrives(i, p, d, f), NEW j, Entered(i, j, p, d, f)
  PROVE  Arrived(i, j, p, d, f) /\ p \notin i.holds
<1>1. /\ CallFits(i) /\ i.pc \in {"call", "read", "woken"} /\ f = i.from
      /\ p = IF i.pc = "call" THEN Target(i) ELSE i.to
      /\ i.fn = "pl_enter" => i.page = p
      /\ i.pc = "woken" => i.fn # "up"
      /\ d = i.dive \/ (d = "WRITE" /\ i.fn = "dive")
  BY DEF Arrives, Place
<1>2. /\ j \in Itc /\ j.pc = "in" /\ Quiet(j) /\ ~j.reg /\ j.dive = d
      /\ j.landed <=> i.landed \/ i.fn = "land"
      /\ j.page = IF i.fn \in {"pl_enter", "parent", "link"} THEN i.page ELSE p
      /\ j.holds = (i.holds \cup {p}) \ {f}
  BY DEF Entered
<1>3. /\ NoPage \notin Page /\ Root \in Page /\ Leaf \subseteq Page /\ Root \notin Leaf
      /\ Page = {Root} \cup Leaf
  BY PagesApart DEF Page
<1>4. p \notin i.holds
  BY <1>1, <1>3 DEF CallFits, Calling, Target
<1>5. p # f /\ p \in j.holds /\ f \notin j.holds
  BY ZenonT(60), <1>1, <1>2, <1>3 DEF CallFits, Calling, Target
<1>6. f # NoPage => f \in Page /\ (i.pc # "woken" => f \in i.holds)
  BY <1>1, <1>3 DEF CallFits, Calling
<1>7. i.fn # "land" => (WantsRead(j) <=> (WantsRead(i) /\ d = i.dive))
  BY <1>1, <1>2 DEF WantsRead, CallFits
<1>8. InFits(j)
  <2>1. j.holds = {j.page} \/ (j.landed /\ ~WantsRead(j) /\ \E x \in Leaf : j.holds = {Root, x} /\ j.page \in {Root, x})
    <3>1. CASE i.fn \in {"reset", "dive", "down", "pl_enter", "up", "land"}
      <4>1. (i.holds \cup {p}) \ {f} = {p} /\ j.page = p
        BY SMTT(30), <3>1, <1>1, <1>2, <1>3 DEF CallFits, Calling, Target
      <4>2. QED
        BY ZenonT(60), <4>1, <1>2
    <3>2. CASE i.fn = "parent"
      <4>1. j.holds = {Root, i.page} /\ j.page = i.page /\ i.page \in Leaf /\ j.landed /\ ~WantsRead(j)
        BY SMTT(30), <3>2, <1>1, <1>2, <1>3, <1>7 DEF CallFits, Calling, Target
      <4>2. QED
        BY <4>1
    <3>3. CASE i.fn = "link"
      <4>1. j.holds = {Root, p} /\ j.page = Root /\ p \in Leaf /\ j.landed /\ ~WantsRead(j)
        BY SMTT(30), <3>3, <1>1, <1>2, <1>3, <1>7 DEF CallFits, Calling, Target
      <4>2. QED
        BY <4>1
    <3>4. QED
      BY <3>1, <3>2, <3>3, <1>1 DEF CallFits
  <2>2. QED
    BY <1>1, <1>2, <1>3, <2>1 DEF InFits, CallFits
<1>9. IsWriter(j, p) <=> (d # i.dive \/ ~IsRead(i))
  BY <1>1, <1>2, <1>5, <1>7 DEF IsWriter, IsRead, WantsRead, CallFits
<1>10. \A q \in Page \ {p, f} : Alike(i, j, q)
  <2> TAKE q \in Page \ {p, f}
  <2>1. q \in i.holds => (WantsRead(j) <=> WantsRead(i))
    BY <1>1, <1>2, <1>7 DEF CallFits, Calling
  <2>2. QED
    BY <1>2, <1>1, <1>3, <2>1 DEF Alike, IsWriter, Waits, Quiet, Place, WokenFits, IsIn
<1>11. QED
  BY <1>2, <1>8, <1>5, <1>4, <1>6, <1>9, <1>10 DEF Arrived, Quiet, IsIn, Place

\* c enters the free page p and leaves the page it comes from.
LEMMA EnterFreeGood ==
  ASSUME Good(bd, itc), NEW c \in Cursor, NEW p \in Page, itc[c].pc = "call", p = Target(itc[c]),
         EnterFree(c, itc[c], p)
  PROVE  Good(bd, itc)'
<1> DEFINE i == itc[c]
           adaptive == i.fn = "dive" /\ bd[p].read_waiting = <<>> /\ AdaptiveWrite(bd[p], i, p)
           write == adaptive \/ ~IsRead(i)
           d == IF adaptive THEN "WRITE" ELSE i.dive
           in == [Inside(i, p) EXCEPT !.dive = d]
           j == [in EXCEPT !.holds = @ \ {i.from}]
           n == IF write THEN 0 ELSE bd[p].readers + 1
           b == [bd[p] EXCEPT !.is_write = write, !.readers = n]
           B == [bd EXCEPT ![p] = b]
           left == LeaveFrom(B, [itc EXCEPT ![c] = in], c, i.from)
<1>1. /\ Sound(bd, itc) /\ bd \in [Page -> Buffer] /\ itc \in [Cursor -> Itc] /\ Place(i) /\ i \in Itc
      /\ Counted(bd, itc, p) /\ QueuesFit(bd, itc, p) /\ bd[p] \in Buffer
  BY DEF Good, Sound, Types
<1>2. [bd EXCEPT ![p].is_write = write, ![p].readers = IF write THEN 0 ELSE @ + 1] = B
  <2>1. PICK w : w = write
    OBVIOUS
  <2>2. PICK m : m = n
    OBVIOUS
  <2>3. [bd EXCEPT ![p].is_write = w, ![p].readers = m] = [bd EXCEPT ![p] = [bd[p] EXCEPT !.is_write = w, !.readers = m]]
    BY <1>1
  <2>4. QED
    BY <1>1, <2>1, <2>2, <2>3 DEF Buffer
<1>3. bd[p].state = "here" /\ Available(i, bd[p]) /\ bd' = left.bd /\ itc' = left.itc
  <2>1. PICK K : K = [itc EXCEPT ![c] = in]
    OBVIOUS
  <2>2. PICK C : C = [bd EXCEPT ![p].is_write = write, ![p].readers = IF write THEN 0 ELSE @ + 1]
    OBVIOUS
  <2>3. bd' = LeaveFrom(C, K, c, i.from).bd /\ itc' = LeaveFrom(C, K, c, i.from).itc
    BY <1>1, InsideEntered, <2>1, <2>2 DEF EnterFree
  <2> HIDE DEF B, in
  <2>4. QED
    BY <1>2, <2>2, <2>1, <2>3 DEF EnterFree
<1>4. d \in {"READ", "WRITE", "READ_ONLY"} /\ (d # i.dive <=> adaptive)
  BY <1>1 DEF Itc, AdaptiveWrite
<1>5. in \in Itc /\ Entered(i, j, p, d, i.from)
  <2> HIDE DEF i, d
  <2> QED
    BY <1>1, <1>4, InsideEntered
<1>6. Arrives(i, p, d, i.from)
  BY DEF Arrives, Target
<1> HIDE DEF in, j
<1>7. Arrived(i, j, p, d, i.from) /\ p \notin i.holds
  <2> HIDE DEF d
  <2> QED
    BY <1>1, <1>5, <1>6, ArrivesArrived
<1>8. ~bd[p].is_write /\ bd[p].readers \in Nat /\ (write => bd[p].readers = 0)
  BY <1>1, <1>3 DEF Available, AdaptiveWrite, Buffer
<1>9. /\ b \in Buffer /\ b.state = "here" /\ b.is_write = write /\ b.readers = n
      /\ b.write_waiting = bd[p].write_waiting /\ b.read_waiting = bd[p].read_waiting
  <2>1. PICK w \in BOOLEAN : w = write
    OBVIOUS
  <2>2. PICK m \in Nat : m = n
    BY SMT, <1>8
  <2>3. PICK e : e = [bd[p] EXCEPT !.is_write = w, !.readers = m]
    OBVIOUS
  <2>4. /\ e \in Buffer /\ e.state = "here" /\ e.is_write = w /\ e.readers = m
        /\ e.write_waiting = bd[p].write_waiting /\ e.read_waiting = bd[p].read_waiting
    BY <1>1, <1>3, <2>3 DEF Buffer
  <2>5. e = b
    BY <2>1, <2>2, <2>3
  <2> HIDE DEF b, write, n
  <2>6. QED
    BY <2>1, <2>2, <2>4, <2>5
<1>10. IsWriter(j, p) <=> write
  BY <1>4, <1>7 DEF Arrived
<1>11. n = IF write THEN 0 ELSE bd[p].readers + 1
  OBVIOUS
<1> HIDE DEF b, write, n, adaptive, d
<1>12. Joins(bd[p], i, b, j, p)
  BY <1>7, <1>8, <1>9, <1>10, <1>11 DEF Arrived, IsIn, Joins
<1>13. B[p] = b
  BY <1>1
<1> HIDE DEF B
<1>14. Counted(B, [itc EXCEPT ![c] = j], p)
  BY <1>7, <1>9, <1>1, <1>12, <1>13, JoinsCounted DEF Arrived
<1>15. TurnsFrom(bd, itc, c, in, j, p, b, i.from)
  BY <1>7, <1>1, <1>9, <1>5 DEF Arrived, Waits, TurnsFrom, j, QueuesFit, Turns
<1>16. Good(left.bd, left.itc)
  <2>1. PICK r : r = left
    OBVIOUS
  <2>2. PICK K : K = [itc EXCEPT ![c] = in]
    OBVIOUS
  <2>3. PICK J : J = [itc EXCEPT ![c] = j]
    OBVIOUS
  <2>4. PICK f : f = i.from
    OBVIOUS
  <2>5. QED
    BY <1>14, <1>15, <2>1, <2>2, <2>3, <2>4, TurnLeaves DEF B
<1>17. QED
  BY <1>3, <1>16

-----------------------------------------------------------------------------
(* Wait *)

\* j is i in a queue of page p, out of page f.
Waiter(i, j, p, f) ==
    /\ j \in Itc /\ Place(j) /\ Waits(j, p) /\ ~IsIn(i, p) /\ ~IsIn(j, p)
    /\ IsRead(j) <=> IsRead(i)
    /\ j.page = i.page /\ (j.reg => i.reg \/ j.page = Root)
    /\ j.fn = "pl_enter" => j.page = p
    /\ f = NoPage \/ (f \in Page /\ f # p /\ IsIn(i, f) /\ ~IsIn(j, f))
    /\ \A q \in Page \ {p, f} : Alike(i, j, q)

\* The fields of i in a queue of page p, with the pages h.
Parks(i, j, p, r, t, h) ==
    /\ j \in Itc /\ j.pc = "wait" /\ j.to = p /\ j.reg = r /\ j.to_reset = t
    /\ j.fn = i.fn /\ j.from = i.from /\ j.dive = i.dive /\ j.landed = i.landed /\ j.page = i.page
    /\ j.holds = h /\ j.entered = i.entered /\ j.changed = i.changed

Park(i, p, y, r, t) == [i EXCEPT !.pc = "wait", !.to = p, !.decoy = y, !.reg = r, !.to_reset = t]
Quit(i, f) == [i EXCEPT !.holds = @ \ {f}]

LEMMA WaitParks ==
  ASSUME NEW i \in Itc, NEW p \in Page, NEW f, NEW y \in BOOLEAN, NEW r \in BOOLEAN, NEW t \in 0 .. 9
  PROVE  Park(i, p, y, r, t) \in Itc /\ Parks(i, Quit(Park(i, p, y, r, t), f), p, r, t, i.holds \ {f})
<1>1. PICK m : m = [i EXCEPT !.pc = "wait", !.to = p, !.decoy = y]
  OBVIOUS
<1>2. /\ m \in Itc /\ m.pc = "wait" /\ m.to = p
      /\ m.fn = i.fn /\ m.from = i.from /\ m.dive = i.dive /\ m.landed = i.landed /\ m.page = i.page
      /\ m.holds = i.holds /\ m.entered = i.entered /\ m.changed = i.changed
  BY <1>1 DEF Itc, Places
<1>3. PICK w : w = [m EXCEPT !.reg = r, !.to_reset = t]
  OBVIOUS
<1>4. /\ w \in Itc /\ w.pc = m.pc /\ w.to = p /\ w.reg = r /\ w.to_reset = t
      /\ w.fn = m.fn /\ w.from = m.from /\ w.dive = m.dive /\ w.landed = m.landed /\ w.page = m.page
      /\ w.holds = m.holds /\ w.entered = m.entered /\ w.changed = m.changed
  BY <1>2, <1>3 DEF Itc
<1>5. PICK h \in SUBSET Page : h = i.holds \ {f}
  BY DEF Itc
<1>6. PICK j : j = [w EXCEPT !.holds = h]
  OBVIOUS
<1>7. /\ j \in Itc /\ j.pc = w.pc /\ j.to = w.to /\ j.reg = w.reg /\ j.to_reset = w.to_reset
      /\ j.fn = w.fn /\ j.from = w.from /\ j.dive = w.dive /\ j.landed = w.landed /\ j.page = w.page
      /\ j.holds = h /\ j.entered = w.entered /\ j.changed = w.changed
  BY <1>4, <1>6 DEF Itc
<1>8. Parks(i, j, p, r, t, i.holds \ {f})
  BY <1>2, <1>4, <1>5, <1>7 DEF Parks
<1>9. QED
  BY <1>1, <1>3, <1>2, <1>4, <1>5, <1>6, <1>8 DEF Quit, Park

LEMMA ParksWaiter ==
  ASSUME NEW i \in Itc, Place(i), i.pc = "call", NEW p \in Page, p = Target(i),
         NEW f, f = IF KeepsSource(i) THEN NoPage ELSE i.from,
         NEW r, r = (i.reg \/ (i.landed /\ i.from # NoPage /\ ~KeepsSource(i))),
         NEW t \in {NO_WAIT, WAIT_NO_CHANGE}, NEW j, Parks(i, j, p, r, t, i.holds \ {f})
  PROVE  Waiter(i, j, p, f)
<1>1. /\ NoPage \notin Page /\ Root \in Page /\ Leaf \subseteq Page /\ Root \notin Leaf
      /\ Page = {Root} \cup Leaf
  BY PagesApart DEF Page
<1>2. CallFits(i) /\ Unwaited(i)
  BY DEF Place
<1>3. KeepsSource(i) <=> i.fn = "up"
  BY SMT, <1>2 DEF KeepsSource, MaxChange, CallFits, NO_ENTRY_IF_WAIT, NO_WAIT, WAIT_KEY, WAIT_DATA, WAIT_ANY
<1>4. t \in 1 .. 2 /\ t \in 0 .. 9
  BY SMT DEF NO_WAIT, WAIT_NO_CHANGE
<1>5. /\ j \in Itc /\ j.pc = "wait" /\ j.to = p /\ j.reg = r /\ j.to_reset = t
      /\ j.fn = i.fn /\ j.from = i.from /\ j.dive = i.dive /\ j.landed = i.landed /\ j.page = i.page
      /\ j.holds = i.holds \ {f} /\ j.entered = i.entered /\ j.changed = i.changed
  BY DEF Parks
<1>6. CallFits(j)
  <2>1. j.holds = IF i.fn \in {"dive", "down"} THEN {} ELSE i.holds
    <3>1. CASE i.fn \in {"dive", "down"}
      BY <3>1, <1>2, <1>3, <1>5 DEF CallFits, Calling
    <3>2. CASE i.fn \notin {"dive", "down"}
      <4>1. i.holds \ {f} = i.holds
        BY <3>2, <1>2, <1>3, <1>1 DEF Itc, CallFits
      <4>2. QED
        BY <3>2, <4>1, <1>5
    <3>3. QED
      BY <3>1, <3>2
  <2>2. j.reg \in BOOLEAN /\ (j.reg <=> (i.fn = "down" \/ i.reg))
    BY <1>1, <1>2, <1>3, <1>5 DEF CallFits, Itc
  <2>3. j.to = IF i.fn = "pl_enter" THEN i.page ELSE i.to
    BY <1>5 DEF Target
  <2>4. (WantsRead(j) <=> WantsRead(i)) /\ ~Calling(j) /\ Calling(i) /\ j.pc # "call"
    BY <1>5 DEF WantsRead, Calling
  <2>5. CASE i.fn \in {"reset", "dive", "down", "pl_enter"}
    BY <1>1, <1>2, <1>5, <2>1, <2>2, <2>3, <2>4, <2>5 DEF CallFits
  <2>6. CASE i.fn \in {"up", "parent"}
    BY <1>1, <1>2, <1>5, <2>1, <2>2, <2>3, <2>4, <2>6 DEF CallFits
  <2>7. QED
    BY <1>2, <2>4, <2>5, <2>6 DEF CallFits
<1>7. WaitFits(j)
  BY SMT, <1>2, <1>4, <1>5 DEF WaitFits, Unwaited, NO_WAIT
<1>8. Place(j)
  BY <1>5, <1>6, <1>7 DEF Place
<1>9. p \notin i.holds /\ (f = NoPage \/ (f \in Page /\ f # p /\ f \in i.holds))
  BY <1>1, <1>2, <1>3 DEF CallFits, Calling, Target
<1>10. j.reg => i.reg \/ j.page = Root
  BY <1>1, <1>2, <1>3, <1>5 DEF CallFits
<1>11. j.fn = "pl_enter" => j.page = p
  BY <1>5 DEF Target
<1>12. \A q : (IsIn(j, q) <=> q \in i.holds \ {f}) /\ (IsIn(i, q) <=> q \in i.holds)
  BY <1>5 DEF IsIn
<1>13. (IsRead(j) <=> IsRead(i)) /\ (WantsRead(j) <=> WantsRead(i))
  BY <1>5 DEF IsRead, WantsRead
<1>14. ASSUME NEW q \in Page \ {p, f}
       PROVE  Alike(i, j, q)
  BY <1>5, <1>12, <1>13, <1>14 DEF Alike, IsWriter, Waits
<1>15. Waits(j, p)
  BY <1>5 DEF Waits
<1>16. QED
  BY <1>5, <1>8, <1>9, <1>10, <1>11, <1>12, <1>13, <1>14, <1>15 DEF Waiter

\* c joins a queue of page p, in which somebody is.
LEMMA WaitCounted ==
  ASSUME NEW B, NEW I \in [Cursor -> Itc], NEW B2, NEW c \in Cursor, NEW j, NEW p \in Page,
         Counted(B, I, p), ~IsIn(I[c], p), ~IsIn(j, p), I[c].pc # "free",
         B2[p].readers = B[p].readers, B2[p].is_write = B[p].is_write, B2[p].state # "deleted",
         j.fn = "pl_enter" => j.page = p, \E d \in Cursor : IsIn(I[d], p),
         NEW J, J = [I EXCEPT ![c] = j]
  PROVE  Counted(B2, J, p)
<1>1. J[c] = j /\ \A d \in Cursor : d # c => J[d] = I[d]
  OBVIOUS
<1>2. \A d \in Cursor : (IsIn(J[d], p) <=> IsIn(I[d], p)) /\ (IsIn(I[d], p) => J[d] = I[d])
  BY <1>1
<1>3. Follows(J, p)
  <2> SUFFICES ASSUME NEW d \in Cursor, J[d].fn = "pl_enter", J[d].page # p
               PROVE  ~IsIn(J[d], p) /\ (Waits(J[d], p) => \E e \in Cursor : J[e].pc = "free" /\ J[e].page = p)
    BY DEF Follows
  <2>1. QED
    BY <1>1 DEF Counted, Follows
<1>4. QED
  BY <1>2, <1>3 DEF Counted, Counts, Readers, Writers

\* The buffer b of a page is not to be had, so somebody is inside.
LEMMA NotAvailable ==
  ASSUME NEW B, NEW I, Good(B, I), NEW p \in Page, NEW i,
         B[p].state = "decoy" \/ (B[p].state = "here" /\ ~Available(i, B[p]))
  PROVE  \E d \in Cursor : IsIn(I[d], p)
<1>1. Sound(B, I) /\ Counted(B, I, p) /\ QueuesFit(B, I, p) /\ B[p] \in Buffer
  BY DEF Good, Sound, Types
<1>2. CASE B[p].state = "decoy"
  BY <1>1, <1>2 DEF Sound, IsIn
<1>3. CASE B[p].is_write
  BY <1>1, <1>3 DEF Counted, Counts, Writers
<1>4. CASE B[p].readers # 0
  BY <1>1, <1>4, FS_EmptySet DEF Counted, Counts, Readers
<1>5. CASE B[p].write_waiting # <<>>
  BY <1>1, <1>5, ElemsEmpty DEF Buffer, QueuesFit, Counted
<1>6. QED
  BY <1>2, <1>3, <1>4, <1>5 DEF Available

\* The queues with c: a reader in front, a writer at the end.
Grows(a, b, c, m) ==
    /\ b \in Buffer /\ b.state = a.state /\ b.readers = a.readers /\ b.is_write = a.is_write
    /\ Once(b.write_waiting) /\ Once(b.read_waiting)
    /\ Elems(b.write_waiting) = Elems(a.write_waiting) \cup (IF ~m THEN {c} ELSE {})
    /\ Elems(b.read_waiting) = Elems(a.read_waiting) \cup (IF m THEN {c} ELSE {})

LEMMA QueueGrows ==
  ASSUME NEW B, NEW I, Good(B, I), NEW p \in Page, NEW c \in Cursor, I[c].pc # "wait", NEW m,
         NEW b, b = IF m THEN [B[p] EXCEPT !.read_waiting = <<c>> \o @]
                         ELSE [B[p] EXCEPT !.write_waiting = Append(@, c)]
  PROVE  Grows(B[p], b, c, m)
<1>1. QueuesFit(B, I, p) /\ B[p] \in Buffer
  BY DEF Good, Sound, Types
<1>2. /\ B[p].write_waiting \in Seq(Cursor) /\ B[p].read_waiting \in Seq(Cursor)
      /\ Once(B[p].write_waiting) /\ Once(B[p].read_waiting)
      /\ c \notin Elems(B[p].write_waiting) /\ c \notin Elems(B[p].read_waiting)
  BY <1>1 DEF QueuesFit, Waits, Buffer
<1>3. CASE m
  BY <1>2, PrependElems, <1>3, <1>1 DEF Buffer, Grows
<1>4. CASE ~m
  BY <1>2, AppendElems, <1>4, <1>1 DEF Buffer, Grows
<1>5. QED
  BY <1>3, <1>4

LEMMA WaitGood ==
  ASSUME Good(bd, itc), NEW c \in Cursor, NEW p \in Page, itc[c].pc = "call", p = Target(itc[c]),
         Wait(c, itc[c], p)
  PROVE  Good(bd, itc)'
<1> DEFINE i == itc[c]
           registers == i.landed /\ i.from # NoPage /\ ~KeepsSource(i)
           unmarked == Cheats(i, bd[p]) \/ (bd[p].state = "here" /\ IsRead(i) /\ ~registers)
           y == bd[p].state = "decoy"
           r == i.reg \/ registers
           t == IF unmarked THEN NO_WAIT ELSE WAIT_NO_CHANGE
           w == [i EXCEPT !.pc = "wait", !.to = p, !.decoy = y, !.reg = r, !.to_reset = t]
           f == IF KeepsSource(i) THEN NoPage ELSE i.from
           j == [w EXCEPT !.holds = @ \ {f}]
           b == IF IsRead(i) THEN [bd[p] EXCEPT !.read_waiting = <<c>> \o @]
                             ELSE [bd[p] EXCEPT !.write_waiting = Append(@, c)]
           B == [bd EXCEPT ![p] = b]
           left == LeaveFrom(B, [itc EXCEPT ![c] = w], c, f)
<1>1. /\ Sound(bd, itc) /\ bd \in [Page -> Buffer] /\ itc \in [Cursor -> Itc] /\ Place(i) /\ i \in Itc
      /\ Counted(bd, itc, p) /\ bd[p] \in Buffer
  BY DEF Good, Sound, Types
<1>2. (IF IsRead(i) THEN [bd EXCEPT ![p].read_waiting = <<c>> \o @]
                    ELSE [bd EXCEPT ![p].write_waiting = Append(@, c)]) = B
  OBVIOUS
<1>3. /\ bd[p].state = "decoy" \/ (bd[p].state = "here" /\ ~Available(i, bd[p]))
      /\ bd' = left.bd /\ itc' = left.itc
  <2>1. PICK C : C = IF IsRead(i) THEN [bd EXCEPT ![p].read_waiting = <<c>> \o @]
                                  ELSE [bd EXCEPT ![p].write_waiting = Append(@, c)]
    OBVIOUS
  <2>2. PICK K : K = [itc EXCEPT ![c] = w]
    OBVIOUS
  <2>3. bd' = LeaveFrom(C, K, c, f).bd /\ itc' = LeaveFrom(C, K, c, f).itc
    BY <2>1, <2>2 DEF Wait
  <2> HIDE DEF B, w, f
  <2>4. QED
    BY <1>2, <2>1, <2>2, <2>3 DEF Wait
<1>4. y \in BOOLEAN /\ r \in BOOLEAN /\ t \in {NO_WAIT, WAIT_NO_CHANGE} /\ t \in 0 .. 9
  BY SMT, <1>1 DEF Itc, NO_WAIT, WAIT_NO_CHANGE
<1>5. w \in Itc /\ Parks(i, j, p, r, t, i.holds \ {f})
  <2> HIDE DEF i, y, r, t, f
  <2>1. Park(i, p, y, r, t) \in Itc /\ Parks(i, Quit(Park(i, p, y, r, t), f), p, r, t, i.holds \ {f})
    BY <1>1, <1>4, WaitParks
  <2>2. QED
    BY <2>1 DEF Park, Quit
<1>6. Waiter(i, j, p, f)
  <2>1. r = (i.reg \/ (i.landed /\ i.from # NoPage /\ ~KeepsSource(i)))
    OBVIOUS
  <2>2. f = IF KeepsSource(i) THEN NoPage ELSE i.from
    OBVIOUS
  <2> HIDE DEF j, r, t, f
  <2> QED
    BY <1>1, <1>4, <1>5, <2>1, <2>2, ParksWaiter
<1>7. PICK m \in BOOLEAN : m <=> IsRead(i)
  OBVIOUS
<1>8. /\ b \in Buffer /\ b.state = bd[p].state /\ b.readers = bd[p].readers /\ b.is_write = bd[p].is_write
      /\ Once(b.write_waiting) /\ Once(b.read_waiting)
      /\ Elems(b.write_waiting) = Elems(bd[p].write_waiting) \cup (IF ~m THEN {c} ELSE {})
      /\ Elems(b.read_waiting) = Elems(bd[p].read_waiting) \cup (IF m THEN {c} ELSE {})
  <2>1. b = IF m THEN [bd[p] EXCEPT !.read_waiting = <<c>> \o @]
                 ELSE [bd[p] EXCEPT !.write_waiting = Append(@, c)]
    BY <1>7
  <2>2. itc[c].pc # "wait"
    BY SMT
  <2> HIDE DEF b
  <2>3. Grows(bd[p], b, c, m)
    BY <2>1, <2>2, QueueGrows
  <2>4. QED
    BY <2>3 DEF Grows
<1> HIDE DEF b, j, w, f, y, r, t
<1>9. Turns(bd, itc, c, j, p, b)
  <2>1. j \in Itc /\ Place(j) /\ Waits(j, p) /\ (IsRead(j) <=> m)
    BY <1>6, <1>7 DEF Waiter
  <2>2. j.reg => bd[j.page].state # "deleted" /\ \A d \in Cursor : itc[d].pc = "free" => itc[d].page # j.page
    <3>1. CASE j.reg => i.reg
      BY <1>1, <1>6, <3>1, StaysRegistered DEF Waiter
    <3>2. CASE j.page = Root
      <4>1. \A d \in Cursor : itc[d].pc = "free" => itc[d].page # Root
        BY ZenonT(60), <1>1, PagesApart DEF Sound, Place, FreeFits
      <4>2. QED
        BY <1>1, PagesApart, <3>2, <4>1 DEF Sound, Page
    <3>3. QED
      BY <1>6, <3>1, <3>2 DEF Waiter
  <2>3. QED
    BY <2>1, <1>3, <1>8, <2>2 DEF Turns, Waits
<1>10. B[p] = b
  BY <1>1
<1> HIDE DEF B
<1>11. PICK J : J = [itc EXCEPT ![c] = j]
  OBVIOUS
<1>12. Counted(B, J, p)
  <2>1. B[p].readers = bd[p].readers /\ B[p].is_write = bd[p].is_write /\ B[p].state # "deleted"
    BY <1>3, <1>8, <1>10
  <2>2. QED
    BY <1>3, NotAvailable, <1>6, <1>1, <1>11, <2>1, WaitCounted DEF Waiter
<1>13. QED
  BY <1>6, <1>5, <1>9, <1>11, <1>12, TurnLeaves, <1>3 DEF B, Waiter, Waits, TurnsFrom, j

-----------------------------------------------------------------------------
(* ReadDone *)

\* A cursor that is in no queue of p is not touched by a release of p.
Spares(r, I, c) == r.itc[c] = I[c]

LEMMA ReadReleaseSpares ==
  ASSUME NEW B, NEW I, NEW p \in Page, NEW c \in Cursor, B[p].read_waiting \in Seq(Cursor), Once(B[p].read_waiting),
         c \notin Elems(B[p].read_waiting)
  PROVE  Spares(page_release_read(B, I, p), I, c)
<1> DEFINE q == B[p].read_waiting
           k == FirstFit(I, q)
           in == {d \in Elems(q) : Fits(I[d])}
           out == {q[j] : j \in 1 .. k - 1}
<1>1. /\ out \subseteq Elems(q)
      /\ k <= Len(q) => q[k] \in Elems(q)
  BY Scanned
<1>2. CASE k <= Len(q) /\ AdaptiveWrite(B[p], I[q[k]], p)
  <2>1. PICK J : J = Woken(I, p, {q[k]}, out)
    OBVIOUS
  <2>2. PICK m : m = q[k]
    OBVIOUS
  <2>3. page_release_read(B, I, p).itc = [J EXCEPT ![m].dive = "WRITE"]
    BY <1>2, <2>1, <2>2 DEF page_release_read
  <2>4. QED
    BY <1>1, <1>2, <2>1, <2>2, <2>3 DEF Spares, Woken
<1>3. CASE ~(k <= Len(q) /\ AdaptiveWrite(B[p], I[q[k]], p))
  <2>1. c \notin in /\ c \notin Elems(q) \ in
    OBVIOUS
  <2>2. Woken(I, p, in, Elems(q) \ in)[c] = I[c]
    <3> HIDE DEF in, q
    <3> QED
      BY <2>1 DEF Woken
  <2>3. QED
    BY <1>3, <2>2 DEF Spares, page_release_read
<1>4. QED
  BY <1>2, <1>3

LEMMA ReleaseSpares ==
  ASSUME NEW B \in [Page -> Buffer], NEW I, NEW p \in Page, NEW c \in Cursor,
         Once(B[p].read_waiting), Once(B[p].write_waiting),
         c \notin Elems(B[p].read_waiting), c \notin Elems(B[p].write_waiting)
  PROVE  Spares(ReleaseWaiting(B, I, p), I, c)
<1> DEFINE q == B[p].write_waiting
           k == FirstFit(I, q)
           in == {q[j] : j \in {k} \cap DOMAIN q}
           out == {q[j] : j \in 1 .. k - 1}
           J == Woken(I, p, in, out)
           C == [B EXCEPT ![p].write_waiting = <<>>]
<1>1. q \in Seq(Cursor) /\ B[p].read_waiting \in Seq(Cursor)
  BY DEF Buffer
<1>2. out \subseteq Elems(q) /\ in \subseteq Elems(q)
  BY <1>1, Scanned DEF Elems
<1>3. J[c] = I[c]
  <2> HIDE DEF in, out
  <2>1. QED
    BY <1>2 DEF Woken
<1>4. CASE k <= Len(q)
  BY <1>4, <1>3 DEF ReleaseWaiting, Spares
<1>5. CASE ~(k <= Len(q))
  <2>1. ReleaseWaiting(B, I, p) = page_release_read(C, J, p)
    BY <1>5 DEF ReleaseWaiting
  <2>2. C[p].read_waiting = B[p].read_waiting
    BY DEF Buffer
  <2> HIDE DEF C, J
  <2>3. Spares(page_release_read(C, J, p), J, c)
    BY <1>1, <2>2, ReadReleaseSpares
  <2>4. QED
    BY <1>3, <2>1, <2>3 DEF Spares
<1>6. QED
  BY <1>4, <1>5

LEMMA LeaveSpares ==
  ASSUME NEW B, NEW I, Sound(B, I), NEW f \in Page, NEW c \in Cursor, ~Waits(I[c], f)
  PROVE  Spares(page_leave_inner(B, I, f), I, c)
<1>1. B \in [Page -> Buffer] /\ QueuesFit(B, I, f)
  BY DEF Sound, Types
<1>2. /\ Once(B[f].read_waiting) /\ Once(B[f].write_waiting)
      /\ c \notin Elems(B[f].read_waiting) /\ c \notin Elems(B[f].write_waiting)
  BY <1>1 DEF QueuesFit
<1>3. CASE B[f].readers > 1
  BY <1>3 DEF page_leave_inner, Spares
<1>4. CASE ~(B[f].readers > 1)
  <2>1. PICK C : C = [B EXCEPT ![f].readers = 0, ![f].is_write = FALSE]
    OBVIOUS
  <2>2. /\ C \in [Page -> Buffer] /\ C[f].read_waiting = B[f].read_waiting
        /\ C[f].write_waiting = B[f].write_waiting
    BY ZenonT(60), <1>1, <2>1 DEF Buffer
  <2>3. QED
    BY <1>2, <2>2, ReleaseSpares, <1>4, <2>1 DEF page_leave_inner
<1>5. QED
  BY <1>3, <1>4

\* With a reader inside, readers may be let in.
LEMMA ReaderOpens ==
  ASSUME NEW B, NEW I, Good(B, I), NEW p \in Page, NEW c \in Cursor, I[c].pc # "free", IsIn(I[c], p), ~IsWriter(I[c], p)
  PROVE  Open(B, I, p)
<1>1. Sound(B, I) /\ Counted(B, I, p)
  BY DEF Good
<1>2. /\ B[p].state # "absent" /\ B[p].state # "deleted"
      /\ \A d \in Cursor : ~(I[d].pc = "free" /\ I[d].page = p)
  BY MemberFacts
<1>3. Writers(I, p) = {} /\ ~B[p].is_write /\ B[p].readers = Cardinality(Readers(I, p)) /\ Readers(I, p) # {}
  BY <1>1 DEF Counted, Counts, Readers
<1>4. QED
  BY <1>1, <1>2, <1>3 DEF Open, Good, Others, Counted, Follows, Returned, Expected

LEMMA ReadDoneGood ==
  ASSUME Good(bd, itc), NEW c \in Cursor, ReadDone(c)
  PROVE  Good(bd, itc)'
<1> DEFINE i == itc[c]
           p == i.to
           f == i.from
           in == Inside(i, p)
           j == [in EXCEPT !.holds = @ \ {f}]
           b == [bd[p] EXCEPT !.state = "here"]
           B == [bd EXCEPT ![p] = b]
           left == LeaveFrom(B, [itc EXCEPT ![c] = in], c, f)
           K == page_mark_change(left.bd, left.itc, p, WAIT_DISK)
           released == IF IsRead(i) THEN page_release_read(left.bd, K, p) ELSE [bd |-> left.bd, itc |-> K]
<1>1. /\ Sound(bd, itc) /\ bd \in [Page -> Buffer] /\ itc \in [Cursor -> Itc] /\ Place(i) /\ i \in Itc
      /\ i.pc = "read"
  BY DEF Good, Sound, Types, ReadDone
<1>2. bd' = released.bd /\ itc' = released.itc
  BY DEF ReadDone
<1>3. p \in Page
  BY <1>1 DEF CallFits, Page, Place
<1>4. Counted(bd, itc, p) /\ QueuesFit(bd, itc, p) /\ bd[p] \in Buffer
  BY <1>1, <1>3 DEF Good, Sound
<1>5. IsIn(i, p)
  BY <1>1 DEF IsIn
<1>6. in \in Itc /\ Entered(i, j, p, i.dive, f)
  <2>1. i.dive \in {"READ", "WRITE", "READ_ONLY"}
    BY <1>1 DEF Itc
  <2>2. [in EXCEPT !.dive = i.dive] = in
    <3>1. Inside(i, p) \in Itc /\ Inside(i, p).dive = i.dive
      BY <1>1, <1>3, <2>1, InsideEntered
    <3> HIDE DEF i, p
    <3>2. QED
      BY <3>1 DEF Itc
  <2>3. in \in Itc /\ Entered(i, [[in EXCEPT !.dive = i.dive] EXCEPT !.holds = @ \ {f}], p, i.dive, f)
    <3> HIDE DEF i, p, f
    <3> QED
      BY <1>1, <1>3, <2>1, InsideEntered
  <2>4. QED
    BY <2>2, <2>3
<1> HIDE DEF in, j
<1>7. Arrived(i, j, p, i.dive, f) /\ p \notin i.holds
  BY <1>4, <1>5, <1>1, <1>3, <1>6, ArrivesArrived DEF Arrives, Counted, Follows
<1>8. /\ b \in Buffer /\ b.state = "here" /\ b.readers = bd[p].readers /\ b.is_write = bd[p].is_write
      /\ b.write_waiting = bd[p].write_waiting /\ b.read_waiting = bd[p].read_waiting
  BY <1>4 DEF Buffer
<1>9. B[p] = b
  BY <1>1, <1>3
<1> HIDE DEF b, B
<1>10. Turns(bd, itc, c, j, p, b)
  BY <1>7, <1>4, <1>8, <1>1 DEF Arrived, Waits, QueuesFit, Turns
<1>11. Counted(B, [itc EXCEPT ![c] = j], p)
  <2>1. Alike(i, j, p)
    BY <1>7, <1>1, <1>5 DEF Arrived, IsWriter, Alike, Waits
  <2>2. QED
    BY <1>8, <1>9, <1>1, <1>3, <1>4, <2>1, TurnAlike
<1>12. TurnsFrom(bd, itc, c, in, j, p, b, f)
  BY <1>1, <1>7, <1>6, <1>10 DEF Arrived, Waits, TurnsFrom, j
<1>13. PICK J : J = [itc EXCEPT ![c] = j]
  OBVIOUS
<1>14. /\ Good(left.bd, left.itc)
       /\ left = IF f = NoPage THEN [bd |-> B, itc |-> J] ELSE page_leave_inner(B, J, f)
  <2>1. PICK l : l = left
    OBVIOUS
  <2>2. PICK I : I = [itc EXCEPT ![c] = in]
    OBVIOUS
  <2>3. PICK g : g = f
    OBVIOUS
  <2>4. B = [bd EXCEPT ![p] = b]
    BY DEF B
  <2>5. Good(l.bd, l.itc) /\ LeftTo(l, B, J, g)
    BY <1>3, <1>11, <1>12, <1>13, <2>1, <2>2, <2>3, <2>4, TurnLeaves
  <2>6. QED
    BY <2>1, <2>3, <2>5 DEF LeftTo
<1>15. left.itc[c] = j
  <2>1. J[c] = j
    BY <1>1, <1>13
  <2>2. CASE f = NoPage
    BY <1>14, <2>1, <2>2, PairIs
  <2>3. CASE f # NoPage
    <3>1. f \in Page /\ ~Waits(J[c], f)
      BY <1>7, <2>1, <2>3 DEF Arrived, Waits
    <3>2. Spares(page_leave_inner(B, J, f), J, c)
      BY <1>1, <1>3, <1>10, <1>13, TurnsSound, <3>1, LeaveSpares DEF B
    <3>3. QED
      BY <1>14, <2>1, <2>3, <3>2 DEF Spares
  <2>4. QED
    BY <2>2, <2>3
<1> HIDE DEF left
<1>16. Good(left.bd, K)
  <2>1. WAIT_DISK \in 1 .. 9
    BY SMT DEF WAIT_DISK
  <2>2. QED
    BY <1>3, <1>14, <2>1, MarkGood
<1>17. CASE IsRead(i)
  <2>1. K[c] = j
    <3>1. Sound(left.bd, left.itc)
      BY <1>14 DEF Good
    <3>2. K[c] = Marked(left.itc[c], p, WAIT_DISK)
      BY SMT, <1>3, <3>1, MarkIs
    <3>3. QED
      BY <1>7, <1>15, <3>2 DEF Marked, Arrived, Waits
  <2> HIDE DEF K
  <2>2. Open(left.bd, K, p)
    BY <1>7, <1>17, <2>1, <1>3, <1>16, ReaderOpens DEF Arrived
  <2>3. QED
    BY <1>3, <1>17, <2>2, page_release_readGood, <1>2
<1>18. CASE ~IsRead(i)
  <2>1. released = [bd |-> left.bd, itc |-> K]
    BY <1>18
  <2> HIDE DEF released, K
  <2>2. QED
    BY <2>1, PairIs, <1>2, <1>16
<1>19. QED
  BY <1>17, <1>18

==============================================================================
