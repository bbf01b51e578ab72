------------------------------- MODULE PageGate -------------------------------
(***************************************************************************)
(* The page gate of an index tree (libsrc/Wi/gate.c): how cursors get read *)
(* or write access to the buffers of pages, wait for it, hand it over,     *)
(* upgrade it, and what they are told of the changes made meanwhile.       *)
(*                                                                         *)
(* A step is one section inside the page map mutexes, or one that only     *)
(* touches the cursor's own fields. The tree is a root and its leaves.     *)
(***************************************************************************)
EXTENDS Naturals, FiniteSets, Sequences

CONSTANTS
    Cursor,     \* it_cursor_t, each with a thread of its own
    Root,       \* the root page of the tree
    Leaf,       \* the pages BUF_SEEMS_LEAF holds for
    DiveMode,   \* values of itc_dive_mode searches start with
    Change,     \* what writers do to a page before they leave it
    NoPage

Page == {Root} \cup Leaf

ASSUME PagesApart == Root \notin Leaf /\ NoPage \notin Page
ASSUME CursorsFinite == IsFiniteSet(Cursor)
ASSUME ModesAndChanges == DiveMode \subseteq {"READ", "WRITE", "READ_ONLY"} /\ Change \subseteq 4 .. 6

VARIABLES
    bd,     \* by page, its buffer_desc_t
    itc     \* by cursor, its it_cursor_t and the state of its thread

vars == <<bd, itc>>

-----------------------------------------------------------------------------
(* RWG_*: what a waiter accepts and what happened while it waited. *)

NO_ENTRY_IF_WAIT == 0
NO_WAIT == 1
WAIT_NO_CHANGE == 2
WAIT_DISK == 3
WAIT_DATA == 4
WAIT_KEY == 5
WAIT_SPLIT == 6
WAIT_ANY == 8

Max(a, b) == IF a > b THEN a ELSE b

(* The calls of page_wait_access, by the function that makes them; landing waits like one. *)
Call == {"reset", "dive", "pl_enter", "down", "up", "parent", "link", "land"}

MaxChange(fn) ==
    CASE fn \in {"reset", "dive", "pl_enter"} -> WAIT_KEY
      [] fn = "down" -> NO_WAIT
      [] fn = "up" -> NO_ENTRY_IF_WAIT
      [] fn \in {"parent", "land"} -> WAIT_DATA
      [] fn = "link" -> WAIT_ANY

(* ITC_DIVE_PA while diving, ITC_LANDED_PA after landing. *)
WantsRead(i) == IF i.landed THEN i.dive = "READ_ONLY" ELSE i.dive # "WRITE"

(* Mode of the call fn; it is also that of the access it ends with. *)
IsRead(i) == i.fn # "land" /\ WantsRead(i)

(* pc: "out" of all pages, "in" some, about to "call" page_wait_access, in the disk "read", *)
(* "wait"ing in a queue, or "woken"; holds: the pages the thread takes itself to be inside. *)
Idle == [pc |-> "out", fn |-> "none", to |-> NoPage, from |-> NoPage, dive |-> "READ",
         landed |-> FALSE, reg |-> FALSE, page |-> NoPage, holds |-> {},
         decoy |-> FALSE, to_reset |-> NO_WAIT, entered |-> NoPage, changed |-> NO_WAIT]

Free == [state |-> "here", readers |-> 0, is_write |-> FALSE, write_waiting |-> <<>>, read_waiting |-> <<>>]

Absent == [Free EXCEPT !.state = "absent"]

Init == /\ bd \in [Page -> {Free, Absent}]
        /\ itc = [c \in Cursor |-> Idle]

-----------------------------------------------------------------------------
(* Releasing a page. *)

Fits(i) == i.to_reset <= MaxChange(i.fn)

FirstFit(I, q) == CHOOSE k \in 1 .. Len(q) + 1 :
                    /\ k <= Len(q) => Fits(I[q[k]])
                    /\ \A j \in 1 .. k - 1 : ~Fits(I[q[j]])

Elems(q) == {q[k] : k \in DOMAIN q}

(* A waiter is signalled, inside p or without entry. *)
Enters(i, p) == [i EXCEPT !.pc = "woken", !.entered = p]
Refused(i) == [i EXCEPT !.pc = "woken", !.entered = NoPage,
                        !.to_reset = IF i.fn = "up" THEN NO_ENTRY_IF_WAIT ELSE @]
Woken(I, p, in, out) == [c \in Cursor |-> IF c \in in THEN Enters(I[c], p)
                                          ELSE IF c \in out THEN Refused(I[c]) ELSE I[c]]

(* itc_adaptive_read_inc: alone on a leaf, a diving reader enters as writer. *)
AdaptiveWrite(b, i, p) == i.dive = "READ" /\ b.readers = 0 /\ p \in Leaf

(* page_release_read: the queue is let in until one of it becomes a writer. *)
page_release_read(B, I, p) ==
    LET b == B[p]
        q == b.read_waiting
        k == FirstFit(I, q)
        in == {c \in Elems(q) : Fits(I[c])}
    IN IF k <= Len(q) /\ AdaptiveWrite(b, I[q[k]], p)
       THEN [bd |-> [B EXCEPT ![p].read_waiting = SubSeq(q, k + 1, Len(q)), ![p].is_write = TRUE],
             itc |-> [Woken(I, p, {q[k]}, {q[j] : j \in 1 .. k - 1}) EXCEPT ![q[k]].dive = "WRITE"]]
       ELSE [bd |-> [B EXCEPT ![p].read_waiting = <<>>, ![p].readers = @ + Cardinality(in)],
             itc |-> Woken(I, p, in, Elems(q) \ in)]

(* Variant: readers are not let in when the waiting writers were all refused. *)
ReleaseForgetsReaders(B, I, p) ==
    LET q == B[p].write_waiting
        k == FirstFit(I, q)
        J == Woken(I, p, {q[j] : j \in {k} \cap DOMAIN q}, {q[j] : j \in 1 .. k - 1})
    IN IF q # <<>>
       THEN [bd |-> [B EXCEPT ![p].write_waiting = SubSeq(q, k + 1, Len(q)), ![p].is_write = k <= Len(q)],
             itc |-> J]
       ELSE page_release_read(B, J, p)

(* page_release_writes: the first writer that fits gets the page; if there is none, readers do. *)
ReleaseWaiting(B, I, p) ==
    LET q == B[p].write_waiting
        k == FirstFit(I, q)
        J == Woken(I, p, {q[j] : j \in {k} \cap DOMAIN q}, {q[j] : j \in 1 .. k - 1})
    IN IF k <= Len(q)
       THEN [bd |-> [B EXCEPT ![p].write_waiting = SubSeq(q, k + 1, Len(q)), ![p].is_write = TRUE],
             itc |-> J]
       ELSE page_release_read([B EXCEPT ![p].write_waiting = <<>>], J, p)

(* Variant: a writer leaves as if it were a reader. *)
LeaveAsReader(B, I, p) ==
    IF B[p].readers # 1
    THEN [bd |-> [B EXCEPT ![p].readers = @ - 1], itc |-> I]
    ELSE ReleaseWaiting([B EXCEPT ![p].readers = 0, ![p].is_write = FALSE], I, p)

page_leave_inner(B, I, p) ==
    IF B[p].readers > 1
    THEN [bd |-> [B EXCEPT ![p].readers = @ - 1], itc |-> I]
    ELSE ReleaseWaiting([B EXCEPT ![p].readers = 0, ![p].is_write = FALSE], I, p)

Queued(b) == Elems(b.write_waiting) \cup Elems(b.read_waiting)

(* Variant: only the write queue is told of the change. *)
MarkWritersOnly(B, I, p, change) ==
    [c \in Cursor |->
       LET i == I[c]
           j == IF c \in Elems(B[p].write_waiting) THEN [i EXCEPT !.to_reset = Max(@, change)] ELSE i
       IN IF i.pc = "wait" /\ i.to = p THEN [j EXCEPT !.changed = Max(@, change)] ELSE j]

(* page_mark_change; "changed" records for the properties what every cursor waiting for p missed. *)
page_mark_change(B, I, p, change) ==
    [c \in Cursor |->
       LET i == I[c]
           j == IF c \in Queued(B[p]) THEN [i EXCEPT !.to_reset = Max(@, change)] ELSE i
       IN IF i.pc = "wait" /\ i.to = p THEN [j EXCEPT !.changed = Max(@, change)] ELSE j]

(* The cursor leaves the page "from" of a transit, if it has one. *)
LeaveFrom(B, I, c, from) ==
    IF from = NoPage THEN [bd |-> B, itc |-> I]
    ELSE page_leave_inner(B, [I EXCEPT ![c].holds = @ \ {from}], from)

(* The call is over: nothing of it stays with the cursor. *)
Over(i, pc) == [i EXCEPT !.pc = pc, !.fn = "none", !.to = NoPage, !.from = NoPage, !.decoy = FALSE,
                         !.to_reset = NO_WAIT, !.entered = NoPage, !.changed = NO_WAIT]

(* What a function does with the page it asked for, once inside. *)
Inside(i, p) ==
    [Over(i, "in") EXCEPT !.holds = @ \cup {p},
                          !.page = IF i.fn \in {"pl_enter", "parent", "link"} THEN @ ELSE p,
                          !.reg = FALSE,
                          !.landed = @ \/ i.fn = "land"]

-----------------------------------------------------------------------------
(* page_wait_access, for a cursor i that wants p and comes from i.from. *)

(* No buffer: a decoy takes its place and the thread reads the page from disk. *)
StartRead(c, i, p) ==
    /\ bd[p].state = "absent"
    /\ bd' = [bd EXCEPT ![p] = [Free EXCEPT !.state = "decoy", !.is_write = ~IsRead(i),
                                            !.readers = IF IsRead(i) THEN 1 ELSE 0]]
    /\ itc' = [itc EXCEPT ![c] = [i EXCEPT !.pc = "read", !.to = p]]

(* Variant: readers overtake waiting writers. *)
AvailableToReaders(i, b) == ~b.is_write /\ (IsRead(i) \/ b.readers = 0)

Available(i, b) == IF IsRead(i) THEN ~b.is_write /\ b.write_waiting = <<>>
                                ELSE ~b.is_write /\ b.readers = 0

(* The buffer is there and free for the mode wanted. *)
EnterFree(c, i, p) ==
    LET b == bd[p]
        adaptive == i.fn = "dive" /\ b.read_waiting = <<>> /\ AdaptiveWrite(b, i, p)
        write == adaptive \/ ~IsRead(i)
        in == [Inside(i, p) EXCEPT !.dive = IF adaptive THEN "WRITE" ELSE @]
        left == LeaveFrom([bd EXCEPT ![p].is_write = write, ![p].readers = IF write THEN 0 ELSE @ + 1],
                          [itc EXCEPT ![c] = in], c, i.from)
    IN /\ b.state = "here" /\ Available(i, b)
       /\ bd' = left.bd /\ itc' = left.itc

(* A read-read wait on a decoy is not registered and leaves no trace in to_reset. *)
Cheats(i, b) == b.state = "decoy" /\ IsRead(i) /\ ~i.landed /\ Available(i, b)

(* Variant: a landed cursor stays on its page while it waits for the next one down. *)
KeepsSourceLanded(i) == i.landed

KeepsSource(i) == MaxChange(i.fn) = NO_ENTRY_IF_WAIT

(* The cursor is queued and leaves the page it comes from, registered there if it has landed. *)
Wait(c, i, p) ==
    LET b == bd[p]
        registers == i.landed /\ i.from # NoPage /\ ~KeepsSource(i)
        unmarked == Cheats(i, b) \/ (b.state = "here" /\ IsRead(i) /\ ~registers)
        w == [i EXCEPT !.pc = "wait", !.to = p, !.decoy = b.state = "decoy", !.reg = @ \/ registers,
                       !.to_reset = IF unmarked THEN NO_WAIT ELSE WAIT_NO_CHANGE]
        B == IF IsRead(i) THEN [bd EXCEPT ![p].read_waiting = <<c>> \o @]
                          ELSE [bd EXCEPT ![p].write_waiting = Append(@, c)]
        left == LeaveFrom(B, [itc EXCEPT ![c] = w], c, IF KeepsSource(i) THEN NoPage ELSE i.from)
    IN /\ b.state = "decoy" \/ (b.state = "here" /\ ~Available(i, b))
       /\ bd' = left.bd /\ itc' = left.itc

(* pl_enter reads its target from the registration, which others may move. *)
Target(i) == IF i.fn = "pl_enter" THEN i.page ELSE i.to

page_wait_access(c) ==
    LET i == itc[c]
        p == Target(i)
    IN /\ i.pc = "call"
       /\ StartRead(c, i, p) \/ EnterFree(c, i, p) \/ Wait(c, i, p)

(* The end of the disk read: the buffer replaces the decoy and inherits its queues. *)
ReadDone(c) ==
    LET i == itc[c]
        p == i.to
        left == LeaveFrom([bd EXCEPT ![p].state = "here"], [itc EXCEPT ![c] = Inside(i, p)], c, i.from)
        J == page_mark_change(left.bd, left.itc, p, WAIT_DISK)
        released == IF IsRead(i) THEN page_release_read(left.bd, J, p) ELSE [bd |-> left.bd, itc |-> J]
    IN /\ i.pc = "read"
       /\ bd' = released.bd /\ itc' = released.itc

-----------------------------------------------------------------------------
(* The thread goes on after its wait. *)

(* Whether it finds itself inside: by itc_buf_entered after a decoy, by itc_to_reset otherwise. *)
FindsItselfIn(i) ==
    IF i.decoy THEN i.entered # NoPage
    ELSE i.to_reset <= MaxChange(i.fn) /\ i.to_reset # NO_ENTRY_IF_WAIT

(* Kept out: a dive or a landing starts the search again, a landed cursor going down *)
(* reenters the page it was registered on, the others repeat their call. *)
KeptOut(i) ==
    IF i.fn \in {"dive", "land"} THEN [Over(i, "out") EXCEPT !.landed = FALSE, !.page = NoPage]
    ELSE [Over(i, "call") EXCEPT !.fn = IF i.fn = "down" THEN "pl_enter" ELSE i.fn,
                                 !.to = IF i.fn \in {"down", "pl_enter"} THEN NoPage ELSE i.to,
                                 !.from = IF i.fn = "down" THEN NoPage ELSE i.from]

(* pl_enter looks again where the cursor is registered, and leaves a page it is not on any more. *)
Moved(i) == i.fn = "pl_enter" /\ i.page # i.to

GoOn(c) ==
    LET i == itc[c]
        left == page_leave_inner(bd, [itc EXCEPT ![c] = KeptOut(i)], i.to)
    IN /\ i.pc = "woken"
       /\ IF FindsItselfIn(i) /\ Moved(i) THEN bd' = left.bd /\ itc' = left.itc
          ELSE /\ itc' = [itc EXCEPT ![c] = IF FindsItselfIn(i) THEN Inside(i, i.to) ELSE KeptOut(i)]
               /\ UNCHANGED bd

-----------------------------------------------------------------------------
(* What cursors do. *)

Calls(c, i, fn, to, from) ==
    /\ itc' = [itc EXCEPT ![c] = [i EXCEPT !.pc = "call", !.fn = fn, !.to = to, !.from = from]]
    /\ UNCHANGED bd

StandsOn(c, p) == itc[c].pc = "in" /\ itc[c].holds = {p}
Writes(c) == ~WantsRead(itc[c])
Exists(p) == bd[p].state # "deleted"

itc_reset(c, dive) ==
    /\ itc[c].pc = "out" /\ ~itc[c].reg
    /\ Calls(c, [itc[c] EXCEPT !.dive = dive], "reset", Root, NoPage)

itc_dive_transit(c, p) ==
    /\ StandsOn(c, Root) /\ ~itc[c].landed /\ Exists(p)
    /\ Calls(c, itc[c], "dive", p, Root)

itc_landed_down_transit(c, p) ==
    /\ StandsOn(c, Root) /\ itc[c].landed /\ Exists(p)
    /\ Calls(c, itc[c], "down", p, Root)

itc_up_transit(c, p) ==
    /\ StandsOn(c, p) /\ itc[c].landed
    /\ Calls(c, itc[c], "up", Root, p)

itc_write_parent(c, p) ==
    /\ StandsOn(c, p) /\ itc[c].landed /\ Writes(c)
    /\ Calls(c, itc[c], "parent", Root, NoPage)

page_reenter_excl(c) ==
    /\ itc[c].pc = "out" /\ itc[c].reg
    /\ Calls(c, itc[c], "pl_enter", NoPage, NoPage)

(* A child that is in memory is changed inside its map; one being read is waited for in a loop. *)
itc_set_parent_link(c, p) ==
    /\ StandsOn(c, Root) /\ itc[c].landed /\ Writes(c)
    /\ StartRead(c, [itc[c] EXCEPT !.fn = "link"], p)

(* Variant: other readers are not looked for. *)
LandAmongReaders(c, p) ==
    /\ StandsOn(c, p) /\ ~itc[c].landed
    /\ bd' = [bd EXCEPT ![p].readers = IF itc[c].dive = "READ" THEN 0 ELSE @,
                        ![p].is_write = @ \/ itc[c].dive = "READ"]
    /\ itc' = [itc EXCEPT ![c].landed = TRUE]

(* Landing: a diving reader becomes a writer at once, or queues for it when there are other readers. *)
LandAtOnce(c, p) ==
    /\ StandsOn(c, p) /\ ~itc[c].landed
    /\ itc[c].dive = "READ" => bd[p].readers = 1
    /\ bd' = [bd EXCEPT ![p].readers = IF itc[c].dive = "READ" THEN 0 ELSE @,
                        ![p].is_write = @ \/ itc[c].dive = "READ"]
    /\ itc' = [itc EXCEPT ![c].landed = TRUE]

LandLater(c, p) ==
    /\ StandsOn(c, p) /\ ~itc[c].landed /\ itc[c].dive = "READ" /\ bd[p].readers > 1
    /\ bd' = [bd EXCEPT ![p].readers = @ - 1, ![p].write_waiting = Append(@, c)]
    /\ itc' = [itc EXCEPT ![c] = [@ EXCEPT !.pc = "wait", !.fn = "land", !.to = p, !.holds = {}]]

itc_try_land(c, p) == LandAtOnce(c, p) \/ LandLater(c, p)

(* Leaving, after changes of the given kind; registered, to come back, or for good. Who has a leaf *)
(* and the root leaves the leaf, or goes on with it if that is where it stands. *)
Leave(c, p, change, reg) ==
    LET i == itc[c]
        last == i.holds = {p}
        I == [itc EXCEPT ![c] =
                IF ~last THEN [i EXCEPT !.holds = @ \ {p}, !.page = IF p = Root THEN @ ELSE Root]
                ELSE IF reg THEN [i EXCEPT !.pc = "out", !.holds = {}, !.reg = TRUE]
                ELSE Idle]
        left == page_leave_inner(bd, page_mark_change(bd, I, p, change), p)
    IN /\ i.pc = "in" /\ p \in i.holds
       /\ p = Root => last \/ i.page # Root
       /\ reg => last /\ i.landed
       /\ change # NO_WAIT => Writes(c)
       /\ bd' = left.bd /\ itc' = left.itc

(* A leaf is deleted with its parent held: first the cursors registered on it move to the parent... *)
pg_delete_move_cursors(c, p) ==
    /\ itc[c].pc = "in" /\ itc[c].holds = {p, Root} /\ itc[c].page = p
    /\ itc' = [d \in Cursor |-> IF d = c THEN [itc[d] EXCEPT !.pc = "free"]
                                ELSE IF itc[d].reg /\ itc[d].page = p THEN [itc[d] EXCEPT !.page = Root]
                                ELSE itc[d]]
    /\ UNCHANGED bd

(* Variant: the waiting cursors are told of a change of keys only. *)
FreeMarksKey(c) ==
    LET p == itc[c].page
        B == [bd EXCEPT ![p].state = "deleted"]
        I == [itc EXCEPT ![c] = [@ EXCEPT !.pc = "in", !.holds = {Root}, !.page = Root]]
        left == page_leave_inner(B, page_mark_change(B, I, p, WAIT_KEY), p)
    IN /\ itc[c].pc = "free"
       /\ bd' = left.bd /\ itc' = left.itc

(* ... then the page is freed and left as deleted. *)
it_free_page(c) ==
    LET p == itc[c].page
        B == [bd EXCEPT ![p].state = "deleted"]
        I == [itc EXCEPT ![c] = [@ EXCEPT !.pc = "in", !.holds = {Root}, !.page = Root]]
        left == page_leave_inner(B, page_mark_change(B, I, p, WAIT_ANY + 1), p)
    IN /\ itc[c].pc = "free"
       /\ bd' = left.bd /\ itc' = left.itc

(* itc_unregister of a page nobody is in; otherwise it is reentered. *)
itc_unregister(c) ==
    LET b == bd[itc[c].page]
    IN /\ itc[c].pc = "out" /\ itc[c].reg
       /\ ~b.is_write /\ b.readers = 0
       /\ itc' = [itc EXCEPT ![c] = Idle]
       /\ UNCHANGED bd

(* bp_found: the buffer of a page nobody uses, waits for or is registered on is taken away. *)
bp_found(p) ==
    /\ bd[p] = Free
    /\ \A c \in Cursor : ~(itc[c].reg /\ itc[c].page = p)
    /\ bd' = [bd EXCEPT ![p] = Absent]
    /\ UNCHANGED itc

Step(c) ==
    \/ page_wait_access(c)
    \/ ReadDone(c)
    \/ GoOn(c)
    \/ it_free_page(c)

Search(c) ==
    \/ \E d \in DiveMode : itc_reset(c, d)
    \/ page_reenter_excl(c)
    \/ itc_unregister(c)
    \/ \E p \in Leaf : \/ itc_dive_transit(c, p)
                       \/ itc_landed_down_transit(c, p)
                       \/ itc_up_transit(c, p)
                       \/ itc_write_parent(c, p)
                       \/ itc_set_parent_link(c, p)
                       \/ itc_try_land(c, p)
                       \/ pg_delete_move_cursors(c, p)

LeavePage(c, p) == \E change \in {NO_WAIT} \cup Change, reg \in BOOLEAN : Leave(c, p, change, reg)

Next == \/ \E c \in Cursor : Step(c) \/ Search(c) \/ \E p \in Page : LeavePage(c, p)
        \/ \E p \in Page : bp_found(p)

Spec == Init /\ [][Next]_vars

(* Threads run, disk reads end, and a cursor that comes back to a page time and again leaves it. *)
Fairness == \A c \in Cursor : /\ WF_vars(Step(c))
                              /\ \A p \in Page : SF_vars(LeavePage(c, p))

FairSpec == Spec /\ Fairness
-----------------------------------------------------------------------------
(* Properties *)

(* The cursors a page counts: those that take themselves to be inside, the disk reader, *)
(* and those a release has let in that have not run since. *)
Members(p) == {c \in Cursor : \/ p \in itc[c].holds
                              \/ itc[c].pc = "read" /\ itc[c].to = p
                              \/ itc[c].pc = "woken" /\ itc[c].entered = p}

HasWrite(c, p) == IF p \in itc[c].holds THEN Writes(c) ELSE ~IsRead(itc[c])

(* The fields of buffers and cursors range over what the C fields can hold. *)
TypeOK ==
    /\ \A p \in Page : /\ bd[p].state \in {"here", "absent", "decoy", "deleted"}
                       /\ bd[p].readers \in 0 .. Cardinality(Cursor)
                       /\ bd[p].is_write \in BOOLEAN
                       /\ Queued(bd[p]) \subseteq Cursor
    /\ \A c \in Cursor : /\ itc[c].pc \in {"out", "in", "call", "read", "wait", "woken", "free"}
                         /\ itc[c].fn \in Call \cup {"none"}
                         /\ itc[c].holds \subseteq Page
                         /\ itc[c].to_reset \in 0 .. 9

(* bd_readers and bd_is_write tell exactly who is inside: a writer is alone, through upgrades, *)
(* adaptive landing, hand-over and disk reads, and every thread knows whether it got in. *)
GateCounts ==
    \A p \in Page :
        /\ bd[p].readers = Cardinality({c \in Members(p) : ~HasWrite(c, p)})
        /\ bd[p].is_write <=> \E c \in Members(p) : HasWrite(c, p)
        /\ bd[p].is_write => Cardinality(Members(p)) = 1

(* No wakeup is lost: a cursor waits in exactly one queue, of a page somebody is inside. *)
WaitersAwaited ==
    /\ \A p \in Page : Queued(bd[p]) = {c \in Cursor : itc[c].pc = "wait" /\ itc[c].to = p}
    /\ \A p \in Page : Queued(bd[p]) # {} => Members(p) # {}

(* A cursor that waited enters only if the page changed no more meanwhile than the *)
(* caller of page_wait_access said it can bear, and a registered one only where its *)
(* registration says: pl_enter reenters no page its row has moved away from. *)
EntersUnchanged ==
    \A c \in Cursor :
        itc[c].pc = "woken" /\ itc[c].entered # NoPage =>
            /\ itc[c].changed <= MaxChange(itc[c].fn)
            /\ itc[c].fn = "pl_enter" => itc[c].entered = itc[c].page

(* Nobody is inside a page that was left as deleted, and nobody is on the way to one: *)
(* the GPF_T1 of page_leave_as_deleted and "Reference to page with free remap" do not happen. *)
DeletedLeft ==
    \A p \in Page : ~Exists(p) => /\ Members(p) = {} /\ Queued(bd[p]) = {}
                                  /\ \A c \in Cursor : itc[c].pc = "call" => Target(itc[c]) # p

(* Page waits cannot deadlock: in no set of waiting cursors does each wait for a page *)
(* that only members of the set are inside. *)
NoDeadlock ==
    \A S \in SUBSET {c \in Cursor : itc[c].pc = "wait"} :
        S # {} => \E c \in S : ~(Members(itc[c].to) \subseteq S)

(* A wait for write access ends: later readers and writers do not overtake it for ever. *)
WriteWaitsEnd ==
    \A c \in Cursor : itc[c].pc = "wait" /\ ~IsRead(itc[c]) ~> itc[c].pc # "wait"
=============================================================================
