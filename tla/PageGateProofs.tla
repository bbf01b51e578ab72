--------------------------- MODULE PageGateProofs ---------------------------
(***************************************************************************)
(* The safety invariants of module PageGate, for every finite set of       *)
(* cursors and every set of leaves.                                        *)
(***************************************************************************)
EXTENDS PageGateSteps

\* Zenon proves the leaves that name no other prover.
USE Zenon

-----------------------------------------------------------------------------
(* GoOn *)

LEMMA RootStays ==
  ASSUME NEW B, NEW I, Sound(B, I)
  PROVE  /\ Root \in Page /\ B[Root].state # "deleted"
         /\ \A d \in Cursor : I[d].pc = "free" => I[d].page # Root
<1>1. \A d \in Cursor : I[d].pc = "free" => I[d].page # Root
  BY ZenonT(60), PagesApart DEF Sound, Place, FreeFits
<1>2. QED
  BY PagesApart, <1>1 DEF Sound, Page

\* A cursor that was let in.
LEMMA GoesIn ==
  ASSUME NEW i \in Itc, Place(i), i.pc = "woken", FindsItselfIn(i),
         \A q \in Page : i.fn = "pl_enter" /\ i.page # q => ~IsIn(i, q)
  PROVE  LET j == Inside(i, i.to)
         IN j \in Itc /\ Place(j) /\ j.pc = "in" /\ ~j.reg /\ \A q \in Page : Alike(i, j, q)
<1> DEFINE p == i.to
           j == Inside(i, p)
<1>1. CallFits(i) /\ WokenFits(i)
  BY DEF Place
<1>2. i.entered = p /\ p # NoPage /\ p \in Page
  BY <1>1 DEF WokenFits, Itc
<1>3. i.fn # "up"
  BY SMT, <1>1, <1>2 DEF WokenFits, MaxChange, NO_ENTRY_IF_WAIT, NO_WAIT, Itc
<1>4. IsIn(i, p)
  BY <1>2 DEF IsIn
<1>5. i.from \notin i.holds \cup {p} /\ NoPage \notin i.holds \cup {p}
  BY <1>1, <1>2, <1>3, PagesApart DEF CallFits, Calling, Page, Itc
<1>6. Entered(i, j, p, i.dive, i.from) /\ j \in Itc
  <2>1. i.dive \in {"READ", "WRITE", "READ_ONLY"}
    BY DEF Itc
  <2> HIDE DEF p
  <2>2. /\ j \in Itc /\ j.dive = i.dive
        /\ Entered(i, [[j EXCEPT !.dive = i.dive] EXCEPT !.holds = @ \ {NoPage}], p, i.dive, NoPage)
    BY <1>2, <2>1, InsideEntered
  <2> HIDE DEF j
  <2>3. [j EXCEPT !.dive = i.dive] = j
    BY <2>2 DEF Itc
  <2>4. [j EXCEPT !.holds = @ \ {NoPage}] = j
    BY <2>2, PagesApart, HoldsSame DEF Itc
  <2>5. (i.holds \cup {p}) \ {NoPage} = (i.holds \cup {p}) \ {i.from}
    BY <1>5
  <2>6. QED
    BY <2>2, <2>3, <2>4, <2>5 DEF Entered
<1> HIDE DEF j
<1>7. Arrived(i, j, p, i.dive, i.from) /\ p \notin i.holds
  BY <1>2, <1>3, <1>4, <1>6, ArrivesArrived DEF Arrives
<1>8. \A q \in Page : Alike(i, j, q)
  <2> TAKE q \in Page
  <2>1. CASE q = p
    BY <1>7, <1>4, <2>1 DEF Arrived, IsWriter, Alike, Waits
  <2>2. CASE q = i.from /\ q # p
    BY <1>2, <1>5, <2>2, <1>7 DEF IsIn, Arrived, Alike, Waits
  <2>3. CASE q # i.from /\ q # p
    BY <1>7, <2>3 DEF Arrived
  <2>4. QED
    BY <2>1, <2>2, <2>3
<1>9. QED
  BY <1>7, <1>8 DEF Arrived, j

\* One that was kept out.
StaysOut(i, j) ==
    /\ j \in Itc /\ Place(j) /\ j.pc \in {"out", "call"} /\ j.reg = i.reg
    /\ j.reg => j.page = i.page
    /\ j.pc = "call" => Target(j) = Root \/ (j.reg /\ Target(j) = j.page)
    /\ \A q \in Page : Alike(i, j, q)

LEMMA KeptOutStaysOut ==
  ASSUME NEW i \in Itc, Place(i), i.pc = "woken", ~FindsItselfIn(i)
  PROVE  StaysOut(i, KeptOut(i))
<1>1. CallFits(i) /\ i.entered = NoPage
  BY DEF Place, WokenFits
<1>2. CASE i.fn \in {"dive", "land"}
  <2>1. PICK o : o = Over(i, "out")
    OBVIOUS
  <2>2. /\ o \in Itc /\ o.pc = "out" /\ Quiet(o) /\ o.reg = i.reg /\ o.holds = i.holds
    BY <2>1, OverEnded DEF Ended, Places
  <2>3. PICK j : j = [o EXCEPT !.landed = FALSE, !.page = NoPage]
    OBVIOUS
  <2>4. /\ j \in Itc /\ j.pc = o.pc /\ j.reg = o.reg /\ j.holds = o.holds /\ ~j.landed /\ j.fn = o.fn /\ j.to = o.to
        /\ j.from = o.from /\ j.decoy = o.decoy /\ j.to_reset = o.to_reset /\ j.entered = o.entered
        /\ j.changed = o.changed
    BY <2>2, <2>3 DEF Itc
  <2>5. i.holds = {} /\ ~i.reg
    BY <1>1, <1>2 DEF CallFits, Calling
  <2>6. StaysOut(i, j)
    BY <1>1, <2>2, <2>4, <2>5, PagesApart DEF StaysOut, Place, OutFits, Quiet, Unwaited, IsIn, Waits, Alike
  <2>7. QED
    BY <1>2, <2>1, <2>3, <2>6 DEF KeptOut
<1>3. CASE i.fn \notin {"dive", "land"}
  <2>1. PICK o : o = Over(i, "call")
    OBVIOUS
  <2>2. /\ o \in Itc /\ o.pc = "call" /\ Quiet(o) /\ o.reg = i.reg /\ o.holds = i.holds
        /\ o.dive = i.dive /\ o.landed = i.landed /\ o.page = i.page
    BY <2>1, OverEnded DEF Ended, Places
  <2>3. PICK g : g = IF i.fn = "down" THEN "pl_enter" ELSE i.fn
    OBVIOUS
  <2>4. PICK t : t = IF i.fn \in {"down", "pl_enter"} THEN NoPage ELSE i.to
    OBVIOUS
  <2>5. PICK f : f = IF i.fn = "down" THEN NoPage ELSE i.from
    OBVIOUS
  <2>6. PICK j : j = [o EXCEPT !.fn = g, !.to = t, !.from = f]
    OBVIOUS
  <2>7. g \in Call \cup {"none"} /\ t \in Page \cup {NoPage} /\ f \in Page \cup {NoPage}
    BY <2>3, <2>4, <2>5 DEF Itc, Call
  <2>8. /\ j \in Itc /\ j.pc = o.pc /\ j.reg = o.reg /\ j.holds = o.holds /\ j.landed = o.landed /\ j.dive = o.dive
        /\ j.page = o.page /\ j.fn = g /\ j.to = t
        /\ j.from = f /\ j.decoy = o.decoy /\ j.to_reset = o.to_reset /\ j.entered = o.entered
        /\ j.changed = o.changed
    BY <2>2, <2>6, <2>7 DEF Itc
  <2>9. WantsRead(j) <=> WantsRead(i)
    BY <2>2, <2>8 DEF WantsRead
  <2>10. CallFits(j)
    <3>1. CASE i.fn \in {"down", "pl_enter"}
      BY <1>1, <2>2, <2>3, <2>4, <2>5, <2>8, <3>1 DEF CallFits, Calling, Page
    <3>2. CASE i.fn \notin {"down", "pl_enter"}
      BY SMTT(30), <1>1, <1>3, <2>2, <2>3, <2>4, <2>5, <2>8, <2>9, <3>2 DEF CallFits, Calling
    <3>3. QED
      BY <3>1, <3>2
  <2>11. \A q \in Page : Alike(i, j, q)
    BY <1>1, <2>2, <2>8, PagesApart, <2>9, <2>3 DEF IsIn, Waits, IsWriter, CallFits, Calling, Alike
  <2>12. StaysOut(i, j)
    BY <1>1, <1>3, <2>2, <2>3, <2>8, <2>10, <2>11 DEF StaysOut, Place, Quiet, Unwaited, CallFits, Calling, Target
  <2>13. QED
    BY <1>3, <2>1, <2>3, <2>4, <2>5, <2>6, <2>12 DEF KeptOut
<1>4. QED
  BY <1>2, <1>3

LEMMA GoOnGood ==
  ASSUME Good(bd, itc), NEW c \in Cursor, GoOn(c)
  PROVE  Good(bd, itc)'
<1> DEFINE i == itc[c]
<1>1. /\ Sound(bd, itc) /\ itc \in [Cursor -> Itc] /\ Place(i) /\ i \in Itc /\ i.pc = "woken" /\ bd' = bd
      /\ itc' = [itc EXCEPT ![c] = IF FindsItselfIn(i) THEN Inside(i, i.to) ELSE KeptOut(i)]
  <2>1. Sound(bd, itc) /\ itc \in [Cursor -> Itc] /\ Place(i) /\ i \in Itc /\ i.pc = "woken"
    BY DEF Good, Sound, Types, GoOn
  <2>2. ~(FindsItselfIn(i) /\ Moved(i))
    <3>1. SUFFICES ASSUME FindsItselfIn(i), Moved(i) PROVE FALSE
      OBVIOUS
    <3>2. i.entered = i.to /\ i.entered # NoPage /\ i.to \in Page
      BY <2>1, <3>1 DEF Place, WokenFits, Itc
    <3>3. IsIn(i, i.to)
      BY <2>1, <3>2 DEF IsIn
    <3>4. QED
      BY <3>1, <3>2, <3>3 DEF Good, Counted, Follows, Moved
  <2>3. QED
    BY <2>1, <2>2 DEF GoOn
<1>2. CASE FindsItselfIn(i)
  <2>1. PICK j : j = Inside(i, i.to)
    OBVIOUS
  <2>2. j \in Itc /\ Place(j) /\ j.pc = "in" /\ ~j.reg /\ \A q \in Page : Alike(i, j, q)
    BY <1>1, <1>2, <2>1, GoesIn DEF Good, Counted, Follows
  <2>3. Good(bd, [itc EXCEPT ![c] = j])
    BY <1>1, <2>2, TurnAlone
  <2>4. QED
    BY <1>1, <1>2, <2>1, <2>3
<1>3. CASE ~FindsItselfIn(i)
  <2>1. PICK j : j = KeptOut(i)
    OBVIOUS
  <2>2. StaysOut(i, j)
    BY <1>1, <1>3, <2>1, KeptOutStaysOut
  <2>3. j.reg => bd[j.page].state # "deleted" /\ \A d \in Cursor : itc[d].pc = "free" => itc[d].page # j.page
    BY <1>1, <2>2, StaysRegistered DEF StaysOut
  <2>4. Good(bd, [itc EXCEPT ![c] = j])
    BY <1>1, <2>2, <2>3, RootStays, TurnAlone DEF StaysOut
  <2>5. QED
    BY <1>1, <1>3, <2>1, <2>4
<1>4. QED
  BY <1>2, <1>3

-----------------------------------------------------------------------------
(* The calls of page_wait_access *)

\* j is i about to call page_wait_access from fn, with the mode d.
Asks(i, j, fn, to, from, d) ==
    /\ j \in Itc /\ j.pc = "call" /\ j.fn = fn /\ j.to = to /\ j.from = from /\ j.dive = d
    /\ j.landed = i.landed /\ j.reg = i.reg /\ j.page = i.page /\ j.holds = i.holds /\ Unwaited(j)

LEMMA AsksGood ==
  ASSUME Good(bd, itc), NEW c \in Cursor, itc[c].pc \in {"out", "in"}, NEW j, NEW fn, NEW to, NEW from, NEW d,
         Asks(itc[c], j, fn, to, from, d), CallFits(j), d = itc[c].dive \/ itc[c].holds = {},
         j.fn # "pl_enter" => bd[to].state # "deleted",
         bd' = bd, itc' = [itc EXCEPT ![c] = j]
  PROVE  Good(bd, itc)'
<1> DEFINE i == itc[c]
<1>1. Sound(bd, itc) /\ Place(i) /\ i \in Itc
  BY DEF Good, Sound, Types
<1>2. Quiet(i) /\ (i.pc = "in" => i.holds # {})
  BY <1>1 DEF Place, OutFits, InFits
<1>3. /\ j \in Itc /\ j.pc = "call" /\ j.fn = fn /\ j.to = to /\ j.from = from /\ j.dive = d
      /\ j.landed = i.landed /\ j.reg = i.reg /\ j.page = i.page /\ j.holds = i.holds /\ Unwaited(j)
  BY DEF Asks
<1>4. \A q \in Page : Alike(i, j, q)
  BY <1>3 DEF IsIn, Waits, IsWriter, WantsRead, CallFits, Alike
<1>5. j.reg => bd[j.page].state # "deleted" /\ \A e \in Cursor : itc[e].pc = "free" => itc[e].page # j.page
  <2>1. i.reg => bd[i.page].state # "deleted" /\ \A e \in Cursor : itc[e].pc = "free" => itc[e].page # i.page
    BY <1>1, StaysRegistered
  <2>2. QED
    BY <1>3, <2>1
<1>6. i.pc \in {"out", "in", "call", "woken"} /\ j.pc \in {"out", "in", "call"}
  BY <1>3
<1>7. Good(bd, [itc EXCEPT ![c] = j])
  BY <1>5, <1>3, <1>4, <1>6, TurnAlone DEF Place, CallFits, Target
<1>8. QED
  BY <1>7

LEMMA CallsAsks ==
  ASSUME NEW i \in Itc, Quiet(i), NEW fn \in Call, NEW to \in Page \cup {NoPage}, NEW from \in Page \cup {NoPage}
  PROVE  Asks(i, [i EXCEPT !.pc = "call", !.fn = fn, !.to = to, !.from = from], fn, to, from, i.dive)
<1>1. PICK j : j = [i EXCEPT !.pc = "call", !.fn = fn, !.to = to, !.from = from]
  OBVIOUS
<1>2. QED
  BY <1>1 DEF Asks, Quiet, Unwaited, Itc, Places

LEMMA itc_resetGood ==
  ASSUME Good(bd, itc), NEW c \in Cursor, NEW dive \in DiveMode, itc_reset(c, dive)
  PROVE  Good(bd, itc)'
<1> DEFINE i == itc[c]
           k == [i EXCEPT !.dive = dive]
           j == [k EXCEPT !.pc = "call", !.fn = "reset", !.to = Root, !.from = NoPage]
<1>1. /\ Sound(bd, itc) /\ Place(i) /\ i \in Itc /\ i.pc = "out" /\ ~i.reg
      /\ bd' = bd /\ itc' = [itc EXCEPT ![c] = j]
  BY DEF Good, Sound, Types, itc_reset, Calls
<1>2. Quiet(i) /\ i.holds = {} /\ ~i.landed
  BY <1>1 DEF Place, OutFits
<1>3. /\ k \in Itc /\ k.dive = dive /\ k.landed = i.landed /\ k.reg = i.reg /\ k.page = i.page /\ k.holds = i.holds
      /\ Quiet(k)
  BY ModesAndChanges, <1>1, <1>2 DEF Itc, Quiet, Unwaited
<1> HIDE DEF k
<1>4. Asks(k, j, "reset", Root, NoPage, k.dive)
  BY <1>3, CallsAsks DEF Call, Page
<1> HIDE DEF j
<1>5. Asks(i, j, "reset", Root, NoPage, dive)
  BY <1>3, <1>4 DEF Asks
<1>6. CallFits(j)
  BY <1>1, <1>2, <1>5 DEF Asks, CallFits
<1>7. QED
  BY <1>1, RootStays, <1>2, <1>5, <1>6, AsksGood

\* c, which stands on page q or is registered, calls page_wait_access.
LEMMA CallsGood ==
  ASSUME Good(bd, itc), NEW c \in Cursor, itc[c].pc \in {"out", "in"}, NEW fn \in Call,
         NEW to \in Page \cup {NoPage}, NEW from \in Page \cup {NoPage}, Calls(c, itc[c], fn, to, from),
         fn # "pl_enter" => bd[to].state # "deleted",
         \A j : Asks(itc[c], j, fn, to, from, itc[c].dive) => CallFits(j)
  PROVE  Good(bd, itc)'
<1> DEFINE i == itc[c]
<1>1. PICK j : j = [i EXCEPT !.pc = "call", !.fn = fn, !.to = to, !.from = from]
  OBVIOUS
<1>2. Asks(i, j, fn, to, from, i.dive)
  BY <1>1, CallsAsks DEF Place, OutFits, InFits, Good, Sound, Types
<1>3. CallFits(j) /\ j.fn = fn
  BY <1>2 DEF Asks
<1>4. QED
  BY <1>1, <1>2, <1>3, AsksGood DEF Calls

\* What a cursor that stands on one page is.
LEMMA Standing ==
  ASSUME Good(bd, itc), NEW c \in Cursor, NEW p \in Page, StandsOn(c, p)
  PROVE  /\ Sound(bd, itc) /\ bd \in [Page -> Buffer] /\ itc \in [Cursor -> Itc] /\ itc[c] \in Itc
         /\ Place(itc[c]) /\ Quiet(itc[c]) /\ ~itc[c].reg
         /\ itc[c].pc = "in" /\ itc[c].holds = {p} /\ itc[c].page = p
<1>1. /\ Sound(bd, itc) /\ bd \in [Page -> Buffer] /\ itc \in [Cursor -> Itc] /\ itc[c] \in Itc
      /\ Place(itc[c])
  BY DEF Good, Sound, Types
<1>2. itc[c].pc = "in" /\ itc[c].holds = {p}
  BY DEF StandsOn
<1>3. QED
  BY <1>1, <1>2, PagesApart DEF InFits, Place

LEMMA TransitsGood ==
  ASSUME Good(bd, itc), NEW c \in Cursor, NEW p \in Leaf,
         itc_dive_transit(c, p) \/ itc_landed_down_transit(c, p) \/ itc_up_transit(c, p) \/ itc_write_parent(c, p)
  PROVE  Good(bd, itc)'
<1> DEFINE i == itc[c]
<1>1. Root \in Page /\ p \in Page /\ p \in Page \cup {NoPage} /\ Root \in Page \cup {NoPage} /\ NoPage \in Page \cup {NoPage}
  BY DEF Page
<1>2. {"dive", "down", "up", "parent"} \subseteq Call
  BY DEF Call
<1>3. bd[Root].state # "deleted"
  BY RootStays DEF Good
<1>4. CASE itc_dive_transit(c, p)
  <2>1. StandsOn(c, Root) /\ ~i.landed /\ Exists(p) /\ Calls(c, i, "dive", p, Root)
    BY <1>4 DEF itc_dive_transit
  <2>2. ~i.reg /\ i.pc \in {"out", "in"} /\ i.holds = {Root} /\ bd[p].state # "deleted"
    BY <1>1, <2>1, Standing DEF Exists
  <2>3. QED
    BY <2>1, <2>2, <1>1, <1>2, CallsGood DEF Asks, CallFits, Calling
<1>5. CASE itc_landed_down_transit(c, p)
  <2>1. StandsOn(c, Root) /\ i.landed /\ Exists(p) /\ Calls(c, i, "down", p, Root)
    BY <1>5 DEF itc_landed_down_transit
  <2>2. ~i.reg /\ i.reg \in BOOLEAN /\ i.pc \in {"out", "in"} /\ i.holds = {Root} /\ i.page = Root /\ bd[p].state # "deleted"
    BY <1>1, <2>1, Standing DEF Exists, Itc
  <2>3. \A j : Asks(i, j, "down", p, Root, i.dive) => CallFits(j)
    BY <2>1, <2>2 DEF Asks, CallFits, Calling
  <2>4. QED
    BY <1>1, <1>2, <2>1, <2>2, <2>3, CallsGood
<1>6. CASE itc_up_transit(c, p)
  <2>1. StandsOn(c, p) /\ i.landed /\ Calls(c, i, "up", Root, p)
    BY <1>6 DEF itc_up_transit
  <2>2. ~i.reg /\ i.pc \in {"out", "in"} /\ i.holds = {p}
    BY <1>1, <2>1, Standing
  <2>3. QED
    BY <2>1, <2>2, <1>1, <1>2, <1>3, CallsGood DEF Asks, CallFits, Calling
<1>7. CASE itc_write_parent(c, p)
  <2>1. StandsOn(c, p) /\ i.landed /\ ~WantsRead(i) /\ Calls(c, i, "parent", Root, NoPage)
    BY <1>7 DEF itc_write_parent, Writes
  <2>2. ~i.reg /\ i.pc \in {"out", "in"} /\ i.holds = {p} /\ i.page = p
    BY <1>1, <2>1, Standing
  <2>3. QED
    BY <2>1, <2>2, <1>1, <1>2, <1>3, CallsGood DEF Asks, CallFits, Calling, WantsRead
<1>8. QED
  BY <1>4, <1>5, <1>6, <1>7

LEMMA page_reenter_exclGood ==
  ASSUME Good(bd, itc), NEW c \in Cursor, page_reenter_excl(c)
  PROVE  Good(bd, itc)'
<1> DEFINE i == itc[c]
<1>1. i.pc = "out" /\ i.reg /\ Place(i) /\ Calls(c, i, "pl_enter", NoPage, NoPage)
  BY DEF page_reenter_excl, Good, Sound
<1>2. QED
  BY <1>1, CallsGood DEF Call, Asks, CallFits, OutFits, Place

LEMMA page_wait_accessGood ==
  ASSUME Good(bd, itc), NEW c \in Cursor, page_wait_access(c)
  PROVE  Good(bd, itc)'
<1>1. itc[c].pc = "call" /\ itc[c] \in Itc /\ Place(itc[c])
  BY DEF page_wait_access, Good, Sound, Types
<1>2. PICK p \in Page : p = Target(itc[c])
  BY <1>1, TargetIsPage
<1>3. QED
  BY <1>1, <1>2, StartReadGood, EnterFreeGood, WaitGood DEF page_wait_access, Starts

LEMMA itc_set_parent_linkGood ==
  ASSUME Good(bd, itc), NEW c \in Cursor, NEW p \in Leaf, itc_set_parent_link(c, p)
  PROVE  Good(bd, itc)'
<1>1. PICK i : i = [itc[c] EXCEPT !.fn = "link"]
  OBVIOUS
<1>2. QED
  BY <1>1, StartReadGood DEF itc_set_parent_link, Starts, StandsOn, Writes, Page

-----------------------------------------------------------------------------
(* Landing *)

LEMMA LandAtOnceGood ==
  ASSUME Good(bd, itc), NEW c \in Cursor, NEW p \in Leaf, LandAtOnce(c, p)
  PROVE  Good(bd, itc)'
<1> DEFINE i == itc[c]
<1>1. p \in Page
  BY DEF Page
<1>2. /\ Sound(bd, itc) /\ bd \in [Page -> Buffer] /\ itc \in [Cursor -> Itc] /\ i \in Itc
      /\ Place(i) /\ Quiet(i) /\ ~i.reg /\ i.pc = "in" /\ i.holds = {p} /\ i.page = p /\ ~i.landed
      /\ bd[p] \in Buffer /\ Counted(bd, itc, p) /\ QueuesFit(bd, itc, p)
  <2>1. StandsOn(c, p) /\ ~i.landed
    BY DEF LandAtOnce
  <2>2. /\ Sound(bd, itc) /\ bd \in [Page -> Buffer] /\ itc \in [Cursor -> Itc] /\ i \in Itc
        /\ Place(i) /\ Quiet(i) /\ ~i.reg /\ i.pc = "in" /\ i.holds = {p} /\ i.page = p
    BY <1>1, <2>1, Standing
  <2>3. QED
    BY <1>1, <2>1, <2>2 DEF Good, Sound
<1>3. PICK j : j = [i EXCEPT !.landed = TRUE]
  OBVIOUS
<1>4. /\ j \in Itc /\ j.landed /\ j.pc = i.pc /\ j.fn = i.fn /\ j.to = i.to /\ j.from = i.from /\ j.dive = i.dive
      /\ j.reg = i.reg /\ j.page = i.page /\ j.holds = i.holds /\ j.decoy = i.decoy
      /\ j.to_reset = i.to_reset /\ j.entered = i.entered /\ j.changed = i.changed
  BY <1>2, <1>3 DEF Itc
<1>5. itc' = [itc EXCEPT ![c] = j]
  BY <1>3 DEF LandAtOnce
<1>6. Place(j)
  BY <1>1, <1>2, <1>4 DEF Place, InFits, Quiet, Unwaited
<1>7. \A q : (IsIn(i, q) <=> q = p) /\ (IsIn(j, q) <=> q = p) /\ ~Waits(i, q) /\ ~Waits(j, q)
  BY <1>2, <1>4 DEF IsIn, Waits
<1>8. j.fn = "none"
  BY <1>2, <1>4 DEF Quiet
<1>9. CASE i.dive = "READ"
  <2>1. PICK b : b = [bd[p] EXCEPT !.readers = 0, !.is_write = TRUE]
    OBVIOUS
  <2>2. /\ b \in Buffer /\ b.state = bd[p].state /\ b.readers = 0 /\ b.is_write
        /\ b.write_waiting = bd[p].write_waiting /\ b.read_waiting = bd[p].read_waiting
    BY <1>2, <2>1 DEF Buffer
  <2>3. bd' = [bd EXCEPT ![p] = b] /\ bd[p].readers = 1
    <3>1. /\ bd' = [bd EXCEPT ![p].readers = IF i.dive = "READ" THEN 0 ELSE @,
                              ![p].is_write = @ \/ i.dive = "READ"]
          /\ bd[p].readers = 1
      BY <1>9 DEF LandAtOnce
    <3>2. PICK a : a = [bd[p] EXCEPT !.readers = 0]
      OBVIOUS
    <3>3. PICK C : C = [bd EXCEPT ![p] = a]
      OBVIOUS
    <3>4. bd' = [C EXCEPT ![p] = [a EXCEPT !.is_write = TRUE]]
      BY <1>9, <1>1, <1>2, <3>2, <3>3, <3>1
    <3>5. QED
      BY <2>1, <3>2, <3>4, <1>2, <2>2, <3>1, <3>3
  <2>4. Turns(bd, itc, c, j, p, b)
    <3>1. bd[p].state # "absent"
      BY <1>1, <1>7, MemberFacts
    <3>2. QED
      BY <1>2, <1>7, <2>2, <1>4, <1>6, <3>1 DEF Turns, QueuesFit
  <2>5. Joins(bd[p], i, b, j, p)
    BY <1>2, <1>4, <1>9, <1>7, <2>2, <2>3 DEF Joins, Counted, Counts, Readers, IsWriter, WantsRead
  <2>6. bd'[p] = b /\ b.state # "deleted" /\ i.pc # "free" /\ (j.fn = "pl_enter" => j.page = p)
    <3>1. bd[p].state # "deleted"
      BY <1>1, <1>7, MemberFacts
    <3>2. QED
      BY <1>1, <1>2, <1>8, <2>2, <2>3, <3>1
  <2>7. Counted(bd', [itc EXCEPT ![c] = j], p)
    BY <1>1, <1>2, <2>5, <2>6, JoinsCounted
  <2>8. \A q \in Page \ {p} : Alike(i, j, q)
    BY <1>2, <1>7 DEF Alike
  <2>9. QED
    BY <1>1, <1>5, <2>3, <2>4, <2>7, <2>8, TurnGood
<1>10. CASE i.dive # "READ"
  <2>1. bd' = bd
    <3>1. bd[p] = [bd[p] EXCEPT !.readers = bd[p].readers]
      BY <1>2 DEF Buffer
    <3>2. bd = [bd EXCEPT ![p] = bd[p]]
      BY <1>2
    <3>3. bd' = [bd EXCEPT ![p].is_write = @ \/ i.dive = "READ"]
      BY <1>10, <3>1, <3>2 DEF LandAtOnce
    <3>4. bd[p] = [bd[p] EXCEPT !.is_write = bd[p].is_write]
      BY <1>2 DEF Buffer
    <3>5. QED
      BY <1>2, <1>10, <3>2, <3>3, <3>4 DEF Buffer
  <2>2. Good(bd, [itc EXCEPT ![c] = j])
    BY <1>2, <1>4, <1>10, <1>7, <1>8, <1>6, TurnAlone DEF Alike, IsWriter, WantsRead, Itc
  <2>3. QED
    BY <1>5, <2>1, <2>2
<1>11. QED
  BY <1>9, <1>10

\* One of several readers of p becomes j, which waits for p.
LEMMA ReaderQueues ==
  ASSUME NEW B, NEW I, Good(B, I), NEW c \in Cursor, NEW j, NEW p \in Page, I[c].pc # "free",
         IsIn(I[c], p), ~IsIn(j, p), j.fn # "pl_enter", B[p].readers > 1,
         NEW B2, B2[p].readers = B[p].readers - 1, B2[p].is_write = B[p].is_write, B2[p].state = B[p].state
  PROVE  Counted(B2, [I EXCEPT ![c] = j], p)
<1> DEFINE J == [I EXCEPT ![c] = j]
<1>1. I \in [Cursor -> Itc] /\ Counted(B, I, p) /\ B[p] \in Buffer
  BY DEF Good, Sound, Types
<1>2. J[c] = j /\ \A d \in Cursor : d # c => J[d] = I[d]
  BY <1>1
<1>3. Lacks(B[p], J, p)
  BY <1>1, QuitsLacks DEF Counted
<1> HIDE DEF J
<1>4. B[p].readers \in Nat /\ B[p].readers # 0
  BY SMT, <1>1 DEF Buffer
<1>5. ~B[p].is_write /\ Writers(J, p) = {} /\ B[p].readers = Cardinality(Readers(J, p)) + 1
  BY <1>3, <1>4 DEF Lacks
<1>6. IsFiniteSet(Readers(J, p)) /\ Cardinality(Readers(J, p)) \in Nat
  BY MembersFinite
<1>7. B2[p].readers = Cardinality(Readers(J, p)) /\ Cardinality(Readers(J, p)) # 0
  BY SMTT(30), <1>4, <1>5, <1>6
<1>8. B[p].state # "deleted" /\ \A d \in Cursor : ~(I[d].pc = "free" /\ I[d].page = p)
  BY MemberFacts
<1>9. Follows(J, p)
  <2> SUFFICES ASSUME NEW d \in Cursor, J[d].fn = "pl_enter", J[d].page # p
               PROVE  ~IsIn(J[d], p) /\ ~Waits(J[d], p)
    BY DEF Follows
  <2>1. QED
    BY <1>2, <1>1, <1>8 DEF Counted, Follows
<1>10. QED
  BY <1>7, FS_EmptySet, <1>5, <1>8, <1>9 DEF J, Counted, Counts, Readers

LEMMA LandLaterGood ==
  ASSUME Good(bd, itc), NEW c \in Cursor, NEW p \in Leaf, LandLater(c, p)
  PROVE  Good(bd, itc)'
<1> DEFINE i == itc[c]
<1>1. p \in Page
  BY DEF Page
<1>2. /\ Sound(bd, itc) /\ bd \in [Page -> Buffer] /\ itc \in [Cursor -> Itc] /\ i \in Itc
      /\ Place(i) /\ Quiet(i) /\ ~i.reg /\ i.pc = "in" /\ i.holds = {p} /\ i.page = p
      /\ ~i.landed /\ i.dive = "READ" /\ bd[p].readers > 1 /\ bd[p] \in Buffer
  BY <1>1, Standing DEF LandLater
<1>3. PICK j : j = [i EXCEPT !.pc = "wait", !.fn = "land", !.to = p, !.holds = {}]
  OBVIOUS
<1>4. /\ j \in Itc /\ ~j.landed /\ j.pc = "wait" /\ j.fn = "land" /\ j.to = p /\ j.from = i.from /\ j.dive = "READ"
      /\ ~j.reg /\ j.page = i.page /\ j.holds = {} /\ j.decoy = i.decoy
      /\ j.to_reset = i.to_reset /\ j.entered = i.entered /\ j.changed = i.changed
  BY <1>1, <1>2, <1>3 DEF Itc, Places, Call
<1>5. itc' = [itc EXCEPT ![c] = j]
  BY <1>3 DEF LandLater
<1>6. Place(j)
  <2>1. WaitFits(j)
    BY SMTT(30), <1>2, <1>4 DEF WaitFits, Quiet, Unwaited, NO_WAIT
  <2>2. QED
    BY <1>2, <1>4, <2>1 DEF Place, CallFits, Calling, Quiet
<1>7. \A q : (IsIn(i, q) <=> q = p) /\ ~IsIn(j, q) /\ ~Waits(i, q) /\ (Waits(j, q) <=> q = p)
  BY <1>2, <1>4 DEF IsIn, Waits
<1>8. PICK a : a = [bd[p] EXCEPT !.write_waiting = Append(@, c)]
  OBVIOUS
<1>9. Grows(bd[p], a, c, FALSE)
  BY <1>8, <1>2, <1>1, QueueGrows
<1>10. PICK n \in Nat : n = bd[p].readers - 1
  BY SMT, <1>2 DEF Buffer
<1>11. PICK b : b = [a EXCEPT !.readers = n]
  OBVIOUS
<1>12. /\ b \in Buffer /\ b.state = bd[p].state /\ b.readers = bd[p].readers - 1 /\ b.is_write = bd[p].is_write
       /\ Once(b.write_waiting) /\ Once(b.read_waiting)
       /\ Elems(b.write_waiting) = Elems(bd[p].write_waiting) \cup {c}
       /\ Elems(b.read_waiting) = Elems(bd[p].read_waiting)
  BY <1>9, <1>11, <1>10 DEF Grows, Buffer
<1>13. bd' = [bd EXCEPT ![p] = b]
  <2>1. PICK q : q = Append(bd[p].write_waiting, c)
    OBVIOUS
  <2>2. PICK C : C = [bd EXCEPT ![p] = [bd[p] EXCEPT !.readers = n]]
    OBVIOUS
  <2>3. C[p] = [bd[p] EXCEPT !.readers = n] /\ C[p].write_waiting = bd[p].write_waiting
    BY <1>1, <1>2, <2>2 DEF Buffer
  <2>4. b = [C[p] EXCEPT !.write_waiting = q]
    BY <1>8, <2>1, <1>2, <1>11, <2>3 DEF Buffer
  <2>5. QED
    BY <1>10, <2>1, <2>2, <2>3, <1>2, <2>4 DEF LandLater
<1>14. bd[p].state # "absent" /\ bd'[p] = b
  <2>1. bd[p].state # "absent"
    BY <1>1, <1>7, MemberFacts
  <2>2. QED
    BY <2>1, <1>1, <1>2, <1>12, <1>13
<1>15. Turns(bd, itc, c, j, p, b)
  BY <1>4, <1>7, <1>12, <1>2, <1>6, <1>14 DEF Turns, IsRead
<1>16. Counted(bd', [itc EXCEPT ![c] = j], p)
  BY <1>2, <1>4, <1>1, <1>7, <1>12, <1>14, ReaderQueues
<1>17. \A q \in Page \ {p} : Alike(i, j, q)
  BY <1>2, <1>7 DEF Alike
<1>18. QED
  BY <1>1, <1>5, <1>13, <1>15, <1>16, <1>17, TurnGood

-----------------------------------------------------------------------------
(* Steps that leave all counts alone *)

LEMMA IdleFits == Idle \in Itc /\ Place(Idle) /\ Idle.pc = "out" /\ ~Idle.reg /\ Idle.fn = "none" /\ Idle.holds = {}
<1>1. Idle \in Itc
  BY SMT DEF Idle, Itc, Places, NO_WAIT
<1>2. QED
  BY <1>1 DEF Place, OutFits, Quiet, Unwaited, Idle

LEMMA itc_unregisterGood ==
  ASSUME Good(bd, itc), NEW c \in Cursor, itc_unregister(c)
  PROVE  Good(bd, itc)'
<1>1. itc[c].pc = "out" /\ itc' = [itc EXCEPT ![c] = Idle] /\ bd' = bd
  BY DEF itc_unregister
<1>2. PICK j : j = Idle
  OBVIOUS
<1>3. j \in Itc /\ Place(j) /\ j.pc = "out" /\ ~j.reg /\ j.fn = "none" /\ j.holds = {}
  BY <1>2, IdleFits
<1>4. Good(bd, [itc EXCEPT ![c] = j])
  BY <1>1, <1>3, TurnAlone DEF Alike, IsIn, Waits, Good, Sound, Place, OutFits
<1>5. QED
  BY <1>1, <1>2, <1>4

LEMMA bp_foundGood ==
  ASSUME Good(bd, itc), NEW p \in Page, bp_found(p)
  PROVE  Good(bd, itc)'
<1>1. bd[p] = Free /\ bd' = [bd EXCEPT ![p] = Absent] /\ itc' = itc
  BY DEF bp_found
<1>2. Sound(bd, itc) /\ bd \in [Page -> Buffer] /\ itc \in [Cursor -> Itc]
  BY DEF Good, Sound, Types
<1>3. PICK b : b = Absent
  OBVIOUS
<1>4. /\ b \in Buffer /\ b.state = "absent" /\ b.readers = bd[p].readers /\ b.is_write = bd[p].is_write
      /\ b.write_waiting = bd[p].write_waiting /\ b.read_waiting = bd[p].read_waiting
  BY <1>1, <1>3, EmptyElems DEF Absent, Free, Buffer
<1>5. bd' \in [Page -> Buffer] /\ bd'[p] = b /\ \A q \in Page : q # p => bd'[q] = bd[q]
  BY <1>1, <1>2, <1>3, <1>4
<1>6. /\ \A q \in Page : bd'[q].write_waiting = bd[q].write_waiting /\ bd'[q].read_waiting = bd[q].read_waiting
      /\ \A q \in Page : bd'[q].readers = bd[q].readers /\ bd'[q].is_write = bd[q].is_write
      /\ \A q \in Page : bd'[q].state = bd[q].state \/ bd'[q] = Absent
  BY ZenonT(60), <1>3, <1>4, <1>5
<1>7. \A q \in Page : bd'[q] = Absent => bd'[q].state = "absent"
  BY ZenonT(60), <1>3, <1>4
<1>8. \A q \in Page : /\ bd'[q].state = "deleted" => bd[q].state = "deleted"
                      /\ bd'[q].state = "decoy" => bd[q].state = "decoy"
                      /\ bd'[q].state = "absent" => bd'[q] = Absent
  <2> TAKE q \in Page
  <2>1. CASE q = p
    BY <2>1, <1>3, <1>4, <1>5
  <2>2. CASE q # p
    BY <1>2, <2>2, <1>5 DEF Sound
  <2>3. QED
    BY <2>1, <2>2
<1>9. \A q \in Page : QueuesFit(bd', itc, q)
  <2> TAKE q \in Page
  <2>1. QueuesFit(bd, itc, q)
    BY <1>2 DEF Sound
  <2>2. QED
    BY <1>6, <2>1 DEF QueuesFit
<1>10. \A d \in Cursor : itc[d].reg => bd'[itc[d].page].state # "deleted"
  <2> SUFFICES ASSUME NEW d \in Cursor, itc[d].reg
               PROVE  bd'[itc[d].page].state # "deleted"
    OBVIOUS
  <2>1. QED
    BY <1>2, RegisteredOnPage, <1>8 DEF Sound
<1>11. \A d \in Cursor : itc[d].pc = "call" => bd'[Target(itc[d])].state # "deleted"
  <2> SUFFICES ASSUME NEW d \in Cursor, itc[d].pc = "call"
               PROVE  bd'[Target(itc[d])].state # "deleted"
    OBVIOUS
  <2>1. Target(itc[d]) \in Page
    BY <1>2, TargetIsPage DEF Sound
  <2>2. QED
    BY <2>1, <1>2, <1>8 DEF Sound
<1>12. Sound(bd', itc)
  BY <1>2, <1>5, <1>8, <1>9, <1>10, <1>11 DEF Types, Sound
<1>13. \A q \in Page : Counted(bd', itc, q)
  <2> TAKE q \in Page
  <2>1. QED
    BY <1>6, <1>8, AlikeCounted DEF Good, Alike
<1>14. QED
  BY <1>1, <1>12, <1>13 DEF Good

-----------------------------------------------------------------------------
(* Leave *)

\* What is left of cursor i when it leaves page p.
Remains(i, p, reg) ==
    IF i.holds # {p} THEN [i EXCEPT !.holds = @ \ {p}, !.page = IF p = Root THEN @ ELSE Root]
    ELSE IF reg THEN [i EXCEPT !.pc = "out", !.holds = {}, !.reg = TRUE]
    ELSE Idle

\* Cursor i leaves page p, and becomes j.
Departs(i, j, p) ==
    /\ j \in Itc /\ Place(j) /\ j.pc \in {"in", "out"} /\ ~IsIn(j, p)
    /\ j.reg => j.page = p
    /\ \A q \in Page \ {p} : Alike(i, j, q)

LEMMA LeaveDeparts ==
  ASSUME NEW i \in Itc, Place(i), i.pc = "in", NEW p \in Page, p \in i.holds, NEW reg,
         p = Root => i.holds = {p} \/ i.page # Root, reg => i.holds = {p} /\ i.landed,
         NEW j, j = Remains(i, p, reg)
  PROVE  Departs(i, j, p)
<1>1. /\ InFits(i) /\ Quiet(i) /\ ~i.reg /\ i.page \in Page
      /\ i.holds = {i.page} \/ (\E x \in Leaf : i.holds = {Root, x} /\ i.page \in {Root, x})
  BY DEF Place, InFits
<1>2. \A q : (IsIn(i, q) <=> q \in i.holds) /\ ~Waits(i, q)
  BY DEF IsIn, Waits
<1>3. CASE i.holds # {p}
  <2>1. PICK x \in Leaf : i.holds = {Root, x} /\ i.page \in {Root, x}
    BY <1>1, <1>3
  <2>2. PICK s \in Page : /\ i.holds = {p, s} /\ p # s
                         /\ s = IF p = Root THEN i.page ELSE Root
    BY <1>3, <2>1, PagesApart DEF Page
  <2>3. PICK h \in SUBSET Page : h = {s}
    BY <2>2
  <2>4. j = [i EXCEPT !.holds = h, !.page = s]
    <3>1. i.holds \ {p} = h
      BY <2>2, <2>3
    <3>2. j = [i EXCEPT !.holds = i.holds \ {p}, !.page = IF p = Root THEN i.page ELSE Root]
      BY <1>3 DEF Remains
    <3>3. QED
      BY <2>2, <3>1, <3>2
  <2>5. /\ j \in Itc /\ j.pc = "in" /\ j.fn = i.fn /\ j.to = i.to /\ j.from = i.from /\ j.dive = i.dive
        /\ j.landed = i.landed /\ ~j.reg /\ j.page = s /\ j.holds = {s} /\ j.decoy = i.decoy
        /\ j.to_reset = i.to_reset /\ j.entered = i.entered /\ j.changed = i.changed
    <3>1. /\ j \in Itc /\ j.pc = i.pc /\ j.fn = i.fn /\ j.to = i.to /\ j.from = i.from /\ j.dive = i.dive
          /\ j.landed = i.landed /\ j.reg = i.reg /\ j.page = s /\ j.holds = h /\ j.decoy = i.decoy
          /\ j.to_reset = i.to_reset /\ j.entered = i.entered /\ j.changed = i.changed
      BY ZenonT(60), <2>4 DEF Itc
    <3>2. QED
      BY <1>1, <2>3, <3>1
  <2>6. \A q : (IsIn(j, q) <=> q = s) /\ ~Waits(j, q)
    BY <2>5 DEF IsIn, Waits
  <2>7. IsWriter(j, s) <=> IsWriter(i, s)
    BY <2>2, <2>5 DEF IsWriter, WantsRead
  <2>8. \A q \in Page \ {p} : Alike(i, j, q)
    <3> TAKE q \in Page \ {p}
    <3>1. IsIn(i, q) <=> q = s
      BY <1>2, <2>2
    <3>2. QED
      BY <1>1, <2>5, <1>2, <2>6, <2>7, <3>1 DEF Alike, Quiet
  <2>9. QED
    BY <1>1, <2>5, <2>2, <2>6, <2>8 DEF Departs, Place, InFits, Quiet, Unwaited
<1>4. CASE i.holds = {p} /\ reg
  <2>1. j = [i EXCEPT !.pc = "out", !.holds = {}, !.reg = TRUE]
    BY <1>4 DEF Remains
  <2>2. /\ j \in Itc /\ j.pc = "out" /\ j.fn = i.fn /\ j.to = i.to /\ j.from = i.from
        /\ j.landed = i.landed /\ j.reg /\ j.page = i.page /\ j.holds = {} /\ j.decoy = i.decoy
        /\ j.to_reset = i.to_reset /\ j.entered = i.entered /\ j.changed = i.changed
    BY ZenonT(40), <2>1 DEF Itc, Places
  <2>3. i.page = p
    BY <1>1, <1>4, PagesApart
  <2>4. \A q : ~IsIn(j, q) /\ ~Waits(j, q)
    BY <2>2 DEF IsIn, Waits
  <2>5. j.pc \in {"in", "out"}
    BY <2>2
  <2>6. QED
    BY ZenonT(40), <1>1, <1>4, <2>2, <1>2, <2>4, <2>3, <2>5 DEF Departs, Alike, Place, OutFits, Quiet, Unwaited
<1>5. CASE i.holds = {p} /\ ~reg
  BY <1>5, IdleFits, <1>2 DEF IsIn, Waits, Departs, Alike, Remains
<1>6. QED
  BY <1>3, <1>4, <1>5

LEMMA LeaveGood ==
  ASSUME Good(bd, itc), NEW c \in Cursor, NEW p \in Page, NEW change \in {NO_WAIT} \cup Change, NEW reg \in BOOLEAN,
         Leave(c, p, change, reg)
  PROVE  Good(bd, itc)'
<1> DEFINE i == itc[c]
<1>1. /\ Sound(bd, itc) /\ bd \in [Page -> Buffer] /\ itc \in [Cursor -> Itc] /\ i \in Itc /\ Place(i)
      /\ QueuesFit(bd, itc, p) /\ bd[p] \in Buffer
  BY DEF Good, Sound, Types
<1>2. i.pc = "in" /\ p \in i.holds /\ (p = Root => i.holds = {p} \/ i.page # Root) /\ (reg => i.holds = {p} /\ i.landed)
  BY DEF Leave
<1>3. PICK j : j = Remains(i, p, reg)
  OBVIOUS
<1>4. Departs(i, j, p)
  BY <1>1, <1>2, <1>3, LeaveDeparts
<1>5. PICK J : J = [itc EXCEPT ![c] = j]
  OBVIOUS
<1>6. PICK r : r = page_leave_inner(bd, page_mark_change(bd, J, p, change), p)
  OBVIOUS
<1>7. IsIn(i, p) /\ i.pc # "free" /\ i.pc # "wait" /\ i.pc # "read"
  BY <1>2 DEF IsIn
<1>8. /\ bd[p].state # "absent" /\ bd[p].state # "deleted"
      /\ \A d \in Cursor : ~(itc[d].pc = "free" /\ itc[d].page = p)
  BY <1>7, MemberFacts
<1>9. /\ j \in Itc /\ Place(j) /\ ~IsIn(j, p) /\ j.pc # "free" /\ j.pc # "call"
      /\ \A q : ~Waits(j, q)
      /\ \A q \in Page \ {p} : Alike(i, j, q)
  BY <1>4 DEF Departs, Waits
<1>10. j.reg => bd[j.page].state # "deleted" /\ \A d \in Cursor : itc[d].pc = "free" => itc[d].page # j.page
  BY ZenonT(60), <1>4, <1>8 DEF Departs
<1>11. Turns(bd, itc, c, j, p, bd[p])
  BY <1>1, <1>9, <1>7, <1>8, <1>10 DEF Turns, QueuesFit
<1>12. bd = [bd EXCEPT ![p] = bd[p]]
  BY <1>1
<1>13. \A q \in Page \ {p, p} : Alike(i, j, q)
  BY <1>9
<1>14. Others(bd, J, p)
  BY ZenonT(60), <1>5, <1>11, <1>12, <1>13, TurnOthers
<1>15. change \in 1 .. 9
  BY SMTT(30), ModesAndChanges DEF NO_WAIT
<1>16. Held(bd, page_mark_change(bd, J, p, change), p)
  BY <1>5, <1>7, <1>9, <1>14, QuitsHeld, <1>15, MarkHeld
<1>17. QED
  BY <1>3, <1>5, <1>6, <1>16, page_leave_innerGood DEF Leave, Remains

-----------------------------------------------------------------------------
(* pg_delete_move_cursors *)

\* Cursor i becomes j, which is inside the same pages and waits for the same one.
Same(i, j) ==
    /\ j \in Itc /\ Place(j) /\ j.fn = i.fn /\ j.to = i.to /\ j.reg = i.reg
    /\ j.pc = i.pc \/ (i.pc = "in" /\ j.pc = "free")
    /\ IsRead(j) <=> IsRead(i)
    /\ \A q : /\ IsIn(j, q) <=> IsIn(i, q)
              /\ IsWriter(j, q) <=> IsWriter(i, q)
              /\ Waits(j, q) <=> Waits(i, q)

LEMMA MovesSame ==
  ASSUME NEW i \in Itc, Place(i), i.reg, i.page \in Leaf, NEW j, j = [i EXCEPT !.page = Root]
  PROVE  Same(i, j) /\ j.page = Root /\ i.pc # "free" /\ i.pc # "in"
<1>1. i.pc # "free" /\ i.pc # "in"
  BY DEF Place, InFits, FreeFits
<1>2. Root \in Page /\ i.page # Root
  BY PagesApart DEF Page
<1>3. /\ j \in Itc /\ j.pc = i.pc /\ j.fn = i.fn /\ j.to = i.to /\ j.from = i.from /\ j.dive = i.dive
      /\ j.landed = i.landed /\ j.reg = i.reg /\ j.page = Root /\ j.holds = i.holds /\ j.decoy = i.decoy
      /\ j.to_reset = i.to_reset /\ j.entered = i.entered /\ j.changed = i.changed
  BY <1>2 DEF Itc
<1>4. i.pc = "out" => OutFits(j)
  BY <1>2, <1>3 DEF Place, OutFits, Quiet, Unwaited
<1>5. i.pc \in {"call", "read", "wait", "woken"} => CallFits(j)
  <2> SUFFICES ASSUME i.pc \in {"call", "read", "wait", "woken"}
               PROVE  CallFits(j)
    OBVIOUS
  <2>1. QED
    BY <1>2, <1>3 DEF CallFits, Place
<1>6. WokenFits(i) => WokenFits(j)
  BY <1>3 DEF WokenFits, FindsItselfIn
<1>7. Place(j)
  BY <1>3, <1>1, <1>4, <1>5, <1>6 DEF Place, Unwaited, WaitFits
<1>8. QED
  BY <1>3, <1>1, <1>7 DEF Same, IsRead, WantsRead, IsIn, IsWriter, Waits

Frees(i, j, p) == Same(i, j) /\ j.pc = "free" /\ j.page = p /\ ~j.reg /\ IsIn(i, p) /\ IsWriter(i, p)

LEMMA FreesSame ==
  ASSUME NEW i \in Itc, Place(i), i.pc = "in", NEW p \in Leaf, i.holds = {p, Root}, i.page = p,
         NEW j, j = [i EXCEPT !.pc = "free"]
  PROVE  Frees(i, j, p)
<1>1. InFits(i) /\ p # Root
  BY PagesApart DEF Place
<1>2. i.landed /\ ~WantsRead(i) /\ Quiet(i) /\ ~i.reg
  <2>1. i.holds # {i.page}
    BY <1>1
  <2>2. QED
    BY <1>1, <2>1 DEF InFits
<1>3. /\ j \in Itc /\ j.pc = "free" /\ j.fn = i.fn /\ j.to = i.to /\ j.from = i.from /\ j.dive = i.dive
      /\ j.landed = i.landed /\ j.reg = i.reg /\ j.page = i.page /\ j.holds = i.holds /\ j.decoy = i.decoy
      /\ j.to_reset = i.to_reset /\ j.entered = i.entered /\ j.changed = i.changed
  BY DEF Itc, Places
<1>4. FreeFits(j)
  BY <1>3, <1>2 DEF FreeFits, Quiet, Unwaited, WantsRead
<1>5. IsIn(i, p) /\ IsWriter(i, p)
  BY <1>2 DEF IsIn, IsWriter
<1>6. QED
  BY <1>3, <1>4, <1>2, <1>5 DEF Same, Frees, Place, IsRead, WantsRead, IsIn, IsWriter, Waits

LEMMA pg_delete_move_cursorsGood ==
  ASSUME Good(bd, itc), NEW c \in Cursor, NEW p \in Leaf, pg_delete_move_cursors(c, p)
  PROVE  Good(bd, itc)'
<1>1. /\ Sound(bd, itc) /\ bd \in [Page -> Buffer] /\ itc \in [Cursor -> Itc]
      /\ \A d \in Cursor : itc[d] \in Itc /\ Place(itc[d])
  BY DEF Good, Sound, Types
<1>2. p \in Page /\ Root \in Page /\ p # Root /\ bd[Root].state # "deleted"
      /\ \A d \in Cursor : itc[d].pc = "free" => itc[d].page # Root
  BY <1>1, PagesApart, RootStays DEF Page
<1>3. /\ itc[c].pc = "in" /\ itc[c].holds = {p, Root} /\ itc[c].page = p /\ bd' = bd
      /\ itc' = [d \in Cursor |-> IF d = c THEN [itc[d] EXCEPT !.pc = "free"]
                                  ELSE IF itc[d].reg /\ itc[d].page = p THEN [itc[d] EXCEPT !.page = Root]
                                  ELSE itc[d]]
  BY DEF pg_delete_move_cursors
<1>4. PICK J : J = itc'
  OBVIOUS
<1>5. /\ Same(itc[c], J[c]) /\ J[c].pc = "free" /\ J[c].page = p /\ ~J[c].reg
      /\ IsIn(itc[c], p) /\ IsWriter(itc[c], p)
  <2>1. Frees(itc[c], J[c], p)
    BY <1>3, <1>4, <1>1, FreesSame
  <2>2. QED
    BY <2>1 DEF Frees
<1>6. ASSUME NEW d \in Cursor, d # c, itc[d].reg, itc[d].page = p
      PROVE  Same(itc[d], J[d]) /\ J[d].page = Root /\ itc[d].pc # "free" /\ itc[d].pc # "in"
  BY <1>3, <1>4, <1>6, <1>1, MovesSame
<1>7. \A d \in Cursor : d # c /\ ~(itc[d].reg /\ itc[d].page = p) => J[d] = itc[d]
  BY <1>3, <1>4
<1>8. \A d \in Cursor : Same(itc[d], J[d])
  <2> TAKE d \in Cursor
  <2>1. CASE d # c /\ ~(itc[d].reg /\ itc[d].page = p)
    BY <2>1, <1>1, <1>7 DEF Same
  <2>2. QED
    BY <2>1, <1>5, <1>6
<1>9. \A d \in Cursor : itc[d].pc = "free" => J[d] = itc[d]
  <2> SUFFICES ASSUME NEW d \in Cursor, itc[d].pc = "free"
               PROVE  J[d] = itc[d]
    OBVIOUS
  <2>1. QED
    BY <1>3, <1>6, <1>7
<1>10. \A d \in Cursor : J[d].page = itc[d].page \/ (itc[d].page = p /\ J[d].page = Root /\ itc[d].reg /\ d # c)
  BY <1>3, <1>5, <1>6, <1>7
<1>11. \A d \in Cursor : J[d].reg => J[d].page # p
  <2> SUFFICES ASSUME NEW d \in Cursor, J[d].reg
               PROVE  J[d].page # p
    OBVIOUS
  <2>1. QED
    BY <1>5, <1>2, <1>6, <1>7
<1>12. Sound(bd, J)
  <2>1. Types(bd, J)
    BY <1>8, <1>3, <1>4, <1>1 DEF Same, Types
  <2>2. \A d \in Cursor : Place(J[d])
    BY <1>8 DEF Same
  <2>3. \A q \in Page : QueuesFit(bd, J, q)
    <3> TAKE q \in Page
    <3>1. /\ {d \in Cursor : Waits(J[d], q) /\ ~IsRead(J[d])} = {d \in Cursor : Waits(itc[d], q) /\ ~IsRead(itc[d])}
          /\ {d \in Cursor : Waits(J[d], q) /\ IsRead(J[d])} = {d \in Cursor : Waits(itc[d], q) /\ IsRead(itc[d])}
      BY <1>8 DEF Same
    <3>2. QED
      BY <1>1, <3>1 DEF QueuesFit, Sound
  <2>4. \A q \in Page : bd[q].state = "decoy" => \E d \in Cursor : J[d].pc = "read" /\ J[d].to = q
    <3> SUFFICES ASSUME NEW q \in Page, bd[q].state = "decoy"
                 PROVE  \E d \in Cursor : J[d].pc = "read" /\ J[d].to = q
      OBVIOUS
    <3>1. PICK d \in Cursor : itc[d].pc = "read" /\ itc[d].to = q
      BY <1>1 DEF Sound
    <3>2. QED
      BY <1>8, <3>1 DEF Same
  <2>5. \A d \in Cursor : J[d].reg => bd[J[d].page].state # "deleted"
    <3> SUFFICES ASSUME NEW d \in Cursor, J[d].reg
                 PROVE  bd[J[d].page].state # "deleted"
      OBVIOUS
    <3>1. bd[itc[d].page].state # "deleted"
      BY <1>8, <1>1 DEF Sound, Same
    <3>2. QED
      BY <1>2, <1>10, <3>1
  <2>6. \A d \in Cursor : J[d].pc = "call" => bd[Target(J[d])].state # "deleted"
    <3> SUFFICES ASSUME NEW d \in Cursor, J[d].pc = "call"
                 PROVE  bd[Target(J[d])].state # "deleted"
      OBVIOUS
    <3>1. itc[d].pc = "call" /\ J[d].fn = itc[d].fn /\ J[d].to = itc[d].to
      BY <1>8 DEF Same
    <3>2. bd[Target(itc[d])].state # "deleted"
      BY <1>1, <3>1 DEF Sound
    <3>3. QED
      BY <1>10, <3>1, <1>2, <3>2 DEF Target
  <2>7. \A e, d \in Cursor : J[d].pc = "free" /\ J[e].reg => J[e].page # J[d].page
    <3> SUFFICES ASSUME NEW e \in Cursor, NEW d \in Cursor, J[d].pc = "free", J[e].reg
                 PROVE  J[e].page # J[d].page
      OBVIOUS
    <3>1. CASE d = c
      BY <3>1, <1>5, <1>11
    <3>2. CASE d # c
      <4>1. itc[d].pc = "free" /\ J[d] = itc[d]
        <5>1. CASE itc[d].reg /\ itc[d].page = p
          <6>1. Same(itc[d], J[d]) /\ itc[d].pc # "free" /\ itc[d].pc # "in"
            BY <1>6, <3>2, <5>1
          <6>2. J[d].pc = itc[d].pc
            BY <6>1 DEF Same
          <6>3. QED
            BY ZenonT(60), <6>1, <6>2
        <5>2. QED
          BY <1>7, <3>2, <5>1
      <4>2. itc[e].page # itc[d].page /\ itc[d].page # Root
        BY <1>8, <1>1, <1>2, <4>1 DEF Sound, Same
      <4>3. QED
        BY <1>10, <4>1, <4>2
    <3>3. QED
      BY <3>1, <3>2
  <2>8. QED
    BY <1>1, <2>1, <2>2, <2>3, <2>4, <2>5, <2>6, <2>7 DEF Sound
<1>13. ASSUME NEW q \in Page
       PROVE  Counted(bd, J, q)
  <2>1. Counted(bd, itc, q) /\ Counted(bd, itc, p)
    BY <1>2 DEF Good
  <2>2. \A d \in Cursor : /\ IsIn(J[d], q) <=> IsIn(itc[d], q)
                          /\ IsWriter(J[d], q) <=> IsWriter(itc[d], q)
                          /\ Waits(J[d], q) <=> Waits(itc[d], q)
                          /\ J[d].fn = itc[d].fn
    BY <1>8 DEF Same
  <2>3. Follows(J, q)
    <3> SUFFICES ASSUME NEW d \in Cursor, J[d].fn = "pl_enter", J[d].page # q
                 PROVE  ~IsIn(J[d], q) /\ (Waits(J[d], q) => \E e \in Cursor : J[e].pc = "free" /\ J[e].page = q)
      BY DEF Follows
    <3>1. CASE itc[d].page # q
      BY <2>1, <2>2, <3>1, <1>9 DEF Counted, Follows
    <3>2. CASE itc[d].page = q
      BY <1>10, <3>2, <1>5, <2>1, <2>2 DEF Writers, Counted, Counts, Readers
    <3>3. QED
      BY <3>1, <3>2
  <2>4. QED
    BY <2>2, <2>1, <2>3 DEF Counted, Deserted, Counts, Readers, Writers
<1>14. QED
  BY <1>3, <1>4, <1>12, <1>13 DEF Good

-----------------------------------------------------------------------------
(* it_free_page *)

\* Cursor i has freed page p and goes on as j, on the root.
Freed(i, j, p) ==
    /\ j \in Itc /\ Place(j) /\ j.pc = "in" /\ ~j.reg
    /\ \A q : (IsIn(i, q) <=> q \in {p, Root}) /\ (IsIn(j, q) <=> q = Root) /\ ~Waits(j, q)
    /\ IsWriter(i, p) /\ IsWriter(i, Root)
    /\ \A q \in Page \ {p} : Alike(i, j, q)

LEMMA FreesFreed ==
  ASSUME NEW i \in Itc, Place(i), i.pc = "free", NEW j, j = [i EXCEPT !.pc = "in", !.holds = {Root}, !.page = Root]
  PROVE  Freed(i, j, i.page)
<1>1. PICK p : p = i.page
  OBVIOUS
<1>2. Quiet(i) /\ ~i.reg /\ p \in Leaf /\ i.landed /\ ~WantsRead(i) /\ i.holds = {Root, p}
  BY <1>1 DEF Place, FreeFits
<1>3. PICK h \in SUBSET Page : h = {Root}
  BY DEF Page
<1>4. Root \in Page /\ j = [i EXCEPT !.pc = "in", !.holds = h, !.page = Root]
  BY <1>3 DEF Page
<1>5. /\ j \in Itc /\ j.pc = "in" /\ j.fn = i.fn /\ j.to = i.to /\ j.from = i.from /\ j.dive = i.dive
      /\ j.landed = i.landed /\ j.reg = i.reg /\ j.page = Root /\ j.holds = h /\ j.decoy = i.decoy
      /\ j.to_reset = i.to_reset /\ j.entered = i.entered /\ j.changed = i.changed
  BY ZenonT(60), <1>4 DEF Itc, Places
<1>6. InFits(j)
  BY <1>2, <1>3, <1>4, <1>5 DEF InFits, Quiet, Unwaited
<1>7. \A q : (IsIn(i, q) <=> q \in {p, Root}) /\ (IsIn(j, q) <=> q = Root) /\ ~Waits(j, q) /\ ~Waits(i, q)
  BY <1>2, <1>3, <1>5 DEF IsIn, Waits
<1>8. IsWriter(i, p) /\ IsWriter(i, Root) /\ IsWriter(j, Root)
  BY <1>2, <1>3, <1>5 DEF IsWriter, WantsRead
<1>9. \A q \in Page \ {p} : Alike(i, j, q)
  <2> TAKE q \in Page \ {p}
  <2>1. QED
    BY <1>2, <1>5, <1>7, <1>1, <1>8 DEF Alike, Quiet
<1>10. QED
  BY <1>5, <1>6, <1>1, <1>2, <1>7, <1>8, <1>9 DEF Freed, Place

\* Nobody asks for a page that is being freed: that takes the root, or a registration.
LEMMA NobodyAsks ==
  ASSUME NEW B, NEW I, Good(B, I), NEW c \in Cursor, I[c].pc = "free", NEW d \in Cursor, I[d].pc = "call"
  PROVE  Target(I[d]) # I[c].page
<1>1. /\ Sound(B, I) /\ CallFits(I[d]) /\ FreeFits(I[c]) /\ Root \in Page /\ Counts(B, I, Root)
      /\ (I[d].reg => I[d].page # I[c].page)
  BY DEF Good, Sound, Place, Page, Counted
<1>2. I[c].page \in Leaf /\ I[c].page # Root /\ I[c].holds = {Root, I[c].page} /\ ~WantsRead(I[c])
  BY <1>1, PagesApart DEF FreeFits
<1>3. Root \notin I[d].holds
  <2>1. c \in Writers(I, Root)
    BY ZenonT(60), <1>2 DEF Writers, IsIn, IsWriter
  <2>2. QED
    BY <1>1, <2>1 DEF Readers, Writers, IsIn, Counts
<1>4. QED
  BY <1>1, <1>3, <1>2 DEF Target, CallFits, Calling

LEMMA it_free_pageGood ==
  ASSUME Good(bd, itc), NEW c \in Cursor, it_free_page(c)
  PROVE  Good(bd, itc)'
<1> DEFINE i == itc[c]
<1>1. /\ Sound(bd, itc) /\ bd \in [Page -> Buffer] /\ itc \in [Cursor -> Itc] /\ i \in Itc /\ Place(i)
      /\ i.pc = "free"
  BY DEF Good, Sound, Types, it_free_page
<1>2. PICK p \in Leaf : p = i.page
  BY <1>1 DEF Place, FreeFits
<1>3. p \in Page /\ Root \in Page /\ p # Root
  BY <1>2, PagesApart DEF Page
<1>4. PICK j : j = [i EXCEPT !.pc = "in", !.holds = {Root}, !.page = Root]
  OBVIOUS
<1>5. PICK b : b = [bd[p] EXCEPT !.state = "deleted"]
  OBVIOUS
<1>6. PICK B, J : B = [bd EXCEPT ![p] = b] /\ J = [itc EXCEPT ![c] = j]
  OBVIOUS
<1>7. PICK r : r = page_leave_inner(B, page_mark_change(B, J, p, WAIT_ANY + 1), p)
  OBVIOUS
<1>8. Freed(i, j, p)
  BY <1>1, <1>2, <1>4, FreesFreed
<1>9. /\ j \in Itc /\ Place(j) /\ j.pc = "in" /\ ~j.reg /\ IsIn(i, p) /\ ~IsIn(j, p) /\ \A q : ~Waits(j, q)
      /\ \A q \in Page \ {p} : Alike(i, j, q)
  BY <1>3, <1>8 DEF Freed
<1>10. bd[p] \in Buffer /\ QueuesFit(bd, itc, p) /\ Counts(bd, itc, p)
  BY <1>1, <1>3 DEF Good, Sound, Counted
<1>11. /\ b \in Buffer /\ b.state = "deleted" /\ b.readers = bd[p].readers /\ b.is_write = bd[p].is_write
       /\ b.write_waiting = bd[p].write_waiting /\ b.read_waiting = bd[p].read_waiting
  BY <1>5, <1>10 DEF Buffer
<1>12. B \in [Page -> Buffer] /\ B[p] = b /\ \A q \in Page : q # p => B[q] = bd[q]
  BY <1>1, <1>3, <1>6, <1>11
<1>13. J[c] = j /\ \A d \in Cursor : d # c => J[d] = itc[d]
  BY <1>1, <1>6
<1>14. Sound(bd, J)
  <2>1. Turns(bd, itc, c, j, p, bd[p])
    BY <1>1, <1>9, <1>3, <1>10 DEF Turns, QueuesFit, Sound
  <2>2. PICK K : K = [bd EXCEPT ![p] = bd[p]]
    OBVIOUS
  <2>3. Sound(K, J)
    BY <1>6, <1>1, <1>3, <2>1, <2>2, TurnsSound
  <2>4. QED
    BY <1>1, <2>2, <2>3
<1>15. Sound(B, J)
  <2>1. Types(B, J)
    BY <1>12, <1>14 DEF Sound, Types
  <2>2. \A q \in Page : QueuesFit(B, J, q)
    <3> TAKE q \in Page
    <3>1. QueuesFit(bd, J, q)
      BY <1>14 DEF Sound
    <3>2. QED
      BY <1>11, <1>12, <3>1 DEF QueuesFit
  <2>3. \A q \in Page : B[q].state # "deleted" => B[q] = bd[q]
    BY <1>11, <1>12
  <2>4. \A q \in Page : B[q].state = "decoy" => \E d \in Cursor : J[d].pc = "read" /\ J[d].to = q
    <3> SUFFICES ASSUME NEW q \in Page, B[q].state = "decoy"
                 PROVE  \E d \in Cursor : J[d].pc = "read" /\ J[d].to = q
      OBVIOUS
    <3>1. QED
      BY <2>3, <1>14 DEF Sound
  <2>5. \A q \in Page : B[q].state = "absent" => B[q] = Absent
    <3> SUFFICES ASSUME NEW q \in Page, B[q].state = "absent"
                 PROVE  B[q] = Absent
      OBVIOUS
    <3>1. QED
      BY <1>14, <2>3 DEF Sound
  <2>6. \A q \in Page : B[q].state = "deleted" => q \in Leaf
    BY <1>2, <1>12, <1>14 DEF Sound
  <2>7. \A d \in Cursor : J[d].reg => B[J[d].page].state # "deleted"
    <3> SUFFICES ASSUME NEW d \in Cursor, J[d].reg
                 PROVE  B[J[d].page].state # "deleted"
      OBVIOUS
    <3>1. J[d] = itc[d]
      BY <1>9, <1>13
    <3>2. J[d].page # p
      BY SMTT(30), <1>1, <1>2, <3>1 DEF Sound
    <3>3. QED
      BY <1>14, RegisteredOnPage, <1>12, <3>2 DEF Sound, Types
  <2>8. \A d \in Cursor : J[d].pc = "call" => B[Target(J[d])].state # "deleted"
    <3> SUFFICES ASSUME NEW d \in Cursor, J[d].pc = "call"
                 PROVE  B[Target(J[d])].state # "deleted"
      OBVIOUS
    <3>1. J[d] = itc[d]
      BY <1>9, <1>13
    <3>2. Target(J[d]) \in Page /\ bd[Target(J[d])].state # "deleted"
      BY <1>14, TargetIsPage DEF Sound, Types
    <3>3. QED
      BY <1>1, <1>2, <3>1, NobodyAsks, <1>12, <3>2
  <2>9. QED
    BY <1>14, <2>1, <2>2, <2>4, <2>5, <2>6, <2>7, <2>8 DEF Sound
<1>16. \A q \in Page \ {p} : Counted(B, J, q)
  <2> TAKE q \in Page \ {p}
  <2>1. QED
    BY <1>9, <1>12, <1>1, <1>6, TurnAlike DEF Good
<1>17. b.is_write /\ b.readers = 0 /\ \A d \in Cursor : ~IsIn(J[d], p)
  <2>1. Lacks(bd[p], J, p)
    BY <1>1, <1>3, <1>6, <1>9, <1>10, QuitsLacks
  <2>2. c \in Writers(itc, p)
    BY ZenonT(60), <1>8, <1>9 DEF Freed, Writers
  <2>3. QED
    BY <1>10, <2>2, <1>11, <2>1 DEF Lacks, Counts
<1>18. LeftBy(B, J, p)
  BY <1>11, <1>12, <1>15, <1>16, <1>17 DEF LeftBy, Others, Returned
<1>19. PICK change : change = WAIT_ANY + 1
  OBVIOUS
<1>20. change = 9 /\ change \in 1 .. 9
  BY <1>19, BeyondAny
<1>21. Good(r.bd, r.itc)
  BY <1>3, <1>18, <1>20, MarkHeld, <1>7, <1>19, page_leave_innerGood
<1>22. QED
  BY <1>2, <1>5, <1>6, <1>4, <1>7, <1>21 DEF it_free_page

-----------------------------------------------------------------------------
(* The invariant is inductive *)

LEMMA InitGood ==
  ASSUME Init
  PROVE  Good(bd, itc)
<1>1. bd \in [Page -> {Free, Absent}] /\ itc = [c \in Cursor |-> Idle]
  BY DEF Init
<1>2. /\ Free \in Buffer /\ Absent \in Buffer
      /\ Free.state = "here" /\ Free.readers = 0 /\ ~Free.is_write
      /\ Free.write_waiting = <<>> /\ Free.read_waiting = <<>>
      /\ Absent.state = "absent" /\ Absent.readers = 0 /\ ~Absent.is_write
      /\ Absent.write_waiting = <<>> /\ Absent.read_waiting = <<>>
  BY EmptyElems DEF Free, Absent, Buffer
<1>3. \A p \in Page : bd[p] = Free \/ bd[p] = Absent
  BY <1>1
<1>4. \A p \in Page : /\ bd[p] \in Buffer /\ bd[p].readers = 0 /\ ~bd[p].is_write
                      /\ bd[p].write_waiting = <<>> /\ bd[p].read_waiting = <<>>
                      /\ bd[p].state # "deleted" /\ bd[p].state # "decoy" /\ (bd[p].state = "absent" => bd[p] = Absent)
  <2> TAKE p \in Page
  <2>1. CASE bd[p] = Free
    BY ZenonT(60), <2>1, <1>2
  <2>2. CASE bd[p] = Absent
    BY <2>2, <1>2
  <2>3. QED
    BY <1>3, <2>1, <2>2
<1>5. \A c \in Cursor : /\ itc[c] \in Itc /\ Place(itc[c]) /\ itc[c].pc = "out" /\ ~itc[c].reg
                        /\ itc[c].fn = "none" /\ itc[c].holds = {}
  BY <1>1, IdleFits
<1>6. \A c \in Cursor : itc[c].pc # "free" /\ itc[c].pc # "call" /\ itc[c].fn # "pl_enter"
  BY <1>5
<1>7. \A c \in Cursor, p \in Page : ~IsIn(itc[c], p) /\ ~Waits(itc[c], p)
  BY <1>5 DEF IsIn, Waits
<1>8. \A p \in Page : QueuesFit(bd, itc, p)
  <2> TAKE p \in Page
  <2>1. QED
    BY <1>7, <1>4, EmptyElems DEF QueuesFit
<1>9. \A p \in Page : Counted(bd, itc, p)
  <2> TAKE p \in Page
  <2>1. QED
    BY <1>7, FS_EmptySet, <1>4, <1>6 DEF Counted, Follows, Counts, Readers, Writers
<1>10. QED
  BY <1>1, <1>4, IdleFits, <1>5, <1>6, <1>8, <1>9 DEF Good, Sound, Types

LEMMA NextGood ==
  ASSUME Good(bd, itc), Next
  PROVE  Good(bd, itc)'
<1>1. ASSUME NEW p \in Page, bp_found(p)
      PROVE  Good(bd, itc)'
  BY <1>1, bp_foundGood
<1>2. ASSUME NEW c \in Cursor, Step(c)
      PROVE  Good(bd, itc)'
  BY <1>2, page_wait_accessGood, ReadDoneGood, GoOnGood, it_free_pageGood DEF Step
<1>3. ASSUME NEW c \in Cursor, Search(c)
      PROVE  Good(bd, itc)'
  <2>1. ASSUME NEW d \in DiveMode, itc_reset(c, d)
        PROVE  Good(bd, itc)'
    BY <2>1, itc_resetGood
  <2>2. CASE page_reenter_excl(c) \/ itc_unregister(c)
    BY <2>2, page_reenter_exclGood, itc_unregisterGood
  <2>3. ASSUME NEW p \in Leaf,
               \/ itc_dive_transit(c, p) \/ itc_landed_down_transit(c, p)
               \/ itc_up_transit(c, p) \/ itc_write_parent(c, p)
        PROVE  Good(bd, itc)'
    BY <2>3, TransitsGood
  <2>4. ASSUME NEW p \in Leaf, itc_set_parent_link(c, p) \/ itc_try_land(c, p) \/ pg_delete_move_cursors(c, p)
        PROVE  Good(bd, itc)'
    BY <2>4, itc_set_parent_linkGood, LandAtOnceGood, LandLaterGood, pg_delete_move_cursorsGood DEF itc_try_land
  <2>5. QED
    BY <1>3, <2>1, <2>2, <2>3, <2>4 DEF Search
<1>4. ASSUME NEW c \in Cursor, NEW p \in Page, LeavePage(c, p)
      PROVE  Good(bd, itc)'
  BY <1>4, LeaveGood DEF LeavePage
<1>5. QED
  BY <1>1, <1>2, <1>3, <1>4 DEF Next

LEMMA StutterGood ==
  ASSUME Good(bd, itc), UNCHANGED vars
  PROVE  Good(bd, itc)'
BY DEF vars

\* Every reachable state of the gate satisfies the inductive invariant: each queue holds
\* exactly the cursors that wait, the counts of each page tell who is inside, and the
\* fields of every cursor fit the place its thread has got to.
THEOREM Invariant == Spec => []IInv
<1>1. Init => IInv
  BY InitGood DEF IInv
<1>2. IInv /\ [Next]_vars => IInv'
  <2> SUFFICES ASSUME Good(bd, itc), [Next]_vars
               PROVE  Good(bd, itc)'
    BY DEF IInv
  <2>1. QED
    BY NextGood, StutterGood
<1>3. QED
  BY <1>1, <1>2, PTL DEF Spec

-----------------------------------------------------------------------------
(* The properties *)

\* The cursors a page counts, with both definitions.
LEMMA MembersAre ==
  ASSUME NEW p
  PROVE  /\ Members(p) = {c \in Cursor : IsIn(itc[c], p)}
         /\ {c \in Members(p) : ~HasWrite(c, p)} = Readers(itc, p)
         /\ \A c \in Members(p) : HasWrite(c, p) <=> c \in Writers(itc, p)
BY DEF Readers, Writers, Members, IsIn, HasWrite, IsWriter, Writes

LEMMA IInvType == IInv => TypeOK
<1> SUFFICES ASSUME Good(bd, itc)
             PROVE  TypeOK
  BY DEF IInv
<1>1. bd \in [Page -> Buffer] /\ itc \in [Cursor -> Itc]
  BY DEF Good, Sound, Types
<1>2. ASSUME NEW p \in Page
      PROVE  /\ bd[p].state \in {"here", "absent", "decoy", "deleted"}
             /\ bd[p].readers \in 0 .. Cardinality(Cursor)
             /\ bd[p].is_write \in BOOLEAN
             /\ Queued(bd[p]) \subseteq Cursor
  <2>1. /\ bd[p].state \in {"here", "absent", "decoy", "deleted"} /\ bd[p].is_write \in BOOLEAN
        /\ bd[p].write_waiting \in Seq(Cursor) /\ bd[p].read_waiting \in Seq(Cursor)
    BY <1>1, <1>2 DEF Buffer
  <2>2. Queued(bd[p]) \subseteq Cursor
    BY ZenonT(60), <2>1, ElemsCursors DEF Queued
  <2>3. bd[p].readers = Cardinality(Readers(itc, p)) /\ Readers(itc, p) \subseteq Cursor
    BY <1>2 DEF Good, Counted, Counts, Readers
  <2>4. /\ Cardinality(Readers(itc, p)) \in Nat /\ Cardinality(Cursor) \in Nat
        /\ Cardinality(Readers(itc, p)) <= Cardinality(Cursor)
    BY <2>3, CursorsFinite, MembersFinite, FS_Subset, FS_CardinalityType
  <2>5. bd[p].readers \in 0 .. Cardinality(Cursor)
    BY <2>3, <2>4, UpTo
  <2>6. QED
    BY <2>1, <2>2, <2>5
<1>3. ASSUME NEW c \in Cursor
      PROVE  /\ itc[c].pc \in {"out", "in", "call", "read", "wait", "woken", "free"}
             /\ itc[c].fn \in Call \cup {"none"}
             /\ itc[c].holds \subseteq Page
             /\ itc[c].to_reset \in 0 .. 9
  BY <1>1, <1>3 DEF Itc, Places
<1>4. QED
  BY <1>2, <1>3 DEF TypeOK

LEMMA IInvCounts == IInv => GateCounts
<1> SUFFICES ASSUME Good(bd, itc), NEW p \in Page
             PROVE  /\ bd[p].readers = Cardinality({c \in Members(p) : ~HasWrite(c, p)})
                    /\ bd[p].is_write <=> \E c \in Members(p) : HasWrite(c, p)
                    /\ bd[p].is_write => Cardinality(Members(p)) = 1
  BY DEF IInv, GateCounts
<1>1. Counts(bd, itc, p)
  BY DEF Good, Counted
<1>2. ASSUME bd[p].is_write
      PROVE  Cardinality(Members(p)) = 1
  <2>1. PICK c : c \in Writers(itc, p)
    BY <1>1, <1>2 DEF Counts
  <2>2. Members(p) = Readers(itc, p) \cup Writers(itc, p)
    BY MembersAre DEF Readers, Writers
  <2>3. Members(p) = {c}
    BY <1>1, <2>1, <2>2 DEF Counts
  <2>4. QED
    BY <2>3, FS_Singleton
<1>3. QED
  BY MembersAre, <1>1, <1>2 DEF Counts, Writers

LEMMA QueuedAre ==
  ASSUME Good(bd, itc), NEW p \in Page
  PROVE  Queued(bd[p]) = {c \in Cursor : Waits(itc[c], p)}
<1>1. QueuesFit(bd, itc, p)
  BY DEF Good, Sound
<1>2. QED
  BY ZenonT(60), <1>1 DEF QueuesFit, Queued

LEMMA IInvAwaited == IInv => WaitersAwaited
<1> SUFFICES ASSUME Good(bd, itc), NEW p \in Page
             PROVE  /\ Queued(bd[p]) = {c \in Cursor : itc[c].pc = "wait" /\ itc[c].to = p}
                    /\ Queued(bd[p]) # {} => Members(p) # {}
  BY DEF IInv, WaitersAwaited
<1>1. Queued(bd[p]) = {c \in Cursor : Waits(itc[c], p)}
  BY QueuedAre
<1>2. QED
  BY MembersAre, <1>1 DEF Waits, Good, Counted

LEMMA IInvUnchanged == IInv => EntersUnchanged
<1> SUFFICES ASSUME Good(bd, itc), NEW c \in Cursor, itc[c].pc = "woken", itc[c].entered # NoPage
             PROVE  /\ itc[c].changed <= MaxChange(itc[c].fn)
                    /\ itc[c].fn = "pl_enter" => itc[c].entered = itc[c].page
  BY DEF IInv, EntersUnchanged
<1>1. WokenFits(itc[c]) /\ itc[c] \in Itc
  BY DEF Good, Sound, Place, Types
<1>2. PICK p \in Page : p = itc[c].entered
  BY <1>1 DEF Itc
<1>3. QED
  BY <1>2, <1>1 DEF WokenFits, Good, Counted, Follows, IsIn

LEMMA IInvDeleted == IInv => DeletedLeft
<1> SUFFICES ASSUME Good(bd, itc), NEW p \in Page, ~Exists(p)
             PROVE  /\ Members(p) = {} /\ Queued(bd[p]) = {}
                    /\ \A c \in Cursor : itc[c].pc = "call" => Target(itc[c]) # p
  BY DEF IInv, DeletedLeft
<1>1. bd[p].state = "deleted"
  BY DEF Exists
<1>2. \A c \in Cursor : itc[c].pc = "call" => Target(itc[c]) # p
  <2>1. \A c \in Cursor : itc[c].pc = "call" => bd[Target(itc[c])].state # "deleted"
    BY DEF Good, Sound
  <2>2. QED
    BY <1>1, <2>1
<1>3. QED
  BY <1>1, MembersAre, QueuedAre, <1>2 DEF Good, Counted, Deserted

\* A cursor that waits inside a page is in a leaf, and waits for the root.
LEMMA WaitsInLeaf ==
  ASSUME NEW i \in Itc, Place(i), i.pc = "wait", NEW p, IsIn(i, p)
  PROVE  p \in Leaf /\ i.to = Root
BY DEF CallFits, Place, Calling, IsIn

LEMMA IInvNoDeadlock == IInv => NoDeadlock
<1> SUFFICES ASSUME Good(bd, itc), NEW S \in SUBSET {c \in Cursor : itc[c].pc = "wait"}, S # {},
                    \A c \in S : Members(itc[c].to) \subseteq S
             PROVE  FALSE
  BY DEF IInv, NoDeadlock
<1>1. \A c \in S : c \in Cursor /\ itc[c].pc = "wait" /\ itc[c] \in Itc /\ Place(itc[c])
  BY DEF Good, Sound, Types
<1>2. ASSUME NEW c \in S
      PROVE  \E d \in S : IsIn(itc[d], itc[c].to)
  <2>1. itc[c].to \in Page
    BY ZenonT(60), <1>1 DEF Place, CallFits, Page
  <2>2. PICK p \in Page : p = itc[c].to
    BY <2>1
  <2>3. PICK d \in Cursor : IsIn(itc[d], p)
    BY <1>1, <2>2 DEF Good, Counted, Waits
  <2>4. QED
    BY <2>3, MembersAre, <2>2
<1>3. PICK c \in S : TRUE
  OBVIOUS
<1>4. PICK d \in S : IsIn(itc[d], itc[c].to)
  BY <1>2, <1>3
<1>5. PICK e \in S : IsIn(itc[e], itc[d].to)
  BY <1>2, <1>4
<1>6. QED
  BY <1>1, <1>4, WaitsInLeaf, <1>5, PagesApart

\* The fields of buffers and cursors range over what the C fields can hold; in particular
\* bd_readers never exceeds the number of cursors and is never decremented below zero.
THEOREM TypeCorrect == Spec => []TypeOK
  BY Invariant, IInvType, PTL

\* bd_readers and bd_is_write tell exactly which cursors are inside a page, and a writer is
\* alone in it: through page_wait_access, page_leave_inner and the releases it makes,
\* itc_try_land, and reads from disk.
THEOREM GateCountsCorrect == Spec => []GateCounts
  BY Invariant, IInvCounts, PTL

\* No wakeup is lost: every cursor that waits is in a queue of the page that it waits for,
\* and somebody is inside that page, who will release the queue on leaving.
THEOREM WaitersAwaitedCorrect == Spec => []WaitersAwaited
  BY Invariant, IInvAwaited, PTL

\* page_release_read and page_release_writes let a waiter in only if page_mark_change has
\* reported no more than the caller of page_wait_access accepts, and a cursor that follows
\* its registration only into the page it is registered on.
THEOREM EntersUnchangedCorrect == Spec => []EntersUnchanged
  BY Invariant, IInvUnchanged, PTL

\* When page_leave_as_deleted has left a page, nobody is inside it, nobody waits for it and
\* no call of page_wait_access under way asks for it.
THEOREM DeletedLeftCorrect == Spec => []DeletedLeft
  BY Invariant, IInvDeleted, PTL

\* Waits for pages form no cycle: whoever waits while inside a page waits for the root, and
\* nobody waits while inside the root.
THEOREM NoDeadlockCorrect == Spec => []NoDeadlock
  BY Invariant, IInvNoDeadlock, PTL
=============================================================================
