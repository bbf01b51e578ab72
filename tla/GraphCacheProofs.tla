-------------------------- MODULE GraphCacheProofs --------------------------
(***************************************************************************)
(* The properties of module GraphCache, for every set of threads, slots    *)
(* and graphs, and any number of commits and installs.                     *)
(*                                                                         *)
(* The proof goes in stages, each an inductive invariant that uses the     *)
(* ones before it: what the slots are and count (Cached) and what bounds   *)
(* versions, queues and waits (Bounded), both in module GraphCacheSlots;   *)
(* that a graph is found in one slot and a reservation has its loader      *)
(* (Owned), and what versions the entries that a query can find have       *)
(* (Seen).                                                                 *)
(***************************************************************************)
EXTENDS GraphCacheSlots

\* Zenon proves the leaves that name no other prover.
USE Zenon

\* A graph is found in one slot at most.
FoundOnce ==
    \A r, s \in Slot : Found(r) /\ Found(s) /\ entries[r].key = entries[s].key => r = s

\* The thread that made a reservation is going to put or to abort it.
LoadersLoad ==
    \A s \in Slot : entries[s].loading =>
        LET u == entries[s].loader
        IN  /\ u \in Query /\ th[u].key = entries[s].key
            /\ th[u].pc \in {"load", "loaded", "put", "abort", "declined"}

\* What queries look up and load, commits know of.
KeysKnown ==
    /\ \A t \in Query : th[t].pc # "idle" => th[t].key \in RdfGraph \cup sources
    /\ \A s \in Slot : entries[s].loading \/ (entries[s].valid /\ entries[s].loader = "own")
                          => entries[s].key \in RdfGraph \cup sources

\* A query never is where GRAPH_LOAD_TABLE is.
QueriesApart ==
    \A t \in Query : th[t].pc \notin {"registered", "invalidated"}

Owned == FoundOnce /\ LoadersLoad /\ KeysKnown /\ QueriesApart

-----------------------------------------------------------------------------
\* The entry in s has version v, or is going to get it from its loader.
Reads(s, v) ==
    LET e == entries[s]
    IN  \/ e.valid /\ e.loader = "own" /\ v = e.version
        \/ /\ e.loading /\ ~e.invalidated
           /\ th[e.loader].pc \in {"loaded", "put"} /\ v = th[e.loader].version

\* A version that a query can find: no returned commit has written a later one, or the
\* next drain is told so; and a query that has had its drain needs none later.
VersionsSeen ==
    \A s \in Slot : \A v \in Nat :
        Reads(s, v) /\ ~entries[s].evicting /\ entries[s].generation = generation =>
            /\ \/ committed[entries[s].key] <= v
               \/ pend.overflow
               \/ \E i \in DOMAIN pend.ids : pend.ids[i] = entries[s].key
            /\ \A t \in Query : th[t].pc \in {"look", "waiting"} /\ th[t].key = entries[s].key
                                  => th[t].need <= v

\* What a query needs had been committed, and what it has loaded itself is no older.
NeedsMet ==
    \A t \in Query :
        /\ th[t].pc # "idle" => th[t].need <= committed[th[t].key]
        /\ th[t].pc \in {"loaded", "put", "declined"} => th[t].need <= th[t].version
        /\ th[t].pc = "use" /\ th[t].slot = None => th[t].need <= th[t].version
        /\ th[t].pc = "use" /\ th[t].slot # None /\ entries[th[t].slot].loader = "own"
             => th[t].need <= th[t].version

Seen == VersionsSeen /\ NeedsMet

-----------------------------------------------------------------------------
(* The second invariant *)

Loads == {"load", "loaded", "put", "abort", "declined"}

\* Where a query is, and what it looks up, is in order.
Known(t) ==
    /\ th[t].pc # "idle" => th[t].key \in RdfGraph \cup sources
    /\ th[t].pc \notin {"registered", "invalidated"}

\* A load goes on.
LoadsOn(t) == th'[t].key = th[t].key /\ th'[t].pc \in Loads

\* The reservation in s has its loader.
Loading(s) ==
    LET u == entries[s].loader
    IN  u \in Query /\ th[u].key = entries[s].key /\ th[u].pc \in Loads

LEMMA OwnedIs ==
  Owned <=> /\ FoundOnce
            /\ \A s \in Slot : entries[s].loading => Loading(s)
            /\ \A t \in Query : Known(t)
            /\ \A s \in Slot : entries[s].loading \/ (entries[s].valid /\ entries[s].loader = "own")
                                  => entries[s].key \in RdfGraph \cup sources
BY DEF Owned, LoadersLoad, Loading, Loads, KeysKnown, Known, QueriesApart

LEMMA OwnedNextIs ==
  Owned' <=> /\ FoundOnce'
             /\ \A s \in Slot : entries'[s].loading => Loading(s)'
             /\ \A t \in Query : Known(t)'
             /\ \A s \in Slot : entries'[s].loading \/ (entries'[s].valid /\ entries'[s].loader = "own")
                                   => entries'[s].key \in RdfGraph \cup sources'
BY DEF Owned, LoadersLoad, Loading, Loads, KeysKnown, Known, QueriesApart

\* What is found has been found before, and a generation that has passed does not come back.
LEMMA FoundBefore ==
  ASSUME Cached, generation' \in Nat, generation' >= generation, NEW s \in Slot,
         Kept(s) \/ entries'[s] = Empty, Found(s)'
  PROVE  Kept(s) /\ Found(s) /\ (entries[s].valid => generation' = generation)
<1>1. Kept(s)
  BY EmptyIs DEF Found
<1>2. entries[s].generation \in Nat /\ generation \in Nat /\ entries[s].generation <= generation
  BY DEF Cached, Types, Entry, Slots, Fit
<1>3. entries[s].valid => entries[s].generation = generation'
  BY <1>1 DEF Found, Kept
<1>4. entries[s].valid => generation' = generation
  BY SMT, <1>2, <1>3
<1>5. QED
  BY <1>1, <1>3, <1>4 DEF Found, Kept

\* Steps that make no reservation and put nothing.
LEMMA OwnedKept ==
  ASSUME Cached, Owned, \A s \in Slot : Kept(s) \/ entries'[s] = Empty,
         generation' \in Nat, generation' >= generation, sources \subseteq sources',
         \A u \in Query : \/ th'[u] = th[u]
                          \/ /\ Known(u)'
                             /\ \A s \in Slot : entries'[s].loading /\ entries[s].loader = u => LoadsOn(u)
  PROVE  Owned'
<1>1. ASSUME NEW s \in Slot, entries'[s].loading PROVE Loading(s)'
  <2>1. Kept(s) /\ entries[s].loading
    BY <1>1, EmptyIs DEF Kept
  <2>2. Loading(s)
    BY <2>1, OwnedIs
  <2>3. QED
    BY <1>1, <2>2, <2>1 DEF Loading, LoadsOn, Kept
<1>2. ASSUME NEW u \in Query PROVE Known(u)'
  BY <1>2, OwnedIs DEF Known
<1>3. ASSUME NEW s \in Slot, entries'[s].loading \/ (entries'[s].valid /\ entries'[s].loader = "own")
      PROVE  entries'[s].key \in RdfGraph \cup sources'
  BY <1>3, EmptyIs, OwnedIs DEF Kept
<1>4. QED
  BY FoundBefore, <1>1, <1>2, <1>3, OwnedNextIs DEF Kept, Owned, FoundOnce

\* The same, for a thread.
LEMMA OwnedStep ==
  ASSUME Cached, Owned, \A s \in Slot : Kept(s) \/ entries'[s] = Empty,
         generation' \in Nat, generation' >= generation, sources \subseteq sources',
         NEW t \in Thread, Only(t),
         t \in Query => /\ Known(t)'
                        /\ th[t].pc \notin Loads \/ LoadsOn(t)
  PROVE  Owned'
<1>1. ASSUME NEW u \in Query
      PROVE  \/ th'[u] = th[u]
             \/ /\ Known(u)'
                /\ \A s \in Slot : entries'[s].loading /\ entries[s].loader = u => LoadsOn(u)
  <2>1. CASE u # t
    BY <2>1 DEF Only, Thread
  <2>2. CASE u = t
    BY EmptyIs, <2>2, OwnedIs DEF Kept, Loading
  <2>3. QED
    BY <2>1, <2>2
<1>2. QED
  BY <1>1, OwnedKept

\* A query that looks up what it has been looking up.
LEMMA KnownStill ==
  ASSUME Owned, NEW t \in Query, th[t].pc # "idle", sources \subseteq sources',
         th'[t].pc \notin {"registered", "invalidated"},
         th'[t].pc = "idle" \/ th'[t].key = th[t].key
  PROVE  Known(t)'
BY OwnedIs DEF Known

\* The steps of installers, whatever they do.
LEMMA InstallersApart == \A t \in Installer : t \in Thread /\ t \notin Query
BY Apart DEF Thread

\* A drain keeps or drops.
LEMMA DrainKeeps ==
  ASSUME Cached, NEW g0 \in Nat, g0 >= generation, NEW gone, gcache_drain_locked(g0, gone)
  PROVE  /\ \A s \in Slot : Kept(s) \/ entries'[s] = Empty
         /\ generation' \in Nat /\ generation' >= generation
BY DrainState DEF Drops, Cached

\* The drains.
LEMMA DrainsOwned ==
  ASSUME Cached, Owned, NEW t \in Thread,
         \/ t \in Query /\ \E g \in Graph : EnterLookup(t, g)
         \/ t \in Installer /\ \E g \in TableGraph : gcache_invalidate(t, g)
         \/ EnterPut(t)
         \/ t \in Installer /\ gcache_increment_generation(t)
  PROVE  Owned'
<1>1. Types /\ generation \in Nat
  BY DEF Cached, Types
<1>2. generation >= generation /\ generation + 1 \in Nat /\ generation + 1 >= generation
  BY SMT, <1>1
<1>3. ASSUME t \in Query, NEW g \in Graph, EnterLookup(t, g) PROVE Owned'
  <2>1. Moves(t) /\ th[t].pc \notin Loads /\ th'[t].pc \notin {"registered", "invalidated"} /\ th'[t].key = g
    BY SMT, <1>1, <1>3, EnterLookupMoves DEF Loads
  <2>2. QED
    BY <1>3, <2>1, <1>1, <1>2, DrainKeeps, OwnedStep DEF Moves, Known, EnterLookup
<1>4. ASSUME t \in Installer, NEW g \in TableGraph, gcache_invalidate(t, g) PROVE Owned'
  BY <1>1, <1>4, gcache_invalidateMoves, InstallersApart, <1>2, DrainKeeps, OwnedStep DEF gcache_invalidate, Moves
<1>5. CASE EnterPut(t)
  <2>1. Moves(t) /\ th'[t].pc = "put" /\ th'[t].key = th[t].key /\ (t \in Query => th[t].pc = "loaded")
    BY <1>1, <1>5, EnterPutMoves DEF SameRequest
  <2>2. gcache_drain_locked(generation, {}) /\ sources' = sources
    BY <1>5 DEF EnterPut
  <2>3. t \in Query => Known(t)' /\ LoadsOn(t)
    <3>1. th'[t].pc \in Loads /\ th'[t].pc \notin {"registered", "invalidated"} /\ (t \in Query => th[t].pc # "idle")
      BY SMT, <2>1 DEF Loads
    <3>2. QED
      BY <2>1, <2>2, <3>1, KnownStill DEF LoadsOn
  <2>4. QED
    BY <1>1, <1>2, <2>1, <2>2, <2>3, DrainKeeps, OwnedStep DEF Moves
<1>6. CASE t \in Installer /\ gcache_increment_generation(t)
  BY <1>1, <1>6, gcache_increment_generationMoves, InstallersApart, <1>2, DrainKeeps, OwnedStep DEF gcache_increment_generation, Moves
<1>7. QED
  BY <1>3, <1>4, <1>5, <1>6

\* Outside the drain the generation stays.
LEMMA SameGeneration ==
  ASSUME Cached, UNCHANGED generation
  PROVE  generation' \in Nat /\ generation' >= generation
<1>1. generation \in Nat
  BY DEF Cached, Types
<1>2. QED
  BY SMT, <1>1

\* The steps that leave the cache alone.
LEMMA QuietsOwned ==
  ASSUME Cached, Owned, NEW t \in Thread,
         WaitForLoader(t) \/ FailLookup(t) \/ Load(t) \/ (t \in Installer /\ vgraph_table_src_set(t))
  PROVE  Owned'
<1>1. Types
  BY DEF Cached
<1>2. UNCHANGED <<entries, generation>> /\ sources \subseteq sources'
  BY DEF WaitForLoader, Looking, FailLookup, Load, vgraph_table_src_set, cache
<1>3. generation' \in Nat /\ generation' >= generation
  BY <1>2, SameGeneration
<1>4. \A s \in Slot : Kept(s) \/ entries'[s] = Empty
  BY <1>2 DEF Kept
<1>5. CASE WaitForLoader(t)
  <2>1. Moves(t) /\ th[t].pc \in {"look", "waiting"} /\ th'[t].pc \in {"waiting", "gave up"} /\ th'[t].key = th[t].key
    BY <1>1, <1>5, WaitForLoaderMoves DEF SameRequest
  <2>2. th[t].pc \notin Loads /\ th[t].pc # "idle" /\ th'[t].pc \notin {"registered", "invalidated"}
    BY ZenonT(30), <2>1 DEF Loads
  <2>3. QED
    BY <1>2, <1>3, <1>4, <2>1, <2>2, KnownStill, OwnedStep DEF Moves
<1>6. CASE FailLookup(t)
  <2>1. Moves(t) /\ th[t].pc = "gave up" /\ th'[t].pc = "idle"
    BY <1>1, <1>6, NoSlotMoves DEF FailLookup
  <2>2. th[t].pc \notin Loads /\ th[t].pc # "idle" /\ th'[t].pc \notin {"registered", "invalidated"}
    BY ZenonT(30), <2>1 DEF Loads
  <2>3. QED
    BY <1>2, <1>3, <1>4, <2>1, <2>2, KnownStill, OwnedStep DEF Moves
<1>7. CASE Load(t)
  <2>1. /\ Moves(t) /\ th[t].pc = "load"
        /\ \/ th'[t].pc = "loaded" /\ th'[t].key = th[t].key
           \/ th'[t].pc = "abort" /\ th'[t].key = th[t].key
           \/ t \notin Query
    BY <1>1, <1>7, LoadMoves DEF SameRequest
  <2>2. t \in Query => /\ LoadsOn(t) /\ th[t].pc # "idle" /\ th'[t].pc \notin {"registered", "invalidated"}
                       /\ th'[t].key = th[t].key
    BY SMT, <2>1 DEF Loads, LoadsOn
  <2>3. QED
    BY <1>2, <1>3, <1>4, <2>1, <2>2, KnownStill, OwnedStep DEF Moves
<1>8. CASE t \in Installer /\ vgraph_table_src_set(t)
  <2>1. Moves(t) /\ t \notin Query
    BY <1>1, <1>8, vgraph_table_src_setMoves, InstallersApart
  <2>2. QED
    BY <1>2, <1>3, <1>4, <2>1, OwnedStep DEF Moves
<1>9. QED
  BY <1>5, <1>6, <1>7, <1>8

\* Lookups that get an entry, or no slot, and the end of a query.
LEMMA EndsOwned ==
  ASSUME Cached, Owned, NEW t \in Thread,
         (\E s \in Slot : Hit(t, s)) \/ NoSlot(t) \/ gcache_release(t)
  PROVE  Owned'
<1>1. Types
  BY DEF Cached
<1>2. \A s \in Slot : Kept(s) \/ entries'[s] = Empty
  <2>1. ASSUME NEW s \in Slot, Hit(t, s) PROVE \A r \in Slot : Kept(r)
    BY <2>1, HitEntries
  <2>2. CASE NoSlot(t)
    BY <2>2, NoSlotEntries
  <2>3. CASE gcache_release(t)
    <3>1. CASE th[t].slot = None
      BY <2>3, <3>1 DEF gcache_release, Kept
    <3>2. CASE th[t].slot \in Slot
      BY ZenonT(60), <2>3, <3>2, gcache_releaseEntries DEF Kept
    <3>3. QED
      BY <1>1, <3>1, <3>2 DEF Types, Request
  <2>4. QED
    BY <2>1, <2>2, <2>3
<1>3. /\ Moves(t) /\ th[t].pc \in {"look", "waiting", "gave up", "use"}
      /\ th'[t].pc = "idle" \/ (th'[t].pc = "use" /\ th'[t].key = th[t].key)
  <2>1. ASSUME NEW s \in Slot, Hit(t, s) PROVE Moves(t) /\ th[t].pc \in {"look", "waiting"} /\ th'[t].pc = "use" /\ th'[t].key = th[t].key
    BY SMTT(30), <1>1, <2>1, HitMoves
  <2>2. CASE NoSlot(t)
    BY ZenonT(30), <1>1, <2>2, NoSlotMoves
  <2>3. CASE gcache_release(t)
    BY ZenonT(30), <1>1, <2>3, gcache_releaseMoves
  <2>4. QED
    BY <2>1, <2>2, <2>3
<1>4. th[t].pc \notin Loads /\ th[t].pc # "idle" /\ th'[t].pc \notin {"registered", "invalidated"}
  BY ZenonT(30), <1>3 DEF Loads
<1>5. QED
  BY SameGeneration, <1>2, <1>3, <1>4, KnownStill, OwnedStep DEF Moves, Hit, NoSlot, Looking, gcache_release

\* A put that declines leaves the reservation to gcache_abort_load.
LEMMA PutDeclinedOwned ==
  ASSUME Cached, Owned, NEW t \in Thread, PutDeclined(t)
  PROVE  Owned'
<1>1. PICK D \in SUBSET Valid : /\ \A r \in D : entries'[r] = Empty
                                /\ \A r \in Slot \ D : entries'[r] = entries[r]
  BY PutDeclinedEntries
<1>2. /\ Moves(t) /\ th[t].pc = "put"
      /\ t \notin Query \/ (th'[t].pc = "declined" /\ th'[t].key = th[t].key)
  BY PutDeclinedMoves DEF SameRequest, Cached
<1>3. t \in Query => /\ LoadsOn(t) /\ th[t].pc # "idle" /\ th'[t].pc \notin {"registered", "invalidated"}
                     /\ th'[t].key = th[t].key
  BY SMT, <1>2 DEF Loads, LoadsOn
<1>4. QED
  BY SameGeneration, <1>1, <1>2, <1>3, KnownStill, OwnedStep DEF Moves, Kept, PutDeclined, Putting

\* gcache_abort_load leaves no reservation of its thread.
LEMMA gcache_abort_loadOwned ==
  ASSUME Cached, Owned, NEW t \in Query, gcache_abort_load(t)
  PROVE  Owned'
<1>1. Types /\ t \in Thread
  BY DEF Cached, Thread
<1>2. \A r \in Slot : IF entries[r].loading /\ entries[r].key = th[t].key THEN entries'[r] = Empty
                      ELSE entries'[r] = entries[r]
  BY <1>1, gcache_abort_loadEntries
<1>3. /\ Moves(t) /\ th[t].pc # "idle" /\ th'[t].pc \notin {"registered", "invalidated"}
      /\ th'[t].pc = "idle" \/ th'[t].key = th[t].key
  BY SMT, <1>1, gcache_abort_loadMoves DEF SameRequest
<1>4. ASSUME NEW s \in Slot, entries'[s].loading, entries[s].loader = t PROVE FALSE
  BY <1>2, <1>4, EmptyIs, OwnedIs DEF Loading
<1>5. \A u \in Query : u # t => th'[u] = th[u]
  BY <1>3 DEF Moves, Only, Thread
<1>6. QED
  BY SameGeneration, <1>3, KnownStill, <1>2, <1>4, <1>5, OwnedKept DEF Kept, gcache_abort_load

\* Neither a reservation nor a put makes a second entry of its graph.
LEMMA FoundOnceMore ==
  ASSUME Owned, NEW s \in Slot,
         \A r \in Slot : r # s /\ Found(r)' => entries'[r] = entries[r] /\ Found(r) /\ entries'[r].key # entries'[s].key
  PROVE  FoundOnce'
<1>1. ASSUME NEW q \in Slot, NEW r \in Slot, Found(q)', Found(r)', entries'[q].key = entries'[r].key
      PROVE  q = r
  BY <1>1 DEF Owned, FoundOnce
<1>2. QED
  BY <1>1 DEF FoundOnce

\* A reservation is made where nothing is found.
LEMMA ReserveOwned ==
  ASSUME Cached, Owned, NEW t \in Query, NEW s \in Slot, NEW old \in Slot \cup {None}, Reserve(t, s, old)
  PROVE  Owned'
<1>1. Types /\ t \in Thread
  BY DEF Cached, Thread
<1>2. UNCHANGED <<generation, sources>> /\ generation \in Nat
  BY <1>1 DEF Reserve, Looking, Types
<1>3. Moves(t) /\ th[t].pc \in {"look", "waiting"} /\ th'[t].pc = "load" /\ th'[t].key = th[t].key
  BY <1>1, ReserveMoves DEF SameRequest
<1>4. /\ th[t].pc # "idle" /\ th[t].pc \notin Loads /\ th'[t].pc \notin {"registered", "invalidated"}
      /\ th'[t].pc \in Loads
  BY SMT, <1>3 DEF Loads
<1>5. th[t].key \in RdfGraph \cup sources /\ th[t].key \in Graph
  BY <1>1, <1>4, OwnedIs DEF Known, Types, KeyFits
<1>6. entries'[s].valid = FALSE /\ entries'[s].key = th[t].key /\ entries'[s].loader = t
  <2>1. Reserved(Reservation(t, th[t].key), t, th[t].key)
    BY <1>1, <1>2, <1>5, ReservationIs
  <2>2. QED
    BY <1>1, ReserveEntries, <2>1 DEF Reserved
<1>7. \A r \in Slot : r # s /\ r # old => entries'[r] = entries[r]
  BY <1>1, ReserveEntries
<1>8. /\ old = None => find_entry_locked(th[t].key) = {}
      /\ old # None => old \in find_entry_locked(th[t].key)
      /\ old # None /\ old # s => Kept(old) \/ entries'[old] = Empty
      /\ old # None /\ old # s => entries'[old].evicting /\ entries'[old].loading = FALSE
  <2>1. /\ old = None => find_entry_locked(th[t].key) = {}
        /\ old # None => old \in find_entry_locked(th[t].key)
    BY <1>1, ReserveEntries
  <2>2. old # None /\ old # s => Drops(old)
    BY <1>1, ReserveEntries
  <2>3. old # None /\ old # s => entries'[old].loading = FALSE
    BY ZenonT(60), <1>1, ReserveEntries
  <2>4. QED
    BY <1>1, ReserveEntries, <2>1, <2>2, <2>3 DEF Drops
<1>9. ASSUME NEW r \in Slot, r # s, Found(r)'
      PROVE  entries'[r] = entries[r] /\ Found(r) /\ entries'[r].key # entries'[s].key
  <2>1. r # old
    BY <1>8, <1>9, NoneApart DEF Found
  <2>2. entries'[r] = entries[r] /\ Found(r)
    BY <1>2, <1>7, <1>9, <2>1 DEF Found
  <2>3. entries[r].key # th[t].key
    BY <1>8, <2>2, FoundIs, <2>1 DEF Owned, FoundOnce
  <2>4. QED
    BY <1>6, <2>2, <2>3
<1>10. ASSUME NEW r \in Slot, entries'[r].loading PROVE Loading(r)'
  <2>1. CASE r = s
    BY <1>3, <1>4, <1>6, <2>1 DEF Loading
  <2>2. CASE r # s
    <3>1. entries'[r] = entries[r]
      BY <1>7, <1>8, <1>10, <2>2, NoneApart
    <3>2. Loading(r)
      BY <1>10, <3>1, OwnedIs
    <3>3. QED
      BY <1>4, <3>2, <1>3, <3>1 DEF Loading, Moves, Only, Thread
  <2>3. QED
    BY <2>1, <2>2
<1>11. ASSUME NEW u \in Query PROVE Known(u)'
  BY <1>2, <1>3, <1>4, KnownStill, OwnedIs DEF Known, Moves, Only, Thread
<1>12. ASSUME NEW r \in Slot, entries'[r].loading \/ (entries'[r].valid /\ entries'[r].loader = "own")
       PROVE  entries'[r].key \in RdfGraph \cup sources'
  <2>1. CASE r = s
    BY <1>2, <1>5, <1>6, <2>1
  <2>2. CASE r # s
    <3>1. entries'[r] = entries[r] \/ Kept(r)
      BY <1>7, <1>8, <2>2, NoneApart, <1>12, EmptyIs
    <3>2. QED
      BY <1>12, <3>1, <1>2, OwnedIs DEF Kept
  <2>3. QED
    BY <2>1, <2>2
<1>13. QED
  BY <1>9, FoundOnceMore, <1>10, <1>11, <1>12, OwnedNextIs

\* A put takes the slot in which the graph is found, if it is.
LEMMA gcache_putOwned ==
  ASSUME Cached, Owned, NEW t \in Thread, NEW s \in Slot, NEW V \in SUBSET Slot, gcache_put(t, s, V)
  PROVE  Owned'
<1>1. Types /\ Slots
  BY DEF Cached
<1>2. UNCHANGED <<generation, sources>>
  BY DEF gcache_put, Putting
<1>3. Moves(t) /\ th[t].pc = "put" /\ th'[t].pc = "use" /\ th'[t].key = th[t].key
  BY <1>1, gcache_putMoves DEF SameRequest
<1>4. th[t].pc # "idle" /\ th'[t].pc \notin {"registered", "invalidated"}
  BY SMTT(30), <1>3
<1>5. \A r \in Slot : r # s => entries'[r] = entries[r] \/ entries'[r] = Empty
  BY gcache_putEntries
<1>6. IF find_entry_locked(th[t].key) = {} THEN ~entries[s].loading ELSE s \in find_entry_locked(th[t].key)
  BY gcache_putEntries
<1>7. IsPut(entries'[s], t, entries[s])
  BY gcache_putEntry
<1>8. entries'[s].key = th[t].key /\ entries'[s].loading = FALSE
      /\ (entries'[s].loader = "own" => entries[s].loading /\ entries[s].loader = t)
  BY <1>7, NoneApart DEF IsPut
<1>9. ASSUME NEW r \in Slot, r # s, Found(r) PROVE entries[r].key # th[t].key
  BY <1>6, <1>9, FoundIs DEF Owned, FoundOnce
<1>10. ASSUME NEW r \in Slot, r # s, Found(r)'
       PROVE  entries'[r] = entries[r] /\ Found(r) /\ entries'[r].key # entries'[s].key
  BY <1>5, <1>10, EmptyIs, <1>2, <1>8, <1>9 DEF Found
<1>11. ASSUME NEW r \in Slot, entries'[r].loading PROVE Loading(r)'
  <2>1. r # s /\ entries'[r] = entries[r]
    BY <1>5, <1>8, <1>11, EmptyIs
  <2>2. Loading(r) /\ Found(r)
    BY <1>1, <1>11, <2>1, OwnedIs DEF Slots, Fit, Found
  <2>3. QED
    BY <1>9, <2>1, <2>2, <1>3 DEF Loading, Moves, Only, Thread
<1>12. ASSUME NEW u \in Query PROVE Known(u)'
  BY <1>2, <1>3, <1>4, KnownStill, OwnedIs DEF Known, Moves, Only, Thread
<1>13. ASSUME NEW r \in Slot, entries'[r].loading \/ (entries'[r].valid /\ entries'[r].loader = "own")
       PROVE  entries'[r].key \in RdfGraph \cup sources'
  BY <1>8, <1>13, OwnedIs, <1>2, <1>4, <1>5, EmptyIs DEF Loading, Known
<1>14. QED
  BY <1>10, FoundOnceMore, <1>11, <1>12, <1>13, OwnedNextIs

\* Commits leave slots and threads alone.
LEMMA CommitOwned ==
  ASSUME Cached, Owned, CommitStep
  PROVE  Owned'
<1>1. generation \in Nat /\ Types
  BY DEF Cached, Types
<1>2. generation' \in Nat /\ generation' >= generation
  <2>1. ASSUME NEW W, lt_transact(W) PROVE generation' = generation
    BY <2>1 DEF lt_transact, cache
  <2>2. ASSUME NEW C, vgraph_commit_notify(C) PROVE generation' \in Nat /\ (generation' > generation \/ generation' = generation)
    BY <1>1, <2>2, NotifyIs
  <2>3. generation' \in Nat /\ (generation' > generation \/ generation' = generation)
    BY <1>1, <2>1, <2>2 DEF CommitStep
  <2>4. QED
    BY SMT, <1>1, <2>3
<1>3. QED
  BY <1>2, OwnedKept DEF Kept, CommitStep, lt_transact, vgraph_commit_notify, cache

LEMMA InitOwned == Init => Owned
<1> SUFFICES ASSUME Init PROVE Owned
  BY SMT
<1>1. entries = [s \in Slot |-> Empty] /\ th = [t \in Thread |-> Idle]
  BY DEF Init
<1>2. \A t \in Query : th[t].pc = "idle"
  BY <1>1, IdleIs DEF Thread
<1>3. \A t \in Query : Known(t)
  BY SMT, <1>2 DEF Known
<1>4. QED
  BY <1>1, EmptyIs, <1>3, OwnedIs DEF FoundOnce, Found

\* A thread's step.
LEMMA ThreadOwned ==
  ASSUME Cached, Owned, NEW t \in Thread, ThreadStep(t)
  PROVE  Owned'
<1>1. CASE t \in Query /\ QueryStep(t)
  BY <1>1, DrainsOwned, QuietsOwned, EndsOwned, ReserveOwned, gcache_abort_loadOwned DEF QueryStep
<1>2. CASE t \in Installer /\ InstallerStep(t)
  BY <1>2, DrainsOwned, QuietsOwned DEF InstallerStep
<1>3. CASE LoaderStep(t)
  BY <1>3, DrainsOwned, QuietsOwned, gcache_putOwned, PutDeclinedOwned, EndsOwned DEF LoaderStep
<1>4. QED
  BY <1>1, <1>2, <1>3 DEF ThreadStep

LEMMA StutterOwned ==
  ASSUME Cached, Owned, UNCHANGED vars
  PROVE  Owned'
BY SameGeneration, OwnedKept DEF Kept, vars, cache

LEMMA NextOwned == Cached /\ Owned /\ [Next]_vars => Owned'
BY CommitOwned, NextIs, ThreadOwned, StutterOwned

\* The second stage.
LEMMA SpecOwned == Spec => []Owned
BY InitOwned, NextOwned, SpecCached, PTL DEF Spec

-----------------------------------------------------------------------------
(* The third invariant *)

Looks(t) == th[t].pc \in {"look", "waiting"}

HasRows(t) == th[t].pc \in {"loaded", "put"}

\* A lookup may return the entry in s, or what it is going to be.
Current(s) == ~entries[s].evicting /\ entries[s].generation = generation

\* The next drain is told of the commits to graph g.
Told(g) == pend.overflow \/ \E i \in DOMAIN pend.ids : pend.ids[i] = g

\* Version v is new enough for the entry in s.
SeenAt(s, v) ==
    /\ committed[entries[s].key] <= v \/ Told(entries[s].key)
    /\ \A t \in Query : Looks(t) /\ th[t].key = entries[s].key => th[t].need <= v

\* Version v is new enough for query t.
Needs(t) ==
    /\ th[t].pc # "idle" => th[t].need <= committed[th[t].key]
    /\ th[t].pc \in {"loaded", "put", "declined"} => th[t].need <= th[t].version
    /\ th[t].pc = "use" /\ th[t].slot = None => th[t].need <= th[t].version
    /\ th[t].pc = "use" /\ th[t].slot # None /\ entries[th[t].slot].loader = "own"
         => th[t].need <= th[t].version

LEMMA SeenIs ==
  Seen <=> /\ \A s \in Slot : \A v \in Nat : Reads(s, v) /\ Current(s) => SeenAt(s, v)
           /\ \A t \in Query : Needs(t)
BY DEF Seen, VersionsSeen, NeedsMet, Current, SeenAt, Told, Looks, Needs

LEMMA SeenNextIs ==
  Seen' <=> /\ \A s \in Slot : \A v \in Nat : Reads(s, v)' /\ Current(s)' => SeenAt(s, v)'
            /\ \A t \in Query : Needs(t)'
BY DEF Seen, VersionsSeen, NeedsMet, Current, SeenAt, Told, Looks, Needs

\* A query that does not move: its entry stays, being pinned.
LEMMA NeedsStill ==
  ASSUME Cached, Cached', Seen, NEW u \in Query, th'[u] = th[u],
         \A g \in Graph : committed[g] <= committed'[g],
         \A s \in Slot : Kept(s) \/ ~entries'[s].valid \/ entries[s].ref_count = 0
  PROVE  Needs(u)'
<1>1. Needs(u) /\ u \in Thread
  BY SeenIs DEF Thread
<1>2. th[u].pc # "idle" => th[u].key \in Graph
  BY <1>1 DEF Cached, Types, KeyFits
<1>3. th[u].pc # "idle" => th[u].need <= committed'[th[u].key]
  <2>1. SUFFICES ASSUME th[u].pc # "idle" PROVE th[u].need <= committed'[th[u].key]
    BY SMT
  <2>2. th[u].need \in Nat /\ committed[th[u].key] \in Nat /\ committed'[th[u].key] \in Nat
    BY <1>1, <1>2, <2>1 DEF Cached, Types, Request
  <2>3. th[u].need <= committed[th[u].key] /\ committed[th[u].key] <= committed'[th[u].key]
    BY <1>1, <1>2, <2>1 DEF Needs
  <2>4. QED
    BY SMTT(30), <2>2, <2>3
<1>4. ASSUME th[u].pc = "use", th[u].slot # None PROVE entries'[th[u].slot].loader = entries[th[u].slot].loader
  <2> DEFINE s == th[u].slot
  <2>1. u \in Users(s) /\ u \in Users(s)'
    BY <1>1, <1>4 DEF Users
  <2>2. Kept(s)
    BY <1>1, <1>4, <2>1, PinnedNextIs, Unused DEF Cached, Pinned, Types, Request
  <2>3. QED
    BY <2>2 DEF Kept
<1>5. QED
  BY <1>1, <1>3, <1>4 DEF Needs

\* What can be read could be read before.
LEMMA ReadsBefore ==
  ASSUME Cached, Owned, NEW s \in Slot, NEW v \in Nat, Kept(s), Reads(s, v)',
         NEW t \in Thread, Only(t),
         t \in Query /\ HasRows(t)' /\ entries[s].loading /\ entries[s].loader = t
            => HasRows(t) /\ th'[t].version = th[t].version
  PROVE  Reads(s, v)
<1>1. CASE entries'[s].valid /\ entries'[s].loader = "own" /\ v = entries'[s].version
  BY <1>1 DEF Kept, Reads
<1>2. CASE /\ entries'[s].loading /\ ~entries'[s].invalidated
           /\ th'[entries'[s].loader].pc \in {"loaded", "put"} /\ v = th'[entries'[s].loader].version
  <2> DEFINE u == entries[s].loader
  <2>1. entries[s].loading /\ ~entries[s].invalidated /\ u = entries'[s].loader
    BY <1>2 DEF Kept
  <2>2. th[u].pc \in {"loaded", "put"} /\ v = th[u].version
    BY <1>2, <2>1, OwnedIs DEF HasRows, Only, Loading, Thread
  <2>3. QED
    BY <2>1, <2>2 DEF Reads
<1>3. QED
  BY <1>1, <1>2 DEF Reads

\* Nothing is read in an empty slot.
LEMMA EmptyReads ==
  ASSUME NEW s \in Slot, NEW v, Reads(s, v)'
  PROVE  entries'[s] # Empty
BY EmptyIs DEF Reads

\* The queries that look up after a step looked up the same before.
Lookers == \A u \in Query : Looks(u)' => Looks(u) /\ th'[u].key = th[u].key /\ th'[u].need = th[u].need

LEMMA LookersStill ==
  ASSUME NEW t \in Thread, Only(t),
         t \in Query /\ Looks(t)' => Looks(t) /\ th'[t].key = th[t].key /\ th'[t].need = th[t].need
  PROVE  Lookers
BY DEF Only, Looks, Lookers, Thread

\* Outside the drain, and without commits.
LEMMA SeenAtStill ==
  ASSUME NEW s \in Slot, NEW v \in Nat, SeenAt(s, v), entries'[s].key = entries[s].key,
         UNCHANGED <<committed, pend>>, Lookers
  PROVE  SeenAt(s, v)'
BY DEF SeenAt, Told, Lookers

\* Steps that neither drain nor read, reserve or put.
LEMMA StepSeen ==
  ASSUME Cached, Cached', Owned, Seen, NEW t \in Thread, Only(t),
         UNCHANGED <<committed, pend, generation>>,
         \A s \in Slot : Kept(s) \/ entries'[s] = Empty,
         t \in Query => /\ Needs(t)'
                        /\ Looks(t)' => Looks(t) /\ th'[t].key = th[t].key /\ th'[t].need = th[t].need
                        /\ ~HasRows(t)'
  PROVE  Seen'
<1>1. ASSUME NEW s \in Slot, NEW v \in Nat, Reads(s, v)', Current(s)' PROVE SeenAt(s, v)'
  BY ZenonT(60), <1>1, EmptyReads, LookersStill, ReadsBefore, SeenIs, SeenAtStill DEF Current, Kept
<1>2. ASSUME NEW g \in Graph PROVE committed[g] <= committed'[g]
  <2>1. committed[g] \in Nat /\ committed'[g] = committed[g]
    BY DEF Cached, Types
  <2>2. QED
    BY SMTT(30), <2>1
<1>3. ASSUME NEW u \in Query PROVE Needs(u)'
  BY EmptyIs, <1>2, NeedsStill DEF Only, Thread
<1>4. QED
  BY <1>1, <1>3, SeenNextIs

\* After the drain, what can be read has the rows of every commit that has returned.
LEMMA DrainSeenAt ==
  ASSUME Cached, Owned, Seen, NEW g0 \in Nat, g0 >= generation, NEW gone, gcache_drain_locked(g0, gone),
         UNCHANGED committed,
         NEW t \in Thread, Only(t),
         t \in Query /\ HasRows(t)' => HasRows(t) /\ th'[t].version = th[t].version,
         NEW s \in Slot, NEW v \in Nat, Reads(s, v)', Current(s)'
  PROVE  /\ Kept(s) /\ Reads(s, v) /\ SeenAt(s, v)
         /\ committed[entries[s].key] <= v
<1>1. Types /\ Slots
  BY DEF Cached
<1>2. Kept(s)
  BY <1>1, DrainSlots, EmptyReads DEF Drops
<1>3. Reads(s, v)
  BY ZenonT(60), <1>2, ReadsBefore
<1>4. generation' = generation
  <2>1. entries[s].generation \in Nat /\ entries[s].generation <= generation /\ generation \in Nat
    BY <1>1 DEF Types, Entry, Slots, Fit
  <2>2. entries[s].generation = generation'
    BY <1>2 DEF Current, Kept
  <2>3. generation' \in Nat /\ generation' >= generation
    BY <1>1, DrainState
  <2>4. QED
    BY SMTT(30), <2>1, <2>2, <2>3
<1>5. ~pend.overflow
  <2>1. generation \in Nat
    BY <1>1 DEF Types
  <2>2. ~(generation' > generation)
    BY SMTT(30), <1>4, <2>1
  <2>3. QED
    BY <1>1, DrainState, <2>2
<1>6. ~\E i \in DOMAIN pend.ids : pend.ids[i] = entries[s].key
  <2>1. SUFFICES ASSUME \E i \in DOMAIN pend.ids : pend.ids[i] = entries[s].key PROVE FALSE
    OBVIOUS
  <2>2. QED
    BY <1>1, <2>1, DrainSlots, EmptyReads, <1>2 DEF Reads, Kept, Current
<1>7. QED
  BY <1>2, <1>4, <1>3, SeenIs, <1>5, <1>6 DEF SeenAt, Told, Current, Kept

\* The drains keep what queries see.
LEMMA DrainSeen ==
  ASSUME Cached, Cached', Owned, Seen, NEW g0 \in Nat, g0 >= generation, NEW gone, gcache_drain_locked(g0, gone),
         UNCHANGED committed,
         NEW t \in Thread, Only(t),
         t \in Query => /\ Needs(t)'
                        /\ Looks(t)' => th'[t].need = committed[th'[t].key]
                        /\ HasRows(t)' => HasRows(t) /\ th'[t].version = th[t].version
  PROVE  Seen'
<1>1. ASSUME NEW s \in Slot, NEW v \in Nat, Reads(s, v)', Current(s)' PROVE SeenAt(s, v)'
  <2>1. Kept(s) /\ SeenAt(s, v) /\ committed[entries[s].key] <= v
    BY <1>1, DrainSeenAt
  <2>2. ASSUME NEW u \in Query, Looks(u)', th'[u].key = entries'[s].key PROVE th'[u].need <= v
    <3>1. CASE u = t
      BY <2>1, <2>2, <3>1 DEF Kept
    <3>2. CASE u # t
      BY <2>1, <2>2, <3>2 DEF Kept, SeenAt, Only, Looks, Thread
    <3>3. QED
      BY <3>1, <3>2
  <2>3. QED
    BY ZenonT(60), <2>1, <2>2 DEF SeenAt, Kept
<1>2. ASSUME NEW g \in Graph PROVE committed[g] <= committed'[g]
  <2>1. committed[g] \in Nat /\ committed'[g] = committed[g]
    BY DEF Cached, Types
  <2>2. QED
    BY SMT, <2>1
<1>3. ASSUME NEW u \in Query PROVE Needs(u)'
  BY DrainSlots, EmptyIs, <1>2, NeedsStill DEF Only, Thread, Cached, Drops
<1>4. QED
  BY <1>1, <1>3, SeenNextIs

\* A query that goes on, or to rest.
LEMMA NeedsMoved ==
  ASSUME Seen, NEW t \in Query, UNCHANGED committed,
         \/ th'[t].pc = "idle"
         \/ /\ th[t].pc # "idle" /\ th'[t].key = th[t].key /\ th'[t].need = th[t].need
            /\ th'[t].pc \in {"loaded", "put", "declined", "use"} =>
                 \/ th'[t].need <= th'[t].version
                 \/ th'[t].pc = "use" /\ th'[t].slot # None /\ entries'[th'[t].slot].loader # "own"
  PROVE  Needs(t)'
<1>1. CASE th'[t].pc = "idle"
  BY SMTT(30), <1>1 DEF Needs
<1>2. CASE /\ th[t].pc # "idle" /\ th'[t].key = th[t].key /\ th'[t].need = th[t].need
           /\ th'[t].pc \in {"loaded", "put", "declined", "use"} =>
                 \/ th'[t].need <= th'[t].version
                 \/ th'[t].pc = "use" /\ th'[t].slot # None /\ entries'[th'[t].slot].loader # "own"
  <2>1. th'[t].need <= committed'[th'[t].key]
    BY <1>2, SeenIs DEF Needs
  <2>2. QED
    BY SMTT(30), <1>2, <2>1 DEF Needs
<1>3. QED
  BY <1>1, <1>2

\* The drains.
LEMMA DrainsSeen ==
  ASSUME Cached, Cached', Owned, Seen, NEW t \in Thread,
         \/ t \in Query /\ \E g \in Graph : EnterLookup(t, g)
         \/ t \in Installer /\ \E g \in TableGraph : gcache_invalidate(t, g)
         \/ EnterPut(t)
         \/ t \in Installer /\ gcache_increment_generation(t)
  PROVE  Seen'
<1>1. Types /\ generation \in Nat
  BY DEF Cached, Types
<1>2. generation >= generation /\ generation + 1 \in Nat /\ generation + 1 >= generation
  BY SMTT(30), <1>1
<1>3. ASSUME t \in Query, NEW g \in Graph, EnterLookup(t, g) PROVE Seen'
  <2>1. Moves(t) /\ th'[t].pc = "look" /\ th'[t].key = g /\ th'[t].need = committed[g]
    BY <1>1, <1>3, EnterLookupMoves
  <2>2. gcache_drain_locked(generation, {}) /\ UNCHANGED committed
    BY <1>3 DEF EnterLookup, data
  <2>3. ~HasRows(t)'
    BY SMTT(30), <2>1 DEF HasRows
  <2>4. committed[g] <= committed[g]
    <3>1. committed[g] \in Nat
      BY <1>1 DEF Types
    <3>2. QED
      BY SMTT(30), <3>1
  <2>5. Needs(t)'
    BY SMTT(30), <2>1, <2>2, <2>4 DEF Needs
  <2>6. QED
    BY <1>1, <1>2, <2>1, <2>2, <2>3, <2>5, DrainSeen DEF Moves
<1>4. ASSUME t \in Installer, NEW g \in TableGraph, gcache_invalidate(t, g) PROVE Seen'
  BY <1>1, <1>4, gcache_invalidateMoves, InstallersApart, <1>2, DrainSeen DEF gcache_invalidate, data, Moves
<1>5. CASE EnterPut(t)
  <2>1. Moves(t) /\ th'[t].pc = "put" /\ SameRequest(t) /\ (t \in Query => th[t].pc = "loaded")
    BY <1>1, <1>5, EnterPutMoves
  <2>2. gcache_drain_locked(generation, {}) /\ UNCHANGED committed
    BY ZenonT(60), <1>5 DEF EnterPut, data
  <2>3. ~Looks(t)' /\ (t \in Query => HasRows(t) /\ th[t].pc # "idle" /\ th[t].pc \in {"loaded", "put", "declined"})
    BY SMTT(30), <2>1 DEF Looks, HasRows
  <2>4. t \in Query => Needs(t)'
    BY <2>3, SeenIs, <2>1, <2>2, NeedsMoved DEF SameRequest, Needs
  <2>5. QED
    BY <1>1, <1>2, <2>1, <2>2, <2>3, <2>4, DrainSeen DEF Moves, SameRequest
<1>6. CASE t \in Installer /\ gcache_increment_generation(t)
  BY <1>1, <1>6, gcache_increment_generationMoves, InstallersApart, <1>2, DrainSeen DEF gcache_increment_generation, data, Moves
<1>7. QED
  BY <1>3, <1>4, <1>5, <1>6

\* The entry a lookup returns is new enough for it.
LEMMA HitSeen ==
  ASSUME Cached, Cached', Owned, Seen, NEW t \in Thread, NEW s \in Slot, Hit(t, s)
  PROVE  Seen'
<1>1. /\ Moves(t) /\ th[t].pc \in {"look", "waiting"} /\ th'[t].pc = "use" /\ th'[t].slot = s
      /\ th'[t].key = th[t].key /\ th'[t].need = th[t].need /\ th'[t].version = entries[s].version
  BY HitMoves DEF Cached
<1>2. Found(s) /\ entries[s].valid /\ entries[s].key = th[t].key /\ \A r \in Slot : Kept(r)
  BY HitEntries
<1>3. UNCHANGED <<committed, pend, generation>>
  BY DEF Hit, Looking, data
<1>4. ASSUME t \in Query, entries[s].loader = "own" PROVE th[t].need <= entries[s].version
  BY <1>2, <1>4, <1>1, SeenIs DEF Cached, Types, Entry, Reads, Found, Current, SeenAt, Looks
<1>5. th[t].pc # "idle" /\ ~Looks(t)' /\ ~HasRows(t)' /\ s # None
  BY SMTT(30), <1>1, NoneApart DEF Looks, HasRows
<1>6. QED
  BY <1>2, <1>1, <1>3, <1>4, <1>5, NeedsMoved, StepSeen DEF Moves, Kept

\* A wait, and the ends of requests.
LEMMA EndsSeen ==
  ASSUME Cached, Cached', Owned, Seen, NEW t \in Thread,
         WaitForLoader(t) \/ FailLookup(t) \/ NoSlot(t) \/ gcache_release(t)
  PROVE  Seen'
<1>1. Types
  BY DEF Cached
<1>2. UNCHANGED <<committed, pend, generation>>
  BY DEF WaitForLoader, FailLookup, NoSlot, Looking, gcache_release, data, cache
<1>3. \A s \in Slot : Kept(s) \/ entries'[s] = Empty
  <2>1. CASE WaitForLoader(t) \/ FailLookup(t)
    BY <2>1 DEF WaitForLoader, FailLookup, cache, Kept
  <2>2. CASE NoSlot(t)
    BY <2>2, NoSlotEntries
  <2>3. CASE gcache_release(t)
    <3>1. CASE th[t].slot = None
      BY ZenonT(60), <2>3, <3>1 DEF gcache_release, Kept
    <3>2. CASE th[t].slot \in Slot
      BY ZenonT(60), <2>3, <3>2, gcache_releaseEntries DEF Kept
    <3>3. QED
      BY <1>1, <3>1, <3>2 DEF Types, Request
  <2>4. QED
    BY <2>1, <2>2, <2>3
<1>4. CASE WaitForLoader(t)
  <2>1. Moves(t) /\ th[t].pc \in {"look", "waiting"} /\ th'[t].pc \in {"waiting", "gave up"} /\ SameRequest(t)
    BY <1>1, <1>4, WaitForLoaderMoves
  <2>2. /\ th[t].pc # "idle" /\ Looks(t) /\ ~HasRows(t)'
        /\ th'[t].pc \notin {"loaded", "put", "declined", "use"}
    BY ZenonT(30), <2>1 DEF Looks, HasRows
  <2>3. QED
    BY <1>2, <2>1, <2>2, NeedsMoved, <1>3, StepSeen DEF Moves, SameRequest
<1>5. CASE FailLookup(t) \/ NoSlot(t) \/ gcache_release(t)
  <2>1. Moves(t) /\ th'[t].pc = "idle"
    BY <1>1, <1>5, NoSlotMoves, gcache_releaseMoves
  <2>2. ~Looks(t)' /\ ~HasRows(t)'
    BY SMTT(30), <2>1 DEF Looks, HasRows
  <2>3. QED
    BY <1>2, <2>1, NeedsMoved, <1>3, <2>2, StepSeen DEF Moves
<1>6. QED
  BY ZenonT(60), <1>4, <1>5

\* A put that declines, the abort after it, and a load that fails.
LEMMA DeclinesSeen ==
  ASSUME Cached, Cached', Owned, Seen, NEW t \in Thread,
         PutDeclined(t) \/ gcache_abort_load(t)
  PROVE  Seen'
<1>1. Types
  BY DEF Cached
<1>2. UNCHANGED <<committed, pend, generation>>
  BY DEF PutDeclined, Putting, gcache_abort_load, data
<1>3. /\ Moves(t) /\ th[t].pc \in {"put", "declined", "abort"}
      /\ \/ t \notin Query
         \/ th'[t].pc = "idle"
         \/ th[t].pc \in {"put", "declined"} /\ th'[t].pc \in {"declined", "use"} /\ SameRequest(t)
  <2>1. CASE PutDeclined(t)
    BY SMTT(30), <1>1, <2>1, PutDeclinedMoves
  <2>2. CASE gcache_abort_load(t)
    BY SMTT(30), <1>1, <2>2, gcache_abort_loadMoves
  <2>3. QED
    BY <2>1, <2>2
<1>4. t \in Query => ~Looks(t)' /\ ~HasRows(t)'
  BY SMT, <1>3 DEF Looks, HasRows
<1>5. t \in Query => Needs(t)'
  <2>1. th[t].pc # "idle" /\ (th[t].pc \in {"put", "declined"} => th[t].pc \in {"loaded", "put", "declined"})
    BY SMT, <1>3
  <2>2. QED
    BY <2>1, SeenIs, <1>2, <1>3, NeedsMoved DEF SameRequest, Needs
<1>6. QED
  BY PutDeclinedEntries, gcache_abort_loadEntries, <1>2, <1>3, <1>4, <1>5, StepSeen DEF Moves, Kept

\* What a query reads has every commit that has returned.
LEMMA LoadSeen ==
  ASSUME Cached, Cached', Owned, Seen, NEW t \in Thread, Load(t)
  PROVE  Seen'
<1>1. Types /\ Commits
  BY DEF Cached
<1>2. UNCHANGED <<committed, pend, generation, entries>>
  BY DEF Load, data, cache
<1>3. \A s \in Slot : Kept(s)
  BY <1>2 DEF Kept
<1>4. Moves(t) /\ th[t].pc = "load" /\ th[t].key \in Graph
  BY <1>1, LoadMoves
<1>5. CASE t \notin Query
  BY <1>2, <1>3, <1>4, <1>5, StepSeen DEF Moves
<1>6. CASE t \in Query /\ th'[t].pc = "abort" /\ SameRequest(t)
  <2>1. th[t].pc # "idle" /\ ~Looks(t)' /\ ~HasRows(t)' /\ th'[t].pc \notin {"loaded", "put", "declined", "use"}
    BY SMTT(30), <1>4, <1>6 DEF Looks, HasRows
  <2>2. QED
    BY <1>2, <1>6, <2>1, NeedsMoved, <1>3, <1>4, StepSeen DEF Moves, SameRequest
<1>7. CASE /\ t \in Query /\ th'[t].pc = "loaded" /\ th'[t].version = rows[th[t].key]
           /\ th'[t].key = th[t].key /\ th'[t].need = th[t].need
  <2>1. /\ committed[th[t].key] <= rows[th[t].key]
        /\ committed[th[t].key] \in Nat /\ rows[th[t].key] \in Nat /\ th[t].need \in Nat
    BY <1>1, <1>4 DEF Types, Commits, Request
  <2>2. th[t].pc # "idle" /\ ~Looks(t)'
    BY SMTT(30), <1>4, <1>7 DEF Looks
  <2>3. \A u \in Query : Looks(u) => th[u].pc # "idle"
    BY SMT DEF Looks
  <2>4. th[t].need <= rows[th[t].key]
    <3>1. th[t].need <= committed[th[t].key]
      BY <1>7, <2>2, SeenIs DEF Needs
    <3>2. QED
      BY SMTT(30), <2>1, <3>1
  <2>5. Needs(t)'
    BY <1>2, <1>7, <2>2, <2>4, NeedsMoved
  <2>6. Lookers
    BY <1>4, <2>2, LookersStill DEF Moves
  <2>7. ASSUME NEW s \in Slot, NEW v \in Nat, Reads(s, v)', Current(s)' PROVE SeenAt(s, v)'
    <3>1. Kept(s) /\ Current(s)
      BY <1>2, <1>3, <2>7 DEF Current
    <3>2. CASE entries[s].loading /\ entries[s].loader = t
      <4>1. v = rows[th[t].key]
        BY <1>2, <3>2, <1>7, <2>7 DEF Cached, Slots, Fit, Reads
      <4>2. entries[s].key = th[t].key
        BY <3>2, OwnedIs DEF Loading
      <4>3. ASSUME NEW u \in Query, Looks(u), th[u].key = entries[s].key PROVE th[u].need <= v
        <5>1. th[u].need <= committed[th[t].key]
          BY <2>3, <4>2, <4>3, SeenIs DEF Needs
        <5>2. th[u].need \in Nat
          BY <1>1 DEF Types, Request, Thread
        <5>3. QED
          BY SMTT(30), <2>1, <4>1, <5>1, <5>2
      <4>4. QED
        BY <2>1, <4>1, <4>2, <4>3, <1>2, <2>6, SeenAtStill DEF SeenAt
    <3>3. CASE ~(entries[s].loading /\ entries[s].loader = t)
      <4>1. Reads(s, v)
        BY <1>4, <2>7, <3>1, <3>3, ReadsBefore DEF Moves
      <4>2. QED
        BY <1>2, <2>6, <3>1, <4>1, SeenIs, SeenAtStill
    <3>4. QED
      BY ZenonT(60), <3>2, <3>3
  <2>8. ASSUME NEW g \in Graph PROVE committed[g] <= committed'[g]
    <3>1. committed[g] \in Nat /\ committed'[g] = committed[g]
      BY <1>1, <1>2 DEF Types
    <3>2. QED
      BY SMTT(30), <3>1
  <2>9. ASSUME NEW u \in Query PROVE Needs(u)'
    BY <2>5, <1>3, <1>4, <2>8, NeedsStill DEF Moves, Only, Thread
  <2>10. QED
    BY <2>7, <2>9, SeenNextIs
<1>8. QED
  BY <1>1, <1>5, <1>6, <1>7, LoadMoves

\* Registering a table changes nothing that is cached.
LEMMA vgraph_table_src_setSeen ==
  ASSUME Cached, Cached', Owned, Seen, NEW t \in Installer, vgraph_table_src_set(t)
  PROVE  Seen'
<1>1. t \in Thread /\ t \notin Query /\ Types
  BY InstallersApart DEF Cached
<1>2. QED
  BY <1>1, vgraph_table_src_setMoves, StepSeen DEF Moves, Kept, vgraph_table_src_set, data, cache

\* A step at one slot, outside the drain and without commits.
LEMMA SlotSeen ==
  ASSUME Cached, Cached', Owned, Seen, NEW t \in Thread, Only(t), NEW s \in Slot,
         UNCHANGED <<committed, pend, generation>>,
         \A r \in Slot : r # s => Kept(r) \/ entries'[r] = Empty,
         entries[s].ref_count = 0, ~Looks(t)', ~HasRows(t)',
         t \in Query => Needs(t)',
         \A v \in Nat : Reads(s, v)' /\ Current(s)' =>
            Reads(s, v) /\ Current(s) /\ entries'[s].key = entries[s].key
  PROVE  Seen'
<1>1. Lookers
  BY LookersStill
<1>2. ASSUME NEW r \in Slot, NEW v \in Nat, Reads(r, v)', Current(r)' PROVE SeenAt(r, v)'
  <2>1. Reads(r, v) /\ Current(r) /\ entries'[r].key = entries[r].key
    BY ZenonT(60), <1>2, EmptyReads, ReadsBefore DEF Current, Kept
  <2>2. QED
    BY <1>1, <2>1, SeenIs, SeenAtStill
<1>3. ASSUME NEW g \in Graph PROVE committed[g] <= committed'[g]
  <2>1. committed[g] \in Nat /\ committed'[g] = committed[g]
    BY DEF Cached, Types
  <2>2. QED
    BY SMTT(30), <2>1
<1>4. \A r \in Slot : Kept(r) \/ ~entries'[r].valid \/ entries[r].ref_count = 0
  BY EmptyIs
<1>5. ASSUME NEW u \in Query PROVE Needs(u)'
  <2>1. CASE u = t
    BY <2>1
  <2>2. CASE u # t
    BY ZenonT(60), <1>3, <1>4, <2>2, NeedsStill DEF Only, Thread
  <2>3. QED
    BY <2>1, <2>2
<1>6. QED
  BY <1>2, <1>5, SeenNextIs

\* A reservation has nothing to read yet.
LEMMA ReserveSeen ==
  ASSUME Cached, Cached', Owned, Seen, NEW t \in Query, NEW s \in Slot, NEW old \in Slot \cup {None}, Reserve(t, s, old)
  PROVE  Seen'
<1>1. Types /\ t \in Thread
  BY DEF Cached, Thread
<1>2. UNCHANGED <<committed, pend, generation>> /\ generation \in Nat
  BY ZenonT(60), <1>1 DEF Reserve, Looking, data, Types
<1>3. Moves(t) /\ th[t].pc \in {"look", "waiting"} /\ th'[t].pc = "load" /\ SameRequest(t)
  BY ZenonT(60), <1>1, ReserveMoves
<1>4. /\ th[t].pc # "idle" /\ ~Looks(t)' /\ ~HasRows(t)'
      /\ th'[t].pc \notin {"loaded", "put", "declined", "use"}
  BY SMT, <1>3 DEF Looks, HasRows
<1>5. th[t].key \in Graph
  BY ZenonT(60), <1>1, <1>4 DEF Types, KeyFits
<1>6. entries'[s].valid = FALSE /\ entries'[s].loader = t
  <2>1. Reserved(Reservation(t, th[t].key), t, th[t].key)
    BY <1>1, <1>2, <1>5, ReservationIs
  <2>2. QED
    BY <1>1, ReserveEntries, <2>1 DEF Reserved
<1>7. \A v \in Nat : ~Reads(s, v)'
  BY ZenonT(60), <1>4, <1>6 DEF Reads, HasRows
<1>8. \A r \in Slot : r # s /\ r # old => entries'[r] = entries[r]
  BY <1>1, ReserveEntries
<1>9. old # None /\ old # s => Drops(old)
  BY <1>1, ReserveEntries
<1>10. entries[s].ref_count = 0
  BY <1>1, ReserveEntries
<1>11. ASSUME NEW r \in Slot, r # s PROVE Kept(r) \/ entries'[r] = Empty
  <2>1. CASE r = old
    <3>1. Drops(r)
      BY ZenonT(60), <1>9, <1>11, <2>1, NoneApart
    <3>2. QED
      BY <3>1 DEF Drops
  <2>2. CASE r # old
    BY <1>8, <1>11, <2>2 DEF Kept
  <2>3. QED
    BY <2>1, <2>2
<1>12. Needs(t)'
  BY <1>2, <1>3, <1>4, NeedsMoved DEF SameRequest
<1>13. QED
  BY <1>1, <1>2, <1>3, <1>4, <1>7, <1>10, <1>11, <1>12, SlotSeen DEF Moves

\* A put into the loader's own reservation publishes what it had to read, at the
\* generation of the reservation, and marked to go if a commit has come in between.
LEMMA gcache_putSeen ==
  ASSUME Cached, Cached', Owned, Seen, NEW t \in Thread, NEW s \in Slot, NEW V \in SUBSET Slot, gcache_put(t, s, V)
  PROVE  Seen'
<1>1. Types /\ Slots
  BY DEF Cached
<1>2. UNCHANGED <<committed, pend, generation>>
  BY DEF gcache_put, Putting, data
<1>3. Moves(t) /\ th[t].pc = "put" /\ th'[t].pc = "use" /\ SameRequest(t)
  BY <1>1, gcache_putMoves
<1>4. /\ th[t].pc # "idle" /\ ~Looks(t)' /\ ~HasRows(t)'
      /\ th[t].pc \in {"loaded", "put", "declined"}
  BY SMTT(30), <1>3 DEF Looks, HasRows
<1>5. \A r \in Slot : r # s => Kept(r) \/ entries'[r] = Empty
  BY gcache_putEntries DEF Kept
<1>6. entries[s].ref_count = 0
  BY gcache_putEntries
<1>7. IsPut(entries'[s], t, entries[s])
  BY gcache_putEntry
<1>8. t \in Query => Needs(t)'
  BY <1>4, SeenIs, <1>2, <1>3, NeedsMoved DEF Needs, SameRequest
<1>9. ASSUME NEW v \in Nat, Reads(s, v)', Current(s)'
      PROVE  Reads(s, v) /\ Current(s) /\ entries'[s].key = entries[s].key
  <2>1. /\ ~entries'[s].loading /\ entries'[s].key = th[t].key /\ entries'[s].version = th[t].version
        /\ entries'[s].loader = IF entries[s].loading /\ entries[s].loader = t THEN "own" ELSE None
        /\ entries'[s].generation = IF entries[s].loading THEN entries[s].generation ELSE generation
        /\ entries'[s].evicting = (entries[s].loading /\ entries[s].invalidated)
    BY <1>7 DEF IsPut
  <2>2. entries'[s].loader = "own" /\ v = th[t].version
    BY <1>9, <2>1 DEF Reads
  <2>3. entries[s].loading /\ entries[s].loader = t
    BY <2>1, <2>2, NoneApart
  <2>4. ~entries[s].invalidated /\ entries[s].generation = generation
    BY <1>2, <1>9, <2>1, <2>3 DEF Current
  <2>5. th[t].pc \in {"loaded", "put"}
    BY SMTT(30), <1>3
  <2>6. Reads(s, v)
    BY ZenonT(60), <2>2, <2>3, <2>4, <2>5 DEF Reads
  <2>7. QED
    BY <2>3, OwnedIs, <1>1, <2>1, <2>4, <2>6 DEF Current, Slots, Fit, Loading
<1>10. QED
  BY <1>2, <1>3, <1>4, <1>5, <1>6, <1>8, <1>9, SlotSeen DEF Moves

-----------------------------------------------------------------------------
(* Commits *)

LEMMA lt_transactSeen ==
  ASSUME Cached, Cached', Owned, Seen, NEW W, lt_transact(W)
  PROVE  Seen'
<1>1. UNCHANGED <<committed, entries, th, generation, pend>>
  BY DEF lt_transact, cache
<1>2. ASSUME NEW s \in Slot, NEW v \in Nat, Reads(s, v)', Current(s)' PROVE SeenAt(s, v)'
  BY <1>1, <1>2, SeenIs DEF Reads, Current, SeenAt, Told, Looks
<1>3. QED
  BY <1>1, SeenIs, <1>2, SeenNextIs DEF Needs

\* The graph that is deferred is told of, and so are those before it.
LEMMA DeferredTold ==
  ASSUME Cached, NEW g \in Graph, NEW k,
         \/ pend' = [pend EXCEPT !.ids = Append(pend.ids, g)]
         \/ pend' = [pend EXCEPT !.overflow = TRUE]
  PROVE  Told(g)' /\ (Told(k) => Told(k)')
<1>1. pend \in [ids : Seq(Graph), overflow : BOOLEAN]
  BY DEF Cached, Types
<1>2. CASE pend' = [pend EXCEPT !.ids = Append(pend.ids, g)]
  <2>1. pend'.ids = Append(pend.ids, g) /\ pend'.overflow = pend.overflow
    BY SMTT(30), <1>1, <1>2
  <2>2. pend.ids \in Seq(Graph)
    BY <1>1
  <2>3. \A i \in DOMAIN pend.ids : i \in DOMAIN pend'.ids /\ pend'.ids[i] = pend.ids[i]
    BY SMTT(30), <2>1, <2>2
  <2>4. \E i \in DOMAIN pend'.ids : pend'.ids[i] = g
    <3>1. Len(pend.ids) + 1 \in DOMAIN pend'.ids /\ pend'.ids[Len(pend.ids) + 1] = g
      BY SMTT(30), <2>1, <2>2
    <3>2. QED
      BY <3>1
  <2>5. QED
    BY <2>1, <2>3, <2>4 DEF Told
<1>3. CASE pend' = [pend EXCEPT !.overflow = TRUE]
  BY <1>1, <1>3 DEF Told
<1>4. QED
  BY <1>2, <1>3

\* What is read is in a graph that commits know of.
LEMMA ReadsKnown ==
  ASSUME Cached, Owned, NEW s \in Slot, NEW v \in Nat, Reads(s, v)
  PROVE  entries[s].key \in RdfGraph \cup sources /\ entries[s].key \in Graph
BY DEF Owned, KeysKnown, Cached, Slots, Fit, Reads

\* A commit that returns retires everything, tells the next drain of the graph it wrote, or
\* wrote a table that no entry of a query is loaded from.
LEMMA vgraph_commit_notifySeen ==
  ASSUME Cached, Cached', Owned, Seen, NEW C, vgraph_commit_notify(C)
  PROVE  Seen'
<1>1. UNCHANGED <<entries, sources, th>> /\ Types
  BY DEF vgraph_commit_notify, Cached
<1>2. \A g \in Graph : committed[g] <= committed'[g] /\ (committed'[g] # committed[g] => g \in Wrote(C))
  BY vgraph_commit_notifyCached
<1>3. ASSUME NEW s \in Slot, NEW v \in Nat, Reads(s, v)', Current(s)' PROVE SeenAt(s, v)'
  <2>1. PICK k : k = entries[s].key
    OBVIOUS
  <2>2. Reads(s, v) /\ ~entries[s].evicting /\ entries[s].generation = generation'
    BY <1>1, <1>3 DEF Reads, Current
  <2>3. k \in RdfGraph \cup sources /\ k \in Graph
    BY <2>1, <2>2, ReadsKnown
  <2>4. generation' = generation
    <3>1. generation' > generation \/ generation' = generation
      BY <1>1, NotifyIs
    <3>2. generation \in Nat /\ generation' \in Nat /\ entries[s].generation <= generation
      BY DEF Cached, Types, Slots, Fit
    <3>3. QED
      BY SMTT(30), <2>2, <3>1, <3>2
  <2>5. SeenAt(s, v)
    BY <2>2, <2>4, SeenIs DEF Current
  <2>6. committed'[k] <= v \/ Told(k)'
    <3>1. ~(generation' > generation)
      <4>1. generation \in Nat
        BY DEF Cached, Types
      <4>2. QED
        BY SMTT(30), <2>4, <4>1
    <3>2. CASE \E g \in sources : /\ Wrote(C) = {g}
                                  /\ \/ pend' = [pend EXCEPT !.ids = Append(pend.ids, g)]
                                     \/ pend' = [pend EXCEPT !.overflow = TRUE]
      <4>1. PICK g \in sources : /\ Wrote(C) = {g}
                                 /\ \/ pend' = [pend EXCEPT !.ids = Append(pend.ids, g)]
                                    \/ pend' = [pend EXCEPT !.overflow = TRUE]
        BY ZenonT(60), <3>2
      <4>2. QED
        BY <1>1, <4>1, DeferredTold, <1>2, <2>3, <2>1, <2>5 DEF SeenAt, Types, Graph
    <3>3. CASE Wrote(C) \subseteq TableGraph \ sources /\ pend' = pend
      BY <2>3, <3>3, Apart, <1>2, <2>1, <2>5 DEF SeenAt, Told
    <3>4. QED
      BY <1>1, <3>1, <3>2, <3>3, NotifyIs
  <2>7. QED
    BY <1>1, <2>1, <2>5, <2>6 DEF SeenAt, Looks
<1>4. QED
  BY <1>1, <1>2, NeedsStill, <1>3, SeenNextIs DEF Kept

-----------------------------------------------------------------------------
(* All steps *)

LEMMA InitSeen == Init => Seen
<1> SUFFICES ASSUME Init PROVE Seen
  BY SMT
<1>1. entries = [s \in Slot |-> Empty] /\ th = [t \in Thread |-> Idle]
  BY DEF Init
<1>2. \A t \in Query : th[t].pc = "idle"
  BY <1>1, IdleIs DEF Thread
<1>3. \A t \in Query : Needs(t)
  BY SMTT(30), <1>2 DEF Needs
<1>4. QED
  BY <1>1, EmptyIs, <1>3, SeenIs DEF Reads

\* A thread's step.
LEMMA ThreadSeen ==
  ASSUME Cached, Cached', Owned, Seen, NEW t \in Thread, ThreadStep(t)
  PROVE  Seen'
<1>1. CASE t \in Query /\ QueryStep(t)
  BY <1>1, DrainsSeen, HitSeen, EndsSeen, ReserveSeen, DeclinesSeen DEF QueryStep
<1>2. CASE t \in Installer /\ InstallerStep(t)
  BY <1>2, DrainsSeen, vgraph_table_src_setSeen DEF InstallerStep
<1>3. CASE LoaderStep(t)
  BY <1>3, DrainsSeen, LoadSeen, gcache_putSeen, DeclinesSeen, EndsSeen DEF LoaderStep
<1>4. QED
  BY <1>1, <1>2, <1>3 DEF ThreadStep

LEMMA StutterSeen ==
  ASSUME Seen, UNCHANGED vars
  PROVE  Seen'
<1>1. UNCHANGED <<entries, th, committed, generation, pend>>
  BY DEF vars, cache, data
<1>2. ASSUME NEW s \in Slot, NEW v \in Nat, Reads(s, v)', Current(s)' PROVE SeenAt(s, v)'
  BY <1>1, <1>2, SeenIs DEF Reads, Current, SeenAt, Told, Looks
<1>3. QED
  BY <1>1, SeenIs, <1>2, SeenNextIs DEF Needs

LEMMA NextSeen == Cached /\ Cached' /\ Owned /\ Seen /\ [Next]_vars => Seen'
<1> SUFFICES ASSUME Cached, Cached', Owned, Seen, [Next]_vars PROVE Seen'
  BY SMT
<1>1. CASE CommitStep
  BY <1>1, lt_transactSeen, vgraph_commit_notifySeen DEF CommitStep
<1>2. QED
  BY <1>1, NextIs, ThreadSeen, StutterSeen

\* The third stage.
LEMMA SpecSeen == Spec => []Seen
BY InitSeen, NextSeen, SpecCached, SpecOwned, PTL DEF Spec

-----------------------------------------------------------------------------
(* The properties *)

\* Every variable has its type and its bounds: commits, pending invalidations and the polls
\* of a waiter stay within theirs, a slot is never valid and reserved at once, has no more
\* handles than there are threads and no generation the cache has not reached, and a
\* thread has either no slot or one of the cache's.
THEOREM TypeCorrect == Spec => []TypeOK
<1>1. Cached /\ Bounded => TypeOK
  BY TypesOfBounds
<1>2. QED
  BY <1>1, SpecCached, SpecBounded, PTL

\* Every entry that a query works on stays in its slot, with the rows it was given, and
\* ref_count is the number of handles given out: gcache_put, gcache_get_or_reserve,
\* gcache_abort_load, gcache_release, the drain and the evictions keep it so.
THEOREM HandlesPinnedCorrect == Spec => []HandlesPinned
BY SpecCached, PTL DEF Cached

\* current_entries is the number of valid entries, and the host has been told that the
\* cache is live exactly while there is an entry or a load: gcache_update_live_locked.
THEOREM HostToldLiveCorrect == Spec => []HostToldLive
BY SpecCached, PTL DEF Cached


\* Every reservation has a loader that is going to put or to abort it, so those who wait
\* for it do not wait in vain, and no graph is reserved twice: gcache_get_or_reserve
\* reserves only what it does not find, and finds every reservation.
THEOREM ReservationsOwnedCorrect == Spec => []ReservationsOwned
<1>1. ASSUME Cached, Owned PROVE ReservationsOwned
  BY <1>1 DEF Owned, LoadersLoad, Loads, Cached, Slots, Fit, Found, FoundOnce, ReservationsOwned
<1>2. QED
  BY <1>1, SpecCached, SpecOwned, PTL

\* A query never works on rows older than a commit that had returned before its
\* gcache_get_or_reserve, if a query loaded them under its own reservation: whatever
\* the number of threads, graphs and slots, and the room for deferred invalidations.
THEOREM FreshCorrect == Spec => []Fresh
<1>1. ASSUME Cached, Seen PROVE Fresh
  <2>1. SUFFICES ASSUME NEW t \in Query, Stale(t) PROVE Unreserved(t)
    BY DEF Fresh
  <2>2. Needs(t) /\ t \in Thread
    BY <1>1, SeenIs DEF Thread
  <2>3. th[t].pc = "use" /\ th[t].version < th[t].need
    BY ZenonT(60), <2>1 DEF Stale
  <2>4. th[t].version \in Nat /\ th[t].need \in Nat
    BY <1>1, <2>2 DEF Cached, Types, Request
  <2>5. ~(th[t].need <= th[t].version)
    BY SMT, <2>3, <2>4
  <2>6. QED
    BY <2>2, <2>3, <2>5 DEF Needs, Unreserved
<1>2. QED
  BY <1>1, SpecCached, SpecSeen, PTL
=============================================================================
