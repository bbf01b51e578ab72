-------------------------- MODULE GraphCacheSlots --------------------------
(***************************************************************************)
(* The slots of module GraphCache: what the steps do to them and to the    *)
(* threads, and the first two of the inductive invariants that module      *)
(* GraphCacheProofs rests on: Cached, and the bounds of TypeOK, Bounded.   *)
(***************************************************************************)
EXTENDS GraphCache, FiniteSetTheorems, TLAPS

\* Zenon proves the leaves that name no other prover.
USE Zenon

Entry == [valid : BOOLEAN, loading : BOOLEAN, evicting : BOOLEAN, invalidated : BOOLEAN,
          key : Graph \cup {None}, generation : Nat, ref_count : Nat, version : Nat,
          loader : Thread \cup {None, "own"}]

Places == {"idle", "look", "waiting", "gave up", "load", "loaded", "registered", "put",
           "abort", "declined", "use", "invalidated"}

Request == [pc : Places, key : Graph \cup {None}, need : Nat, slot : Slot \cup {None},
            version : Nat, waits : Nat]

Counters == [current_entries : Nat, reaped : Nat, live : BOOLEAN]

\* A thread that is not idle works on a graph, GRAPH_LOAD_TABLE on that of a table.
KeyFits(t) ==
    /\ th[t].pc # "idle" => th[t].key \in Graph
    /\ t \in Installer => th[t].key \in TableGraph \cup {None}

Types ==
    /\ entries \in [Slot -> Entry]
    /\ th \in [Thread -> Request]
    /\ rows \in [Graph -> Nat] /\ committed \in [Graph -> Nat]
    /\ generation \in Nat
    /\ pend \in [ids : Seq(Graph), overflow : BOOLEAN]
    /\ stats \in Counters
    /\ sources \subseteq TableGraph
    /\ \A t \in Thread : KeyFits(t)

\* A slot is reserved or has an entry, and only an entry is used or on its way out.
Fit(s) ==
    /\ ~(entries[s].valid /\ entries[s].loading)
    /\ entries[s].ref_count # 0 \/ entries[s].evicting => entries[s].valid
    /\ entries[s].valid \/ entries[s].loading => entries[s].key \in Graph
    /\ entries[s].generation <= generation

Slots == \A s \in Slot : Fit(s)

\* A commit that has not returned wrote a version of each of its graphs.
Commits ==
    /\ \A g \in Graph : committed[g] <= rows[g]
    /\ \A C \in committing :
          /\ \A c \in C : c[1] \in Graph /\ c[2] \in Nat /\ c[2] <= rows[c[1]]
          /\ \A c, d \in C : c[1] = d[1] => c = d

Cached == Types /\ Slots /\ Commits /\ HandlesPinned /\ HostToldLive

-----------------------------------------------------------------------------
\* find_entry_locked returns s for its key.
Found(s) ==
    /\ entries[s].valid \/ entries[s].loading
    /\ ~entries[s].evicting
    /\ entries[s].valid => entries[s].generation = generation

-----------------------------------------------------------------------------
(* What a step may do to slots and threads. *)

\* The slot keeps what it has; an entry may be marked to go, a load invalidated.
Kept(s) ==
    LET e == entries[s]
        f == entries'[s]
    IN  /\ f.valid = e.valid /\ f.loading = e.loading /\ f.key = e.key
        /\ f.generation = e.generation /\ f.version = e.version /\ f.loader = e.loader
        /\ e.evicting => f.evicting
        /\ f.evicting => e.evicting \/ e.valid
        /\ e.invalidated => f.invalidated

\* No handle is given out or back.
Drops(s) ==
    \/ Kept(s) /\ entries'[s].ref_count = entries[s].ref_count
    \/ entries[s].ref_count = 0 /\ entries'[s] = Empty

\* Only t moves.
Only(t) == \A u \in Thread : u # t => th'[u] = th[u]

Valid == {s \in Slot : entries[s].valid}

Users(s) == {t \in Thread : th[t].pc = "use" /\ th[t].slot = s}

\* A load that commits wrote the graphs in ids under.
Informed(e, ids) == [e EXCEPT !.invalidated = @ \/ e.key \in ids]

-----------------------------------------------------------------------------
(* The slots *)

\* The records a slot is set to are entries.
LEMMA EntryTypes ==
  /\ Empty \in Entry
  /\ \A e \in Entry : Retired(e) \in Entry
<1>1. Empty \in Entry
  BY SMT DEF Empty, Entry
<1>2. ASSUME NEW e \in Entry PROVE [e EXCEPT !.evicting = TRUE] \in Entry
  BY ZenonT(30) DEF Entry
<1>3. QED
  BY <1>1, <1>2 DEF Retired

\* An empty slot, field by field.
LEMMA EmptyIs ==
  /\ Empty.valid = FALSE /\ Empty.loading = FALSE /\ Empty.evicting = FALSE
  /\ Empty.invalidated = FALSE /\ Empty.key = None /\ Empty.generation = 0
  /\ Empty.ref_count = 0 /\ Empty.version = 0 /\ Empty.loader = None
BY SMT DEF Empty

\* An entry that is to go, field by field.
LEMMA RetiredIs ==
  ASSUME NEW e \in Entry
  PROVE  /\ e.ref_count = 0 => Retired(e) = Empty
         /\ e.ref_count # 0 =>
              /\ Retired(e).valid = e.valid /\ Retired(e).loading = e.loading
              /\ Retired(e).key = e.key /\ Retired(e).generation = e.generation
              /\ Retired(e).version = e.version /\ Retired(e).loader = e.loader
              /\ Retired(e).ref_count = e.ref_count
              /\ Retired(e).invalidated = e.invalidated /\ Retired(e).evicting = TRUE
BY SMT DEF Retired, Entry

\* An entry in use stays as it is, marked to go.
LEMMA RetainedIs ==
  ASSUME NEW e \in Entry, e.ref_count # 0, NEW f, f = Retired(e)
  PROVE  /\ f.valid = e.valid /\ f.loading = e.loading /\ f.key = e.key
         /\ f.generation = e.generation /\ f.version = e.version /\ f.loader = e.loader
         /\ f.ref_count = e.ref_count /\ f.invalidated = e.invalidated /\ f.evicting = TRUE
BY RetiredIs

\* What the drain makes of an entry.
LEMMA DrainedIs ==
  ASSUME NEW e \in Entry, ~(e.valid /\ e.loading), NEW gen, NEW ids,
         NEW f, f = DrainedEntry(e, gen, ids)
  PROVE  /\ e.loading => f = Informed(e, ids)
         /\ ~e.loading /\ e.valid /\ e.key \in ids => f = Retired(e)
         /\ f = e \/ (e.valid /\ f = Retired(e))
              \/ (e.loading /\ f = Informed(e, ids))
<1>1. CASE e.loading
  BY <1>1 DEF DrainedEntry, Informed
<1>2. CASE ~e.loading /\ e.valid /\ (e.key \in ids \/ e.generation # gen)
  BY <1>2 DEF DrainedEntry
<1>3. CASE ~e.loading /\ ~(e.valid /\ (e.key \in ids \/ e.generation # gen))
  BY <1>3 DEF DrainedEntry
<1>4. QED
  BY <1>1, <1>2, <1>3

\* A load told of a commit.
LEMMA InvalidatedIs ==
  ASSUME NEW e \in Entry, NEW ids, NEW f, f = Informed(e, ids)
  PROVE  /\ f \in Entry
         /\ f.valid = e.valid /\ f.loading = e.loading /\ f.key = e.key
         /\ f.generation = e.generation /\ f.version = e.version /\ f.loader = e.loader
         /\ f.evicting = e.evicting /\ f.ref_count = e.ref_count
         /\ e.invalidated => f.invalidated
         /\ e.key \in ids => f.invalidated
BY DEF Entry, Informed

\* gcache_drain_locked and gcache_invalidate, slot by slot.
LEMMA DrainSlots ==
  ASSUME Types, Slots, NEW g0 \in Nat, NEW gone, gcache_drain_locked(g0, gone), NEW s \in Slot
  PROVE  /\ entries'[s] \in Entry
         /\ Drops(s)
         /\ (\E i \in DOMAIN pend.ids : pend.ids[i] = entries[s].key) =>
              /\ entries[s].valid => entries'[s].evicting \/ entries'[s] = Empty
              /\ entries[s].loading => entries'[s].invalidated
         /\ entries'[s].valid => entries[s].valid
         /\ entries'[s].loading <=> entries[s].loading
<1> DEFINE gen == IF pend.overflow THEN g0 + 1 ELSE g0
           ids == {pend.ids[i] : i \in DOMAIN pend.ids}
           e == entries[s]
           d == Drained(gen)[s]
           f == entries'[s]
<1>1. e \in Entry /\ ~(e.valid /\ e.loading) /\ (e.ref_count # 0 \/ e.evicting => e.valid)
  BY DEF Types, Slots, Fit
<1>2. f = IF d.valid /\ d.key \in gone THEN Retired(d) ELSE d
  BY DEF gcache_drain_locked
<1>3. d = e \/ d = DrainedEntry(e, gen, ids)
  BY DEF Drained
<1>4. e.key \in ids => d = DrainedEntry(e, gen, ids)
  BY DEF Drained
<1> HIDE DEF gen, ids, e, d, f
<1>5. /\ e.loading /\ e.key \in ids => d = Informed(e, ids)
      /\ e.valid /\ e.key \in ids => d = Retired(e)
      /\ \/ d = e \/ (e.valid /\ d = Retired(e))
         \/ (e.loading /\ d = Informed(e, ids))
  BY <1>1, DrainedIs, <1>3, <1>4
<1>6. CASE e.loading /\ d = Informed(e, ids)
  <2>1. e \in Entry /\ d = Informed(e, ids)
    BY <1>1, <1>6
  <2>2. /\ d \in Entry
        /\ d.valid = e.valid /\ d.loading = e.loading /\ d.key = e.key
        /\ d.generation = e.generation /\ d.version = e.version /\ d.loader = e.loader
        /\ d.evicting = e.evicting /\ d.ref_count = e.ref_count
        /\ e.invalidated => d.invalidated
        /\ e.key \in ids => d.invalidated
    BY SMT, <2>1, InvalidatedIs
  <2>3. QED
    BY <1>1, <1>2, <1>6, <2>2 DEF Drops, Kept, e, f, ids
<1>7. CASE d = e /\ ~(e.loading /\ e.key \in ids)
  <2>1. CASE e.valid /\ e.key \in gone
    <3>1. f = Retired(e)
      BY <1>2, <1>7, <2>1
    <3>2. f \in Entry
      BY <1>1, <3>1, EntryTypes
    <3>3. CASE e.ref_count = 0
      BY <1>1, <3>1, <3>3, RetiredIs, <2>1, <3>2, EmptyIs DEF Drops, e, f
    <3>4. CASE e.ref_count # 0
      <4>1. /\ f.valid = e.valid /\ f.loading = e.loading /\ f.key = e.key
            /\ f.generation = e.generation /\ f.version = e.version /\ f.loader = e.loader
            /\ f.ref_count = e.ref_count /\ f.invalidated = e.invalidated /\ f.evicting = TRUE
        BY <1>1, <3>1, <3>4, RetainedIs
      <4>2. QED
        BY <1>1, <2>1, <3>2, <4>1 DEF Drops, Kept, e, f
    <3>5. QED
      BY <3>3, <3>4
  <2>2. CASE ~(e.valid /\ e.key \in gone)
    BY <1>2, <1>7, <2>2, <1>1, <1>5, RetiredIs DEF Drops, Kept, e, f, ids
  <2>3. QED
    BY <2>1, <2>2
<1>8. CASE e.valid /\ d = Retired(e)
  <2>1. CASE e.ref_count = 0
    BY <1>1, <1>8, <2>1, RetiredIs, EmptyIs, <1>2, EntryTypes DEF Drops, e, f
  <2>2. CASE e.ref_count # 0
    <3>1. d \in Entry /\ d.ref_count # 0 /\ d = [e EXCEPT !.evicting = TRUE]
      BY <1>1, <1>8, <2>2, EntryTypes, RetiredIs DEF Retired
    <3>2. Retired(d) = d
      BY ZenonT(30), <3>1 DEF Retired, Entry
    <3>3. f = Retired(e)
      BY <1>2, <1>8, <3>2
    <3>4. QED
      <4>1. /\ f.valid = e.valid /\ f.loading = e.loading /\ f.key = e.key
            /\ f.generation = e.generation /\ f.version = e.version /\ f.loader = e.loader
            /\ f.ref_count = e.ref_count /\ f.invalidated = e.invalidated /\ f.evicting = TRUE
        BY <1>1, <2>2, <3>3, RetainedIs
      <4>2. QED
        BY <1>1, <3>3, EntryTypes, <1>8, <4>1 DEF Drops, Kept, e, f
  <2>3. QED
    BY <2>1, <2>2
<1>9. QED
  BY <1>1, <1>5, <1>6, <1>7, <1>8

-----------------------------------------------------------------------------
(* What the host is told *)

\* The slots are finitely many, so are the entries in them.
LEMMA ValidFinite == IsFiniteSet(Valid) /\ IsFiniteSet(Valid') /\ Cardinality(Valid) \in Nat /\ Cardinality(Valid') \in Nat
BY FewThreads, FS_Subset, FS_CardinalityType DEF Valid

\* Taking entries off the count.
LEMMA FewerIs ==
  ASSUME NEW S, IsFiniteSet(S), NEW D \in SUBSET S
  PROVE  Fewer(Cardinality(S), D) = Cardinality(S \ D)
<1>1. S \cap D = D
  BY SMT
<1>2. Cardinality(S \ D) = Cardinality(S) - Cardinality(D)
  BY <1>1, FS_Difference
<1>3. Cardinality(S) \in Nat /\ Cardinality(D) \in Nat /\ Cardinality(D) <= Cardinality(S)
  BY FS_Subset, FS_CardinalityType
<1>4. QED
  BY SMT, <1>2, <1>3 DEF Fewer

\* gcache_update_live_locked tells whether there is an entry or a load.
LEMMA LiveIs ==
  ASSUME NEW n, n = Cardinality(Valid'), Types'
  PROVE  gcache_update_live_locked(entries', n) <=> \E s \in Slot : entries'[s].valid \/ entries'[s].loading
<1>1. n > 0 <=> Valid' # {}
  <2>1. n \in Nat /\ (n = 0 <=> Valid' = {})
    BY ValidFinite, FS_EmptySet
  <2>2. QED
    BY SMT, <2>1
<1>2. QED
  BY <1>1 DEF gcache_update_live_locked, Valid

\* A count that is that of the entries, and the host told accordingly.
LEMMA ToldNow ==
  ASSUME Types', stats'.current_entries = Cardinality(Valid'),
         stats'.live = gcache_update_live_locked(entries', Cardinality(Valid'))
  PROVE  HostToldLive'
BY LiveIs DEF HostToldLive, Valid

\* The count and what the host was told hold on while entries and loads stay.
LEMMA ToldStill ==
  ASSUME HostToldLive, UNCHANGED <<stats>>,
         \A s \in Slot : entries'[s].valid = entries[s].valid /\ entries'[s].loading = entries[s].loading
  PROVE  HostToldLive'
BY DEF HostToldLive

\* Publish, of entries that leave.
LEMMA ToldOfLeft ==
  ASSUME Types, HostToldLive, Types', NEW es, NEW D \in SUBSET Valid,
         Publish(es, Fewer(stats.current_entries, D)), Valid' = Valid \ D
  PROVE  HostToldLive'
<1> DEFINE n == Fewer(stats.current_entries, D)
<1>1. n = Cardinality(Valid')
  BY ZenonT(60), ValidFinite, FewerIs DEF HostToldLive, Valid
<1>2. QED
  BY <1>1, ToldNow DEF Publish, Types, Counters

\* The counters stay counters.
LEMMA CountersType ==
  ASSUME stats \in Counters, NEW es, NEW n \in Nat, Publish(es, n)
  PROVE  stats' \in Counters
BY DEF Publish, Counters, gcache_update_live_locked

\* A count with entries taken off is a number.
LEMMA FewerType ==
  ASSUME NEW n \in Nat, NEW D \in SUBSET Slot
  PROVE  Fewer(n, D) \in Nat
<1>1. Cardinality(D) \in Nat
  BY FewThreads, FS_Subset, FS_CardinalityType
<1>2. QED
  BY SMT, <1>1 DEF Fewer

-----------------------------------------------------------------------------
(* Handles *)

\* The handles on s are counted, and the entry is the one they were given.
Pinned(s) ==
    /\ entries[s].ref_count = Cardinality(Users(s))
    /\ \A t \in Users(s) : /\ entries[s].valid /\ entries[s].key = th[t].key
                           /\ entries[s].version = th[t].version

LEMMA PinnedIs == HandlesPinned <=> \A s \in Slot : Pinned(s)
BY DEF HandlesPinned, Pinned, Users

LEMMA PinnedNextIs == HandlesPinned' <=> \A s \in Slot : Pinned(s)'
BY DEF HandlesPinned, Pinned, Users

\* There are finitely many threads, so also handles.
LEMMA UsersFinite ==
  ASSUME NEW s
  PROVE  /\ IsFiniteSet(Users(s)) /\ IsFiniteSet(Users(s)')
         /\ Cardinality(Users(s)) \in Nat /\ Cardinality(Users(s)') \in Nat
BY FewThreads, FS_Subset, FS_CardinalityType DEF Users

\* An entry nobody counts has no handle.
LEMMA Unused ==
  ASSUME HandlesPinned, NEW s \in Slot, entries[s].ref_count = 0
  PROVE  Users(s) = {}
BY PinnedIs, UsersFinite, FS_EmptySet DEF Pinned

\* A slot nobody gets or gives back a handle of.
LEMMA PinnedKept ==
  ASSUME HandlesPinned, NEW s \in Slot, Users(s)' = Users(s),
         \A u \in Users(s) : th'[u] = th[u],
         Drops(s) \/ (entries[s].ref_count = 0 /\ entries'[s].ref_count = 0)
  PROVE  Pinned(s)'
<1>1. Pinned(s)
  BY PinnedIs
<1>2. CASE Kept(s) /\ entries'[s].ref_count = entries[s].ref_count
  BY <1>1, <1>2 DEF Pinned, Kept
<1>3. CASE entries[s].ref_count = 0 /\ entries'[s].ref_count = 0
  BY <1>3, Unused, FS_EmptySet DEF Pinned
<1>4. QED
  BY <1>2, <1>3, EmptyIs DEF Drops

\* The handles of a slot, when a thread that has none of it moves and gets none.
LEMMA UsersKept ==
  ASSUME NEW t \in Thread, Only(t), NEW s \in Slot, t \notin Users(s), t \notin Users(s)'
  PROVE  Users(s)' = Users(s) /\ \A u \in Users(s) : th'[u] = th[u]
<1>1. Users(s) \subseteq Thread /\ Users(s)' \subseteq Thread
  BY DEF Users
<1>2. QED
  BY <1>1 DEF Only, Users

\* A step that is about no handle.
LEMMA PinsKept ==
  ASSUME HandlesPinned, NEW t \in Thread, Only(t), th[t].pc # "use",
         th'[t].pc # "use" \/ th'[t].slot = None,
         \A s \in Slot : Drops(s) \/ (entries[s].ref_count = 0 /\ entries'[s].ref_count = 0)
  PROVE  HandlesPinned'
<1>1. ASSUME NEW s \in Slot PROVE Pinned(s)'
  BY NoneApart, UsersKept, PinnedKept DEF Users
<1>2. QED
  BY <1>1, PinnedNextIs

-----------------------------------------------------------------------------
(* The drain *)

\* A slot that keeps what it has, or is emptied, is in order.
LEMMA FitKept ==
  ASSUME entries \in [Slot -> Entry], generation \in Nat, generation' \in Nat, generation' >= generation,
         NEW s \in Slot, Fit(s),
         (Kept(s) /\ (entries'[s].ref_count # 0 => entries[s].valid)) \/ entries'[s] = Empty
  PROVE  Fit(s)'
<1>1. CASE Kept(s) /\ (entries'[s].ref_count # 0 => entries[s].valid)
  <2>1. entries[s].generation \in Nat
    BY DEF Entry
  <2>2. entries[s].generation <= generation'
    BY SMT, <2>1 DEF Fit
  <2>3. QED
    BY <1>1, <2>2 DEF Fit, Kept
<1>2. CASE entries'[s] = Empty
  <2>1. entries'[s].generation <= generation'
    BY SMT, <1>2, EmptyIs
  <2>2. QED
    BY <1>2, <2>1, EmptyIs DEF Fit
<1>3. QED
  BY <1>1, <1>2

\* Neither handles nor reservations come of it.
LEMMA FitDropped ==
  ASSUME entries \in [Slot -> Entry], generation \in Nat, generation' \in Nat, generation' >= generation,
         NEW s \in Slot, Fit(s), Drops(s)
  PROVE  Fit(s)'
BY FitKept DEF Drops, Fit

\* gcache_drain_locked leaves no commit unseen, and the slots in order.
LEMMA DrainState ==
  ASSUME Types, Slots, NEW g0 \in Nat, g0 >= generation, NEW gone, gcache_drain_locked(g0, gone)
  PROVE  /\ entries' \in [Slot -> Entry] /\ Slots'
         /\ \A s \in Slot : Drops(s)
         /\ generation' \in Nat /\ generation' >= g0 /\ generation' >= generation
         /\ pend.overflow => generation' > generation
         /\ pend' \in [ids : Seq(Graph), overflow : BOOLEAN]
         /\ pend'.ids = <<>> /\ pend'.overflow = FALSE
         /\ stats' \in Counters
<1>1. generation' = IF pend.overflow THEN g0 + 1 ELSE g0
  BY DEF gcache_drain_locked
<1>2. generation \in Nat
  BY DEF Types
<1>3. generation' \in Nat /\ generation' >= g0 /\ generation' >= generation /\ (pend.overflow => generation' > generation)
  BY SMT, <1>1, <1>2
<1>4. pend' = [ids |-> <<>>, overflow |-> FALSE]
  BY DEF gcache_drain_locked
<1>5. pend' \in [ids : Seq(Graph), overflow : BOOLEAN] /\ pend'.ids = <<>> /\ pend'.overflow = FALSE
  BY SMT, <1>4
<1>6. stats' \in Counters
  <2> DEFINE es == entries'
             n == Fewer(stats.current_entries, Left(es))
  <2>1. QED
    BY FewerType, <1>3 DEF Counters, gcache_drain_locked, Left, Types, gcache_update_live_locked
<1>7. QED
  BY DrainSlots, <1>2, <1>3, FitDropped, <1>5, <1>6 DEF Types, Slots, gcache_drain_locked

\* The host is told when the last entry leaves.
LEMMA DrainTold ==
  ASSUME Types, Slots, HostToldLive, NEW g0 \in Nat, NEW gone, gcache_drain_locked(g0, gone), Types'
  PROVE  HostToldLive'
<1> DEFINE es == entries'
           n == Fewer(stats.current_entries, Left(es))
<1>1. \A s \in Slot : (entries'[s].valid => entries[s].valid) /\ (entries'[s].loading <=> entries[s].loading)
  BY DrainSlots
<1>2. stats'.current_entries = n /\ stats'.live = IF Left(es) = {} THEN stats.live ELSE gcache_update_live_locked(es, n)
  BY DEF gcache_drain_locked
<1>3. Left(es) \in SUBSET Valid /\ Valid' = Valid \ Left(es)
  BY SMT, <1>1 DEF Left, Valid
<1>4. n = Cardinality(Valid')
  BY ZenonT(60), <1>3, ValidFinite, FewerIs DEF HostToldLive, Valid
<1>5. CASE Left(es) = {}
  BY <1>3, <1>5, <1>2, <1>1, <1>4 DEF Valid, HostToldLive
<1>6. CASE Left(es) # {}
  BY <1>2, <1>4, <1>6, ToldNow
<1>7. QED
  BY <1>5, <1>6

-----------------------------------------------------------------------------
(* The first invariant: commits *)

\* Types, with what a thread's step leaves alone.
LEMMA TypesKept ==
  ASSUME Types, NEW t \in Thread, Only(t), th' \in [Thread -> Request],
         KeyFits(t)',
         entries' \in [Slot -> Entry], generation' \in Nat,
         pend' \in [ids : Seq(Graph), overflow : BOOLEAN], stats' \in Counters,
         sources' \subseteq TableGraph, UNCHANGED data
  PROVE  Types'
<1>1. ASSUME NEW u \in Thread PROVE KeyFits(u)'
  BY <1>1 DEF Types, Only, KeyFits
<1>2. QED
  BY <1>1 DEF Types, data

\* Slots and handles that stay as they are.
LEMMA CacheFrame ==
  ASSUME Types, Slots, HandlesPinned, HostToldLive, Types', generation' >= generation,
         UNCHANGED <<entries, stats, th>>
  PROVE  Slots' /\ HandlesPinned' /\ HostToldLive'
<1>1. Slots'
  BY FitDropped DEF Types, Slots, Drops, Kept
<1>2. QED
  BY <1>1 DEF HandlesPinned, HostToldLive

\* The rows, when a transaction has changed some.
LEMMA lt_transactCached ==
  ASSUME Cached, NEW W \in SUBSET Graph, lt_transact(W)
  PROVE  Cached'
<1>1. rows \in [Graph -> Nat] /\ rows' = [g \in Graph |-> IF g \in W THEN rows[g] + 1 ELSE rows[g]]
  BY DEF Cached, Types, lt_transact
<1>2. rows' \in [Graph -> Nat] /\ \A g \in Graph : rows[g] <= rows'[g] /\ rows'[g] \in Nat /\ rows[g] \in Nat
  BY SMT, <1>1
<1>3. Commits'
  <2>1. committed \in [Graph -> Nat]
    BY DEF Cached, Types
  <2>2. ASSUME NEW g \in Graph PROVE committed'[g] <= rows'[g]
    <3>1. committed[g] <= rows[g] /\ committed[g] \in Nat
      BY <2>1 DEF Cached, Commits
    <3>2. committed[g] <= rows'[g]
      BY SMT, <1>2, <3>1
    <3>3. QED
      BY <3>2 DEF lt_transact
  <2>3. ASSUME NEW C \in committing'
        PROVE  /\ \A c \in C : c[1] \in Graph /\ c[2] \in Nat /\ c[2] <= rows'[c[1]]
               /\ \A c, d \in C : c[1] = d[1] => c = d
    <3>1. CASE C \in committing
      <4>1. /\ \A c \in C : c[1] \in Graph /\ c[2] \in Nat /\ c[2] <= rows[c[1]]
            /\ \A c, d \in C : c[1] = d[1] => c = d
        BY <3>1 DEF Cached, Commits
      <4>2. ASSUME NEW c \in C PROVE c[2] <= rows'[c[1]]
        BY SMT, <1>2, <4>1
      <4>3. QED
        BY <4>1, <4>2
    <3>2. CASE C = {<<g, rows[g] + 1>> : g \in W}
      <4>1. ASSUME NEW c \in C PROVE c[1] \in W /\ c[2] = rows[c[1]] + 1 /\ c = <<c[1], c[2]>>
        BY SMT, <3>2
      <4>2. ASSUME NEW c \in C PROVE c[1] \in Graph /\ c[2] \in Nat /\ c[2] <= rows'[c[1]]
        <5>1. c[1] \in W /\ c[2] = rows[c[1]] + 1
          BY <4>1
        <5>2. rows'[c[1]] = rows[c[1]] + 1
          BY <1>1, <5>1
        <5>3. QED
          BY SMT, <1>2, <5>1, <5>2
      <4>3. QED
        BY ZenonT(60), <4>1, <4>2
    <3>3. QED
      BY <3>1, <3>2 DEF lt_transact
  <2>4. QED
    BY <2>2, <2>3 DEF Commits
<1>4. UNCHANGED <<entries, stats, th, generation>>
  BY DEF lt_transact, cache
<1>5. generation \in Nat /\ generation' >= generation
  BY SMT, <1>4 DEF Cached, Types
<1>6. QED
  BY <1>2, <1>4, <1>5, CacheFrame, <1>3 DEF Cached, Types, KeyFits, lt_transact, cache

\* vgraph_commit_notify raises the generation, defers, or does nothing.
LEMMA NotifyIs ==
  ASSUME Types, NEW C, vgraph_commit_notify(C)
  PROVE  /\ generation' \in Nat /\ pend' \in [ids : Seq(Graph), overflow : BOOLEAN]
         /\ \/ generation' > generation /\ pend' = pend
            \/ /\ generation' = generation
               /\ \E g \in sources : /\ Wrote(C) = {g}
                                     /\ \/ pend' = [pend EXCEPT !.ids = Append(pend.ids, g)]
                                        \/ pend' = [pend EXCEPT !.overflow = TRUE]
            \/ Wrote(C) \subseteq TableGraph \ sources /\ generation' = generation /\ pend' = pend
<1>1. generation \in Nat /\ pend \in [ids : Seq(Graph), overflow : BOOLEAN] /\ sources \subseteq Graph
  BY DEF Types, Graph
<1>2. CASE gcache_bump_generation
  BY SMT, <1>1, <1>2 DEF gcache_bump_generation
<1>3. ASSUME NEW g \in Wrote(C) \cap sources, Wrote(C) = {g}, gcache_invalidate_deferred(g)
      PROVE  /\ pend' \in [ids : Seq(Graph), overflow : BOOLEAN] /\ generation' = generation
             /\ \/ pend' = [pend EXCEPT !.ids = Append(pend.ids, g)]
                \/ pend' = [pend EXCEPT !.overflow = TRUE]
  <2>1. [pend EXCEPT !.ids = Append(pend.ids, g)] \in [ids : Seq(Graph), overflow : BOOLEAN]
    BY SMT, <1>1
  <2>2. QED
    BY <1>1, <1>3, <2>1 DEF gcache_invalidate_deferred
<1>4. CASE Wrote(C) \subseteq TableGraph \ sources /\ UNCHANGED <<generation, pend>>
  BY <1>1, <1>4
<1>5. QED
  BY <1>1, <1>2, <1>3, <1>4 DEF vgraph_commit_notify

\* A commit that returns has written no more than the rows have.
LEMMA vgraph_commit_notifyCached ==
  ASSUME Cached, NEW C, vgraph_commit_notify(C)
  PROVE  Cached' /\ \A g \in Graph : committed[g] <= committed'[g] /\ (committed'[g] # committed[g] => g \in Wrote(C))
<1>1. /\ C \in committing /\ UNCHANGED <<rows, entries, stats, sources, mutex, th, installs>>
      /\ committing' = committing \ {C}
      /\ committed' = [g \in Graph |-> IF \E c \in C : c[1] = g /\ c[2] > committed[g]
                                       THEN (CHOOSE c \in C : c[1] = g)[2] ELSE committed[g]]
  BY DEF vgraph_commit_notify
<1>2. rows \in [Graph -> Nat] /\ committed \in [Graph -> Nat] /\ generation \in Nat
  BY DEF Cached, Types
<1>3. /\ \A c \in C : c[1] \in Graph /\ c[2] \in Nat /\ c[2] <= rows[c[1]]
      /\ \A c, d \in C : c[1] = d[1] => c = d
      /\ \A g \in Graph : committed[g] <= rows[g]
  BY <1>1 DEF Cached, Commits
<1>4. ASSUME NEW g \in Graph
      PROVE  /\ committed'[g] \in Nat /\ committed'[g] <= rows'[g] /\ committed[g] <= committed'[g]
             /\ committed'[g] # committed[g] => g \in Wrote(C)
  <2>1. CASE \E c \in C : c[1] = g /\ c[2] > committed[g]
    <3>1. PICK c \in C : c[1] = g /\ c[2] > committed[g]
      BY <2>1
    <3>2. committed'[g] = c[2]
      BY <1>3, <3>1, <1>1, <2>1
    <3>3. g \in Wrote(C)
      BY <3>1 DEF Wrote
    <3>4. QED
      BY SMT, <1>1, <1>2, <1>3, <3>1, <3>2, <3>3
  <2>2. CASE ~\E c \in C : c[1] = g /\ c[2] > committed[g]
    <3>1. committed'[g] = committed[g]
      BY <1>1, <2>2
    <3>2. QED
      BY SMT, <1>1, <1>2, <1>3, <3>1
  <2>3. QED
    BY <2>1, <2>2
<1>5. committed' \in [Graph -> Nat]
  <2> DEFINE F(g) == IF \E c \in C : c[1] = g /\ c[2] > committed[g]
                     THEN (CHOOSE c \in C : c[1] = g)[2] ELSE committed[g]
  <2>1. committed' = [g \in Graph |-> F(g)]
    BY <1>1
  <2> HIDE DEF F
  <2>2. QED
    BY SMT, <1>4, <2>1
<1>6. generation' \in Nat /\ pend' \in [ids : Seq(Graph), overflow : BOOLEAN]
  BY NotifyIs DEF Cached
<1>7. generation' >= generation
  <2>1. generation' > generation \/ generation' = generation
    BY NotifyIs DEF Cached
  <2>2. QED
    BY SMT, <1>2, <1>6, <2>1
<1>8. QED
  BY <1>1, <1>5, <1>6, <1>7, CacheFrame, <1>4 DEF Cached, Commits, Types, KeyFits

-----------------------------------------------------------------------------
(* Where the threads go *)

\* What a thread is out for.
SameRequest(t) ==
    th'[t].key = th[t].key /\ th'[t].need = th[t].need /\ th'[t].version = th[t].version

\* The steps of t alone.
Moves(t) ==
    /\ Only(t)
    /\ th' \in [Thread -> Request]
    /\ KeyFits(t)'

\* The record of a thread at rest.
LEMMA IdleIs ==
  /\ Idle \in Request
  /\ Idle.pc = "idle" /\ Idle.key = None /\ Idle.need = 0 /\ Idle.slot = None
BY SMT DEF Idle, Request, Places

\* One thread's record is replaced.
LEMMA Moved ==
  ASSUME th \in [Thread -> Request], NEW t \in Thread, NEW x \in Request, th' = [th EXCEPT ![t] = x],
         x.pc # "idle" => x.key \in Graph, t \in Installer => x.key \in TableGraph \cup {None}
  PROVE  Moves(t) /\ th'[t] = x
BY DEF Moves, Only, KeyFits

\* A thread goes to rest.
LEMMA Rests ==
  ASSUME Types, NEW t \in Thread, th' = [th EXCEPT ![t] = Idle]
  PROVE  Moves(t) /\ th'[t].pc = "idle"
BY Moved, IdleIs DEF Types

\* A thread goes on with what it is out for.
LEMMA GoesOn ==
  ASSUME Types, NEW t \in Thread, NEW where \in Places, th' = [th EXCEPT ![t].pc = where],
         th[t].pc # "idle"
  PROVE  Moves(t) /\ th'[t].pc = where /\ SameRequest(t) /\ th'[t].slot = th[t].slot
<1> DEFINE x == [th[t] EXCEPT !.pc = where]
<1>1. th[t] \in Request /\ th[t].key \in Graph
  BY DEF Types, KeyFits
<1>2. /\ x \in Request /\ x.pc = where /\ x.key = th[t].key /\ x.need = th[t].need
      /\ x.version = th[t].version /\ x.slot = th[t].slot
  BY <1>1 DEF Request
<1>3. th' = [th EXCEPT ![t] = x]
  OBVIOUS
<1> HIDE DEF x
<1>4. QED
  BY <1>1, <1>2, <1>3, Moved DEF SameRequest, Types, KeyFits

\* The same, with a slot.
LEMMA GoesOnWith ==
  ASSUME Types, NEW t \in Thread, NEW where \in Places, NEW s \in Slot \cup {None},
         th' = [th EXCEPT ![t].pc = where, ![t].slot = s], th[t].pc # "idle"
  PROVE  Moves(t) /\ th'[t].pc = where /\ SameRequest(t) /\ th'[t].slot = s
<1> DEFINE x == [th[t] EXCEPT !.pc = where, !.slot = s]
<1>1. th[t] \in Request /\ th[t].key \in Graph
  BY DEF Types, KeyFits
<1>2. /\ x \in Request /\ x.pc = where /\ x.key = th[t].key /\ x.need = th[t].need
      /\ x.version = th[t].version /\ x.slot = s
  BY <1>1 DEF Request
<1>3. th' = [th EXCEPT ![t] = x]
  OBVIOUS
<1> HIDE DEF x
<1>4. QED
  BY <1>1, <1>2, <1>3, Moved DEF SameRequest, Types, KeyFits

\* gcache_get_or_reserve begins.
LEMMA EnterLookupMoves ==
  ASSUME Types, NEW t \in Query, NEW g \in Graph, EnterLookup(t, g)
  PROVE  /\ Moves(t) /\ th[t].pc = "idle" /\ th'[t].pc = "look"
         /\ th'[t].key = g /\ th'[t].need = committed[g]
<1> DEFINE x == [Idle EXCEPT !.pc = "look", !.key = g, !.need = committed[g]]
<1>1. committed[g] \in Nat
  BY DEF Types
<1>2. x \in Request /\ x.pc = "look" /\ x.key = g /\ x.need = committed[g]
  BY ZenonT(30), <1>1 DEF Idle, Request, Places
<1>3. th' = [th EXCEPT ![t] = x] /\ th[t].pc = "idle"
  BY DEF EnterLookup
<1> HIDE DEF x
<1>4. QED
  BY <1>2, <1>3, Moved, Apart DEF Types, Thread

\* GRAPH_LOAD_TABLE begins.
LEMMA gcache_invalidateMoves ==
  ASSUME Types, NEW t \in Thread, NEW g \in TableGraph, gcache_invalidate(t, g)
  PROVE  Moves(t) /\ th[t].pc = "idle" /\ th'[t].pc = "invalidated"
<1> DEFINE x == [Idle EXCEPT !.pc = "invalidated", !.key = g]
<1>1. x \in Request /\ x.pc = "invalidated" /\ x.key = g /\ g \in Graph
  BY ZenonT(30) DEF Idle, Request, Places, Graph
<1>2. th' = [th EXCEPT ![t] = x] /\ th[t].pc = "idle"
  BY DEF gcache_invalidate
<1> HIDE DEF x
<1>3. QED
  BY <1>1, <1>2, Moved DEF Types, KeyFits

\* A lookup finds an entry.
LEMMA HitMoves ==
  ASSUME Types, NEW t \in Thread, NEW s \in Slot, Hit(t, s)
  PROVE  /\ Moves(t) /\ th[t].pc \in {"look", "waiting"} /\ th'[t].pc = "use" /\ th'[t].slot = s
         /\ th'[t].key = th[t].key /\ th'[t].need = th[t].need /\ th'[t].version = entries[s].version
<1> DEFINE x == [th[t] EXCEPT !.pc = "use", !.slot = s, !.version = entries[s].version]
<1>1. th[t] \in Request /\ entries[s].version \in Nat /\ th[t].pc \in {"look", "waiting"}
  BY DEF Types, Entry, Hit, Looking
<1>2. th[t].key \in Graph
  BY SMT, <1>1 DEF Types, KeyFits
<1>3. /\ x \in Request /\ x.pc = "use" /\ x.key = th[t].key /\ x.need = th[t].need
      /\ x.version = entries[s].version /\ x.slot = s
  BY <1>1 DEF Request, Places
<1>4. th' = [th EXCEPT ![t] = x]
  BY DEF Hit
<1> HIDE DEF x
<1>5. QED
  BY <1>1, <1>2, <1>3, <1>4, Moved DEF Types, KeyFits

\* A lookup waits for the loader, or has waited enough.
LEMMA WaitForLoaderMoves ==
  ASSUME Types, NEW t \in Thread, WaitForLoader(t)
  PROVE  /\ Moves(t) /\ th[t].pc \in {"look", "waiting"} /\ th'[t].pc \in {"waiting", "gave up"}
         /\ SameRequest(t)
<1> DEFINE x == [th[t] EXCEPT !.pc = "waiting", !.waits = th[t].waits + 1]
<1>1. th[t].pc \in {"look", "waiting"} /\ th[t] \in Request
  BY DEF Types, WaitForLoader, Looking
<1>2. th[t].key \in Graph /\ th[t].pc # "idle" /\ th[t].waits + 1 \in Nat
  <2>1. th[t].pc # "idle" /\ th[t].waits \in Nat
    BY <1>1 DEF Request
  <2>2. th[t].waits + 1 \in Nat
    BY SMT, <2>1
  <2>3. QED
    BY <2>1, <2>2 DEF Types, KeyFits
<1>3. CASE th' = [th EXCEPT ![t] = x]
  <2>1. /\ x \in Request /\ x.pc = "waiting" /\ x.key = th[t].key /\ x.need = th[t].need
        /\ x.version = th[t].version
    BY <1>1, <1>2 DEF Request, Places
  <2> HIDE DEF x
  <2>2. QED
    BY <1>1, <1>2, <1>3, <2>1, Moved DEF SameRequest, Types, KeyFits
<1>4. CASE th' = [th EXCEPT ![t].pc = "gave up"]
  BY <1>1, <1>2, <1>4, GoesOn DEF Places
<1>5. QED
  BY <1>3, <1>4 DEF WaitForLoader

\* A lookup reserves a slot.
LEMMA ReserveMoves ==
  ASSUME Types, NEW t \in Thread, NEW s \in Slot, NEW old, Reserve(t, s, old)
  PROVE  Moves(t) /\ th[t].pc \in {"look", "waiting"} /\ th'[t].pc = "load" /\ SameRequest(t)
<1>1. th[t].pc \in {"look", "waiting"} /\ th' = [th EXCEPT ![t].pc = "load", ![t].slot = s]
  BY DEF Reserve, Looking
<1>2. "load" \in Places /\ th[t].pc # "idle"
  BY SMT, <1>1 DEF Places
<1>3. QED
  BY <1>1, <1>2, GoesOnWith

\* A lookup that finds no slot, or has given up.
LEMMA NoSlotMoves ==
  ASSUME Types, NEW t \in Thread, NoSlot(t) \/ FailLookup(t)
  PROVE  Moves(t) /\ th[t].pc \in {"look", "waiting", "gave up"} /\ th'[t].pc = "idle"
BY Rests DEF NoSlot, FailLookup, Looking

\* The rows are read, or not.
LEMMA LoadMoves ==
  ASSUME Types, NEW t \in Thread, Load(t)
  PROVE  /\ Moves(t) /\ th[t].pc = "load" /\ th[t].key \in Graph
         /\ \/ /\ th'[t].pc = "loaded" /\ th'[t].version = rows[th[t].key]
               /\ th'[t].key = th[t].key /\ th'[t].need = th[t].need
            \/ t \in Query /\ th'[t].pc = "abort" /\ SameRequest(t)
            \/ t \notin Query /\ th'[t].pc = "idle"
<1> DEFINE x == [th[t] EXCEPT !.pc = "loaded", !.version = rows[th[t].key]]
<1>1. th[t].pc = "load" /\ th[t] \in Request
  BY DEF Types, Load
<1>2. th[t].key \in Graph /\ th[t].pc # "idle"
  BY SMT, <1>1 DEF Types, KeyFits
<1>3. CASE th' = [th EXCEPT ![t].pc = "loaded", ![t].version = rows[th[t].key]]
  <2>1. /\ x \in Request /\ x.pc = "loaded" /\ x.key = th[t].key /\ x.need = th[t].need
        /\ x.version = rows[th[t].key]
    BY <1>2, <1>1 DEF Request, Places, Types
  <2>2. th' = [th EXCEPT ![t] = x]
    BY <1>3
  <2> HIDE DEF x
  <2>3. QED
    BY <1>1, <1>2, <2>1, <2>2, Moved DEF Types, KeyFits
<1>4. CASE t \in Query /\ th' = [th EXCEPT ![t].pc = "abort"]
  BY <1>1, <1>2, <1>4, GoesOn DEF Places
<1>5. CASE t \notin Query /\ th' = [th EXCEPT ![t] = Idle]
  BY <1>1, <1>2, <1>5, Rests
<1>6. QED
  BY <1>3, <1>4, <1>5 DEF Load

\* gcache_put begins.
LEMMA EnterPutMoves ==
  ASSUME Types, NEW t \in Thread, EnterPut(t)
  PROVE  /\ Moves(t) /\ th[t].pc = (IF t \in Query THEN "loaded" ELSE "registered")
         /\ th'[t].pc = "put" /\ SameRequest(t)
<1>1. th[t].pc = (IF t \in Query THEN "loaded" ELSE "registered") /\ th' = [th EXCEPT ![t].pc = "put"]
  BY DEF EnterPut
<1>2. "put" \in Places /\ th[t].pc # "idle"
  BY SMT, <1>1 DEF Places
<1>3. QED
  BY <1>1, <1>2, GoesOn

\* gcache_put has put the entry.
LEMMA gcache_putMoves ==
  ASSUME Types, NEW t \in Thread, NEW s \in Slot, NEW V, gcache_put(t, s, V)
  PROVE  /\ Moves(t) /\ th[t].pc = "put" /\ th'[t].pc = "use" /\ th'[t].slot = s /\ SameRequest(t)
<1>1. th[t].pc = "put" /\ th' = [th EXCEPT ![t].pc = "use", ![t].slot = s]
  BY DEF gcache_put, Putting
<1>2. "use" \in Places /\ th[t].pc # "idle"
  BY SMT, <1>1 DEF Places
<1>3. QED
  BY <1>1, <1>2, GoesOnWith

\* gcache_put has not.
LEMMA PutDeclinedMoves ==
  ASSUME Types, NEW t \in Thread, PutDeclined(t)
  PROVE  /\ Moves(t) /\ th[t].pc = "put"
         /\ \/ t \in Query /\ th'[t].pc = "declined" /\ SameRequest(t)
            \/ t \notin Query /\ th'[t].pc = "idle"
<1>1. th[t].pc = "put"
  BY DEF PutDeclined, Putting
<1>2. "declined" \in Places /\ th[t].pc # "idle"
  BY SMT, <1>1 DEF Places
<1>3. CASE t \in Query /\ th' = [th EXCEPT ![t].pc = "declined"]
  BY <1>1, <1>2, <1>3, GoesOn
<1>4. CASE t \notin Query /\ th' = [th EXCEPT ![t] = Idle]
  BY <1>1, <1>4, Rests
<1>5. QED
  BY <1>3, <1>4 DEF PutDeclined

\* The loader has given its reservation up.
LEMMA gcache_abort_loadMoves ==
  ASSUME Types, NEW t \in Thread, gcache_abort_load(t)
  PROVE  /\ Moves(t)
         /\ \/ th[t].pc = "abort" /\ th'[t].pc = "idle"
            \/ th[t].pc = "declined" /\ th'[t].pc = "use" /\ th'[t].slot = None /\ SameRequest(t)
<1>1. th[t].pc \in {"abort", "declined"}
  BY DEF gcache_abort_load
<1>2. "use" \in Places /\ th[t].pc # "idle"
  BY SMT, <1>1 DEF Places
<1>3. CASE th[t].pc = "abort" /\ th' = [th EXCEPT ![t] = Idle]
  BY <1>3, Rests
<1>4. CASE th[t].pc = "declined" /\ th' = [th EXCEPT ![t].pc = "use", ![t].slot = None]
  BY <1>2, <1>4, GoesOnWith
<1>5. th[t].pc = "declined" => th' = [th EXCEPT ![t].pc = "use", ![t].slot = None]
  <2>1. "declined" # "abort"
    BY SMT
  <2>2. QED
    BY <2>1 DEF gcache_abort_load
<1>6. QED
  BY <1>1, <1>3, <1>4, <1>5 DEF gcache_abort_load

\* The handle, or the copy, is given back.
LEMMA gcache_releaseMoves ==
  ASSUME Types, NEW t \in Thread, gcache_release(t)
  PROVE  Moves(t) /\ th[t].pc = "use" /\ th'[t].pc = "idle"
BY Rests DEF gcache_release

\* GRAPH_LOAD_TABLE is about to read.
LEMMA gcache_increment_generationMoves ==
  ASSUME Types, NEW t \in Thread, gcache_increment_generation(t)
  PROVE  Moves(t) /\ th[t].pc = "invalidated" /\ th'[t].pc = "load" /\ SameRequest(t)
<1>1. th[t].pc = "invalidated" /\ th' = [th EXCEPT ![t].pc = "load"]
  BY DEF gcache_increment_generation
<1>2. "load" \in Places /\ th[t].pc # "idle"
  BY SMT, <1>1 DEF Places
<1>3. QED
  BY <1>1, <1>2, GoesOn

\* GRAPH_LOAD_TABLE has read.
LEMMA vgraph_table_src_setMoves ==
  ASSUME Types, NEW t \in Thread, vgraph_table_src_set(t)
  PROVE  /\ Moves(t) /\ th[t].pc = "loaded" /\ th[t].key \in Graph
         /\ \/ th'[t].pc = "registered" /\ SameRequest(t)
            \/ th'[t].pc = "idle"
<1>1. th[t].pc = "loaded"
  BY DEF vgraph_table_src_set
<1>2. "registered" \in Places /\ th[t].pc # "idle"
  BY SMT, <1>1 DEF Places
<1>3. th[t].key \in Graph
  BY <1>2 DEF Types, KeyFits
<1>4. CASE th' = [th EXCEPT ![t].pc = "registered"]
  BY <1>1, <1>2, <1>3, <1>4, GoesOn
<1>5. CASE th' = [th EXCEPT ![t] = Idle]
  BY <1>1, <1>3, <1>5, Rests
<1>6. QED
  BY <1>4, <1>5 DEF vgraph_table_src_set

-----------------------------------------------------------------------------
(* The first invariant: threads *)

LEMMA CommitsKept == Commits /\ UNCHANGED data => Commits'
BY DEF Commits, data

\* A step that is about no handle.
LEMMA StepCached ==
  ASSUME Cached, NEW t \in Thread, Moves(t), th[t].pc # "use", th'[t].pc # "use" \/ th'[t].slot = None,
         entries' \in [Slot -> Entry], Slots', generation' \in Nat,
         pend' \in [ids : Seq(Graph), overflow : BOOLEAN], stats' \in Counters,
         sources' \subseteq TableGraph, UNCHANGED data,
         \A s \in Slot : Drops(s) \/ (entries[s].ref_count = 0 /\ entries'[s].ref_count = 0),
         Types' => HostToldLive'
  PROVE  Cached'
BY CommitsKept, PinsKept, TypesKept DEF Cached, Moves

\* A step that begins with a drain.
LEMMA DrainCached ==
  ASSUME Cached, NEW t \in Thread, Moves(t), th[t].pc # "use", th'[t].pc # "use",
         NEW g0 \in Nat, g0 >= generation, NEW gone, gcache_drain_locked(g0, gone),
         UNCHANGED <<data, sources>>
  PROVE  Cached'
BY DrainTold, DrainState, StepCached DEF Cached, Types

\* A step that leaves the cache alone.
LEMMA QuietCached ==
  ASSUME Cached, NEW t \in Thread, Moves(t), th[t].pc # "use", th'[t].pc # "use",
         UNCHANGED <<data, cache>>, sources' \subseteq TableGraph
  PROVE  Cached'
<1>1. UNCHANGED <<entries, stats, generation, pend>>
  BY DEF cache
<1>2. Types /\ generation \in Nat
  BY DEF Cached, Types
<1>3. generation' >= generation
  BY SMT, <1>1, <1>2
<1>4. QED
  BY <1>1, <1>2, <1>3, FitDropped, StepCached DEF Types, Cached, Slots, Drops, Kept, HostToldLive

\* The drains.
LEMMA DrainsCached ==
  ASSUME Cached, NEW t \in Thread,
         \/ t \in Query /\ \E g \in Graph : EnterLookup(t, g)
         \/ \E g \in TableGraph : gcache_invalidate(t, g)
         \/ EnterPut(t)
         \/ gcache_increment_generation(t)
  PROVE  Cached'
<1>1. Types /\ generation \in Nat
  BY DEF Cached, Types
<1>2. generation >= generation /\ generation + 1 \in Nat /\ generation + 1 >= generation
  BY SMT, <1>1
<1>3. ASSUME t \in Query, NEW g \in Graph, EnterLookup(t, g) PROVE Cached'
  <2>1. Moves(t) /\ th[t].pc # "use" /\ th'[t].pc # "use"
    BY SMT, <1>1, <1>3, EnterLookupMoves
  <2>2. QED
    BY <1>3, <1>1, <1>2, <2>1, DrainCached DEF EnterLookup
<1>4. ASSUME NEW g \in TableGraph, gcache_invalidate(t, g) PROVE Cached'
  <2>1. Moves(t) /\ th[t].pc # "use" /\ th'[t].pc # "use"
    BY SMT, <1>1, <1>4, gcache_invalidateMoves
  <2>2. QED
    BY <1>4, <1>1, <1>2, <2>1, DrainCached DEF gcache_invalidate
<1>5. CASE EnterPut(t)
  <2>1. Moves(t) /\ th[t].pc # "use" /\ th'[t].pc # "use"
    BY SMT, <1>1, <1>5, EnterPutMoves
  <2>2. QED
    BY <1>5, <1>1, <1>2, <2>1, DrainCached DEF EnterPut
<1>6. CASE gcache_increment_generation(t)
  <2>1. Moves(t) /\ th[t].pc # "use" /\ th'[t].pc # "use"
    BY SMT, <1>1, <1>6, gcache_increment_generationMoves
  <2>2. QED
    BY <1>6, <1>1, <1>2, <2>1, DrainCached DEF gcache_increment_generation
<1>7. QED
  BY <1>3, <1>4, <1>5, <1>6

\* The steps that leave the cache alone.
LEMMA QuietsCached ==
  ASSUME Cached, NEW t \in Thread,
         WaitForLoader(t) \/ FailLookup(t) \/ Load(t) \/ (t \in Installer /\ vgraph_table_src_set(t))
  PROVE  Cached'
<1>1. Types /\ sources \subseteq TableGraph
  BY DEF Cached, Types
<1>2. CASE WaitForLoader(t)
  <2>1. Moves(t) /\ th[t].pc # "use" /\ th'[t].pc # "use"
    BY ZenonT(30), <1>1, <1>2, WaitForLoaderMoves
  <2>2. QED
    BY <1>2, <1>1, <2>1, QuietCached DEF WaitForLoader, Looking, cache
<1>3. CASE FailLookup(t)
  <2>1. Moves(t) /\ th[t].pc # "use" /\ th'[t].pc # "use"
    BY ZenonT(30), <1>1, <1>3, NoSlotMoves
  <2>2. QED
    BY <1>3, <1>1, <2>1, QuietCached DEF FailLookup
<1>4. CASE Load(t)
  <2>1. Moves(t) /\ th[t].pc # "use" /\ th'[t].pc # "use"
    BY SMT, <1>1, <1>4, LoadMoves
  <2>2. QED
    BY <1>4, <1>1, <2>1, QuietCached DEF Load
<1>5. CASE t \in Installer /\ vgraph_table_src_set(t)
  <2>1. Moves(t) /\ th[t].pc # "use" /\ th'[t].pc # "use" /\ th[t].key \in Graph
    BY SMT, <1>1, <1>5, vgraph_table_src_setMoves
  <2>2. QED
    BY <1>5, <1>1, <2>1, NoneApart, QuietCached DEF Types, KeyFits, vgraph_table_src_set
<1>6. QED
  BY <1>2, <1>3, <1>4, <1>5

\* find_entry_locked, slot by slot.
LEMMA FoundIs ==
  ASSUME NEW k
  PROVE  find_entry_locked(k) = {s \in Slot : Found(s) /\ entries[s].key = k}
BY DEF find_entry_locked, Found

\* An entry gets one more handle.
LEMMA HitEntries ==
  ASSUME Cached, NEW t \in Thread, NEW s \in Slot, Hit(t, s)
  PROVE  /\ entries' \in [Slot -> Entry]
         /\ Found(s) /\ entries[s].valid /\ entries[s].key = th[t].key
         /\ \A r \in Slot : Kept(r)
         /\ entries'[s].ref_count = entries[s].ref_count + 1
         /\ \A r \in Slot : r # s => entries'[r] = entries[r]
<1>1. /\ s \in find_entry_locked(th[t].key) /\ entries[s].valid
      /\ entries' = [entries EXCEPT ![s].ref_count = entries[s].ref_count + 1]
  BY DEF Hit
<1>2. entries \in [Slot -> Entry] /\ entries[s] \in Entry
  BY DEF Cached, Types
<1>3. entries[s].ref_count + 1 \in Nat
  BY SMT, <1>2 DEF Entry
<1> DEFINE f == [entries[s] EXCEPT !.ref_count = entries[s].ref_count + 1]
<1>4. /\ f \in Entry /\ f.ref_count = entries[s].ref_count + 1
      /\ f.valid = entries[s].valid /\ f.loading = entries[s].loading /\ f.key = entries[s].key
      /\ f.generation = entries[s].generation /\ f.version = entries[s].version
      /\ f.loader = entries[s].loader /\ f.evicting = entries[s].evicting
      /\ f.invalidated = entries[s].invalidated
  BY <1>2, <1>3 DEF Entry
<1>5. entries' = [entries EXCEPT ![s] = f]
  BY <1>1
<1> HIDE DEF f
<1>6. QED
  BY <1>2, <1>4, <1>5, <1>1, FoundIs DEF Kept

\* The handle is counted, and the query has the version of the entry.
LEMMA HitCached ==
  ASSUME Cached, NEW t \in Thread, NEW s \in Slot, Hit(t, s)
  PROVE  Cached'
<1>1. /\ Moves(t) /\ th[t].pc \in {"look", "waiting"} /\ th'[t].pc = "use" /\ th'[t].slot = s
      /\ th'[t].key = th[t].key /\ th'[t].version = entries[s].version
  BY HitMoves DEF Cached
<1>2. /\ entries' \in [Slot -> Entry] /\ entries[s].valid /\ entries[s].key = th[t].key
      /\ \A r \in Slot : Kept(r)
      /\ entries'[s].ref_count = entries[s].ref_count + 1
      /\ \A r \in Slot : r # s => entries'[r] = entries[r]
  BY HitEntries
<1>3. UNCHANGED <<data, generation, pend, sources, stats>>
  BY DEF Hit, Looking
<1>4. Types /\ Slots /\ HandlesPinned /\ HostToldLive /\ Commits
  BY DEF Cached
<1>5. Types'
  BY <1>1, <1>2, <1>3, <1>4, TypesKept DEF Moves, Types
<1>6. generation' >= generation
  BY SMT, <1>3, <1>4 DEF Types
<1>7. Slots'
  BY <1>2, <1>4, <1>5, <1>6, FitKept DEF Slots, Types, Fit
<1>8. HostToldLive'
  BY <1>2, <1>3, <1>4, ToldStill DEF Kept
<1>9. ASSUME NEW r \in Slot, r # s PROVE Pinned(r)'
  <2>1. t \notin Users(r) /\ t \notin Users(r)'
    BY SMT, <1>1, <1>9 DEF Users
  <2>2. QED
    BY <1>2, <1>9, <1>1, <1>4, <2>1, UsersKept, PinnedKept DEF Moves, Drops
<1>10. Pinned(s)'
  <2>1. t \notin Users(s) /\ t \in Users(s)' /\ Users(s) \subseteq Thread /\ Users(s)' \subseteq Thread
    BY SMT, <1>1 DEF Users
  <2>2. \A u \in Thread : u # t => (u \in Users(s)' <=> u \in Users(s))
    BY <1>1 DEF Moves, Only, Users
  <2>3. Users(s)' = Users(s) \cup {t}
    BY SMT, <2>1, <2>2
  <2>4. Cardinality(Users(s)') = Cardinality(Users(s)) + 1
    BY <2>1, <2>3, UsersFinite, FS_AddElement
  <2>5. Pinned(s)
    BY <1>4, PinnedIs
  <2>6. ASSUME NEW u \in Users(s)'
        PROVE  entries'[s].valid /\ entries'[s].key = th'[u].key /\ entries'[s].version = th'[u].version
    <3>1. Kept(s)
      BY <1>2
    <3>2. CASE u = t
      BY <1>1, <1>2, <3>1, <3>2 DEF Kept
    <3>3. CASE u # t
      <4>1. u \in Users(s) /\ th'[u] = th[u]
        BY <1>1, <2>1, <2>2, <3>3 DEF Moves, Only
      <4>2. QED
        BY <2>5, <3>1, <4>1 DEF Kept, Pinned
    <3>4. QED
      BY <3>2, <3>3
  <2>7. QED
    BY <1>2, <2>4, <2>5, <2>6 DEF Pinned
<1>11. HandlesPinned'
  BY <1>9, <1>10, PinnedNextIs
<1>12. QED
  BY <1>3, <1>4, <1>5, <1>7, <1>8, <1>11, CommitsKept DEF Cached

\* A handle is given back; an entry on its way out goes with the last one.
LEMMA gcache_releaseEntries ==
  ASSUME Cached, NEW t \in Thread, gcache_release(t), NEW s \in Slot, th[t].slot = s
  PROVE  /\ entries' \in [Slot -> Entry]
         /\ entries[s].ref_count \in Nat /\ entries[s].ref_count # 0 /\ entries[s].valid
         /\ \A r \in Slot : r # s => entries'[r] = entries[r]
         /\ \/ Kept(s) /\ entries'[s].ref_count = entries[s].ref_count - 1 /\ UNCHANGED stats
            \/ entries'[s] = Empty /\ entries[s].ref_count = 1
               /\ Publish(entries', Fewer(stats.current_entries, {s}))
<1> DEFINE left == [entries[s] EXCEPT !.ref_count = entries[s].ref_count - 1]
           f == IF left.evicting /\ left.ref_count = 0 THEN Empty ELSE left
           es == [entries EXCEPT ![s] = f]
<1>1. th[t].pc = "use" /\ s # None
  BY NoneApart DEF gcache_release
<1>2. entries \in [Slot -> Entry] /\ entries[s] \in Entry /\ HandlesPinned
  BY DEF Cached, Types
<1>3. entries[s].ref_count \in Nat /\ entries[s].ref_count # 0
  BY <1>1, <1>2, Unused DEF Users, Entry
<1>4. entries[s].valid
  BY <1>3 DEF Cached, Slots, Fit
<1>5. entries[s].ref_count > 0 /\ entries[s].ref_count - 1 \in Nat /\ (entries[s].ref_count - 1 = 0 => entries[s].ref_count = 1)
  BY SMT, <1>3
<1>6. /\ left \in Entry /\ left.ref_count = entries[s].ref_count - 1
      /\ left.valid = entries[s].valid /\ left.loading = entries[s].loading /\ left.key = entries[s].key
      /\ left.generation = entries[s].generation /\ left.version = entries[s].version
      /\ left.loader = entries[s].loader /\ left.evicting = entries[s].evicting
      /\ left.invalidated = entries[s].invalidated
  BY <1>2, <1>5 DEF Entry
<1>7. IF es[s] = Empty THEN Publish(es, Fewer(stats.current_entries, {s}))
      ELSE entries' = es /\ UNCHANGED stats
  BY <1>5, <1>1 DEF gcache_release
<1> HIDE DEF left
<1>8. entries' = es
  BY <1>7 DEF Publish
<1>9. f \in Entry
  BY <1>6, EntryTypes
<1> HIDE DEF f
<1>10. entries' \in [Slot -> Entry] /\ entries'[s] = f /\ \A r \in Slot : r # s => entries'[r] = entries[r]
  BY <1>2, <1>8, <1>9
<1>11. CASE left.evicting /\ left.ref_count = 0
  <2>1. f = Empty
    BY <1>11 DEF f
  <2>2. QED
    BY <1>3, <1>4, <1>5, <1>6, <1>7, <1>8, <1>10, <1>11, <2>1
<1>12. CASE ~(left.evicting /\ left.ref_count = 0)
  <2>1. f = left /\ f # Empty
    BY <1>4, <1>6, <1>12, EmptyIs DEF f
  <2>2. QED
    BY <1>7, <1>8, <1>10, <2>1, <1>6, <1>3, <1>4 DEF Kept
<1>13. QED
  BY <1>11, <1>12

\* The count goes down with the handle.
LEMMA ReleasePinned ==
  ASSUME Cached, NEW t \in Thread, gcache_release(t), NEW s \in Slot, th[t].slot = s
  PROVE  HandlesPinned'
<1>1. Moves(t) /\ th[t].pc = "use" /\ th'[t].pc = "idle"
  BY gcache_releaseMoves DEF Cached
<1>2. HandlesPinned
  BY DEF Cached
<1>3. ASSUME NEW r \in Slot, r # s PROVE Pinned(r)'
  <2>1. t \notin Users(r) /\ t \notin Users(r)'
    BY SMT, <1>1, <1>3 DEF Users
  <2>2. Drops(r)
    BY <1>3, gcache_releaseEntries DEF Drops, Kept
  <2>3. QED
    BY <1>1, <1>2, <2>1, <2>2, UsersKept, PinnedKept DEF Moves
<1>4. Pinned(s)'
  <2>1. t \in Users(s) /\ t \notin Users(s)' /\ Users(s) \subseteq Thread /\ Users(s)' \subseteq Thread
    BY SMT, <1>1 DEF Users
  <2>2. \A u \in Thread : u # t => (u \in Users(s)' <=> u \in Users(s))
    BY <1>1 DEF Moves, Only, Users
  <2>3. Users(s)' = Users(s) \ {t}
    BY SMTT(30), <2>1, <2>2
  <2>4. Cardinality(Users(s)') = Cardinality(Users(s)) - 1
    <3>1. Cardinality(Users(s) \ {t}) = IF t \in Users(s) THEN Cardinality(Users(s)) - 1 ELSE Cardinality(Users(s))
      BY UsersFinite, FS_RemoveElement
    <3>2. QED
      BY <2>1, <2>3, <3>1
  <2>5. Pinned(s)
    BY <1>2, PinnedIs
  <2>6. CASE Kept(s) /\ entries'[s].ref_count = entries[s].ref_count - 1
    <3>1. ASSUME NEW u \in Users(s)'
          PROVE  entries'[s].valid /\ entries'[s].key = th'[u].key /\ entries'[s].version = th'[u].version
      <4>1. u \in Users(s) /\ th'[u] = th[u]
        BY <1>1, <2>1, <2>2 DEF Moves, Only
      <4>2. QED
        BY <2>5, <2>6, <4>1 DEF Kept, Pinned
    <3>2. QED
      BY <2>4, <2>5, <2>6, <3>1 DEF Pinned
  <2>7. CASE entries'[s] = Empty /\ entries[s].ref_count = 1
    <3>1. Cardinality(Users(s)') = 0
      BY SMTT(30), <2>4, <2>5, <2>7 DEF Pinned
    <3>2. QED
      BY <3>1, UsersFinite, FS_EmptySet, <2>7, EmptyIs DEF Pinned
  <2>8. QED
    BY <2>6, <2>7, gcache_releaseEntries
<1>5. QED
  BY <1>3, <1>4, PinnedNextIs

\* The end of a query keeps the rest.
LEMMA gcache_releaseCached ==
  ASSUME Cached, NEW t \in Thread, gcache_release(t)
  PROVE  Cached'
<1>1. Moves(t) /\ th[t].pc = "use" /\ th'[t].pc = "idle"
  BY gcache_releaseMoves DEF Cached
<1>2. Types /\ Slots /\ HandlesPinned /\ HostToldLive /\ Commits
  BY DEF Cached
<1>3. UNCHANGED <<data, generation, pend, sources>> /\ generation \in Nat /\ stats \in Counters
  BY <1>2 DEF gcache_release, Types
<1>4. generation' >= generation
  BY SMT, <1>3
<1>5. CASE th[t].slot = None
  <2>1. UNCHANGED <<entries, stats>>
    BY <1>5 DEF gcache_release
  <2>2. \A s \in Slot : Drops(s)
    BY <2>1 DEF Drops, Kept
  <2>3. Types'
    BY <1>1, <1>2, <1>3, <2>1, TypesKept DEF Moves, Types
  <2>4. Slots'
    BY <1>2, <1>4, <2>2, <2>3, FitDropped DEF Types, Slots
  <2>5. HostToldLive'
    BY <1>2, <2>1 DEF HostToldLive
  <2>6. ASSUME NEW s \in Slot PROVE Pinned(s)'
    <3>1. t \notin Users(s) /\ t \notin Users(s)'
      BY SMT, <1>1, <1>5, NoneApart DEF Users
    <3>2. QED
      BY <1>1, <1>2, <2>2, <3>1, UsersKept, PinnedKept DEF Moves
  <2>7. QED
    BY <1>2, <1>3, <2>3, <2>4, <2>5, <2>6, PinnedNextIs, CommitsKept DEF Cached
<1>6. CASE th[t].slot # None
  <2> DEFINE s == th[t].slot
  <2>1. s \in Slot
    BY <1>2, <1>6 DEF Types, Request
  <2> HIDE DEF s
  <2>2. th[t].slot = s
    BY DEF s
  <2>3. /\ entries' \in [Slot -> Entry]
        /\ entries[s].ref_count \in Nat /\ entries[s].ref_count # 0 /\ entries[s].valid
        /\ \A r \in Slot : r # s => entries'[r] = entries[r]
        /\ \/ Kept(s) /\ entries'[s].ref_count = entries[s].ref_count - 1 /\ UNCHANGED stats
           \/ entries'[s] = Empty /\ entries[s].ref_count = 1
              /\ Publish(entries', Fewer(stats.current_entries, {s}))
    BY <2>1, <2>2, gcache_releaseEntries
  <2>4. stats' \in Counters
    BY <1>3, <2>1, FewerType, <2>3, CountersType DEF Counters
  <2>5. Types'
    BY <1>1, <1>2, <1>3, <2>3, <2>4, TypesKept DEF Moves, Types
  <2>6. \A r \in Slot : (Kept(r) /\ (entries'[r].ref_count # 0 => entries[r].valid)) \/ entries'[r] = Empty
    BY <1>2, <2>3 DEF Kept, Slots, Fit
  <2>7. Slots'
    BY <1>2, <1>4, <2>5, <2>6, FitKept DEF Types, Slots
  <2>8. HostToldLive'
    <3>1. CASE Kept(s) /\ UNCHANGED stats
      BY <1>2, <2>3, <3>1, ToldStill DEF Kept
    <3>2. CASE entries'[s] = Empty /\ Publish(entries', Fewer(stats.current_entries, {s}))
      <4>1. ~entries'[s].valid
        BY <3>2, EmptyIs
      <4>2. {s} \in SUBSET Valid /\ Valid' = Valid \ {s}
        BY SMT, <2>1, <2>3, <4>1 DEF Valid
      <4>3. QED
        BY <1>2, <2>5, <3>2, <4>2, ToldOfLeft
    <3>3. QED
      BY <2>3, <3>1, <3>2
  <2>9. HandlesPinned'
    BY <2>1, <2>2, ReleasePinned
  <2>10. QED
    BY <1>2, <1>3, <2>5, <2>7, <2>8, <2>9, CommitsKept DEF Cached
<1>7. QED
  BY <1>5, <1>6

\* No slot: the expired entry is marked at most.
LEMMA NoSlotEntries ==
  ASSUME Cached, NEW t \in Thread, NoSlot(t)
  PROVE  /\ entries' \in [Slot -> Entry]
         /\ \A r \in Slot : Kept(r) /\ entries'[r].ref_count = entries[r].ref_count
<1>1. entries \in [Slot -> Entry]
  BY DEF Cached, Types
<1>2. CASE UNCHANGED entries
  BY <1>1, <1>2 DEF Kept
<1>3. ASSUME NEW s \in Slot, entries[s].valid, entries' = [entries EXCEPT ![s].evicting = TRUE]
      PROVE  /\ entries' \in [Slot -> Entry]
             /\ \A r \in Slot : Kept(r) /\ entries'[r].ref_count = entries[r].ref_count
  <2> DEFINE f == [entries[s] EXCEPT !.evicting = TRUE]
  <2>1. entries[s] \in Entry
    BY <1>1
  <2>2. /\ f \in Entry /\ f.evicting = TRUE
        /\ f.valid = entries[s].valid /\ f.loading = entries[s].loading /\ f.key = entries[s].key
        /\ f.generation = entries[s].generation /\ f.version = entries[s].version
        /\ f.loader = entries[s].loader /\ f.ref_count = entries[s].ref_count
        /\ f.invalidated = entries[s].invalidated
    BY <2>1 DEF Entry
  <2>3. entries' = [entries EXCEPT ![s] = f]
    BY <1>3
  <2> HIDE DEF f
  <2>4. entries' \in [Slot -> Entry] /\ entries'[s] = f /\ \A r \in Slot : r # s => entries'[r] = entries[r]
    BY <1>1, <2>2, <2>3
  <2>5. Kept(s) /\ entries'[s].ref_count = entries[s].ref_count
    BY <1>3, <2>2, <2>4 DEF Kept
  <2>6. QED
    BY <2>4, <2>5 DEF Kept
<1>4. QED
  BY <1>2, <1>3 DEF NoSlot, find_entry_locked

\* It costs no handle.
LEMMA NoSlotCached ==
  ASSUME Cached, NEW t \in Thread, NoSlot(t)
  PROVE  Cached'
<1>1. Types /\ Slots /\ HostToldLive
  BY DEF Cached
<1>2. Moves(t) /\ th[t].pc # "use" /\ th'[t].pc # "use"
  BY ZenonT(30), <1>1, NoSlotMoves
<1>3. UNCHANGED <<data, generation, pend, sources, stats>>
  BY DEF NoSlot, Looking
<1>4. generation \in Nat /\ generation' = generation
  BY <1>1, <1>3 DEF Types
<1>5. generation' \in Nat /\ generation' >= generation
  BY SMT, <1>4
<1>6. entries' \in [Slot -> Entry] /\ \A r \in Slot : Kept(r) /\ entries'[r].ref_count = entries[r].ref_count
  BY NoSlotEntries
<1>7. \A r \in Slot : Drops(r)
  BY <1>6 DEF Drops
<1>8. Slots'
  BY <1>1, <1>4, <1>5, <1>7, FitDropped DEF Types, Slots
<1>9. HostToldLive'
  BY <1>1, <1>3, <1>6, ToldStill DEF Kept
<1>10. QED
  BY <1>1, <1>2, <1>3, <1>5, <1>6, <1>7, <1>8, <1>9, StepCached DEF Types

\* A put that declines: unused entries of its graph, and those it made room of, have gone.
LEMMA PutDeclinedEntries ==
  ASSUME Cached, NEW t \in Thread, PutDeclined(t)
  PROVE  /\ entries' \in [Slot -> Entry]
         /\ \E D \in SUBSET Valid :
               /\ \A r \in D : entries[r].ref_count = 0 /\ entries'[r] = Empty
               /\ \A r \in Slot \ D : entries'[r] = entries[r]
               /\ (D = {} /\ UNCHANGED stats) \/ Publish(entries', Fewer(stats.current_entries, D))
<1>1. entries \in [Slot -> Entry]
  BY DEF Cached, Types
<1>2. CASE UNCHANGED <<entries, stats>>
  BY <1>1, <1>2
<1>3. ASSUME NEW s \in PutSlot(t), NEW V \in {{}, Victims(s)}, NEW D,
             D = V \cup {i \in {s} : entries[i].valid},
             Publish([i \in Slot |-> IF i \in D THEN Empty ELSE entries[i]], Fewer(stats.current_entries, D))
      PROVE  /\ entries' \in [Slot -> Entry]
             /\ \E E \in SUBSET Valid :
                   /\ \A r \in E : entries[r].ref_count = 0 /\ entries'[r] = Empty
                   /\ \A r \in Slot \ E : entries'[r] = entries[r]
                   /\ (E = {} /\ UNCHANGED stats) \/ Publish(entries', Fewer(stats.current_entries, E))
  BY <1>3, <1>1, EntryTypes DEF Valid, PutSlot, find_free_slot_locked, find_entry_locked, Victims, Publish
<1>4. QED
  BY <1>2, <1>3 DEF PutDeclined

\* It costs no handle either.
LEMMA PutDeclinedCached ==
  ASSUME Cached, NEW t \in Thread, PutDeclined(t)
  PROVE  Cached'
<1>1. Types /\ Slots /\ HostToldLive
  BY DEF Cached
<1>2. Moves(t) /\ th[t].pc # "use" /\ th'[t].pc # "use"
  BY SMT, <1>1, PutDeclinedMoves
<1>3. UNCHANGED <<data, generation, pend, sources>>
  BY DEF PutDeclined, Putting
<1>4. generation \in Nat /\ generation' = generation /\ stats \in Counters
  BY <1>1, <1>3 DEF Types
<1>5. generation' \in Nat /\ generation' >= generation
  BY SMT, <1>4
<1>6. PICK D \in SUBSET Valid :
         /\ \A r \in D : entries[r].ref_count = 0 /\ entries'[r] = Empty
         /\ \A r \in Slot \ D : entries'[r] = entries[r]
         /\ (D = {} /\ UNCHANGED stats) \/ Publish(entries', Fewer(stats.current_entries, D))
  BY PutDeclinedEntries
<1>7. entries' \in [Slot -> Entry]
  BY PutDeclinedEntries
<1>8. \A r \in Slot : Drops(r)
  BY <1>6 DEF Drops, Kept
<1>9. Slots'
  BY <1>1, <1>4, <1>5, <1>8, FitDropped DEF Types, Slots
<1>10. stats' \in Counters
  BY <1>6, <1>4, FewerType, CountersType DEF Counters, Valid
<1>11. Types' => HostToldLive'
  <2>1. CASE D = {} /\ UNCHANGED stats
    BY <1>1, <1>6, <2>1, ToldStill
  <2>2. CASE Publish(entries', Fewer(stats.current_entries, D))
    <3>1. \A r \in Slot : entries'[r].valid <=> entries[r].valid /\ r \notin D
      BY <1>6, EmptyIs
    <3>2. Valid' = Valid \ D
      BY SMT, <3>1 DEF Valid
    <3>3. QED
      BY <1>1, <2>2, <3>2, ToldOfLeft
  <2>3. QED
    BY <1>6, <2>1, <2>2
<1>12. QED
  BY <1>1, <1>2, <1>3, <1>5, <1>7, <1>8, <1>9, <1>10, <1>11, StepCached DEF Types

\* gcache_abort_load empties the reservations of the graph.
LEMMA gcache_abort_loadEntries ==
  ASSUME Cached, NEW t \in Thread, gcache_abort_load(t)
  PROVE  /\ entries' \in [Slot -> Entry]
         /\ \A r \in Slot :
               IF entries[r].loading /\ entries[r].key = th[t].key THEN entries'[r] = Empty
               ELSE entries'[r] = entries[r]
         /\ Publish(entries', stats.current_entries)
<1> DEFINE own == {s \in find_entry_locked(th[t].key) : entries[s].loading /\ ~entries[s].valid}
           es == [s \in Slot |-> IF s \in own THEN Empty ELSE entries[s]]
<1>1. Publish(es, stats.current_entries)
  BY DEF gcache_abort_load
<1>2. \A r \in Slot : r \in own <=> entries[r].loading /\ entries[r].key = th[t].key
  BY DEF find_entry_locked, Cached, Slots, Fit
<1> HIDE DEF own
<1>3. entries' = es
  BY <1>1 DEF Publish
<1>4. \A r \in Slot : entries'[r] = IF r \in own THEN Empty ELSE entries[r]
  BY <1>3
<1>5. QED
  BY <1>3, EntryTypes, <1>1, <1>2, <1>4 DEF Cached, Types

\* A reservation has no handle, so none is lost.
LEMMA gcache_abort_loadCached ==
  ASSUME Cached, NEW t \in Thread, gcache_abort_load(t)
  PROVE  Cached'
<1>1. Types /\ Slots /\ HostToldLive
  BY DEF Cached
<1>2. Moves(t) /\ th[t].pc # "use" /\ (th'[t].pc # "use" \/ th'[t].slot = None)
  BY SMT, <1>1, gcache_abort_loadMoves
<1>3. UNCHANGED <<data, generation, pend, sources>>
  BY DEF gcache_abort_load
<1>4. generation \in Nat /\ generation' = generation /\ stats \in Counters
  BY <1>1, <1>3 DEF Types
<1>5. generation' \in Nat /\ generation' >= generation
  BY SMT, <1>4
<1>6. /\ entries' \in [Slot -> Entry]
      /\ \A r \in Slot :
               IF entries[r].loading /\ entries[r].key = th[t].key THEN entries'[r] = Empty
               ELSE entries'[r] = entries[r]
      /\ Publish(entries', stats.current_entries)
  BY gcache_abort_loadEntries
<1>7. \A r \in Slot : Drops(r)
  BY <1>1, <1>6 DEF Drops, Kept, Slots, Fit
<1>8. Slots'
  BY <1>1, <1>4, <1>5, <1>7, FitDropped DEF Types, Slots
<1>9. stats' \in Counters
  BY <1>4, <1>6, CountersType DEF Counters
<1>10. Types' => HostToldLive'
  <2>1. Valid' = Valid
    BY <1>1, <1>6, EmptyIs DEF Valid, Slots, Fit, Types, Entry
  <2>2. stats'.current_entries = Cardinality(Valid') /\ stats'.live = gcache_update_live_locked(entries', Cardinality(Valid'))
    BY <1>1, <2>1, <1>4, <1>6 DEF Publish, Counters, HostToldLive, Valid
  <2>3. QED
    BY <2>2, ToldNow
<1>11. QED
  BY <1>1, <1>2, <1>3, <1>5, <1>6, <1>7, <1>8, <1>9, <1>10, StepCached DEF Types

\* A reservation, field by field.
Reserved(f, t, g) ==
    /\ f.valid = FALSE /\ f.loading = TRUE /\ f.evicting = FALSE /\ f.invalidated = FALSE
    /\ f.key = g /\ f.generation = generation /\ f.ref_count = 0 /\ f.loader = t

LEMMA ReservationIs ==
  ASSUME NEW t \in Thread, NEW g \in Graph, generation \in Nat
  PROVE  Reservation(t, g) \in Entry /\ Reserved(Reservation(t, g), t, g)
<1>1. Reserved(Reservation(t, g), t, g)
  BY SMT DEF Reservation, Empty, Entry, Reserved
<1>2. QED
  BY <1>1 DEF Reservation, Empty, Entry

\* Reserve takes a slot nobody uses, and retires the expired entry.
LEMMA ReserveEntries ==
  ASSUME Cached, NEW t \in Thread, NEW s \in Slot, NEW old \in Slot \cup {None}, Reserve(t, s, old)
  PROVE  /\ entries' \in [Slot -> Entry]
         /\ entries[s].ref_count = 0 /\ ~entries[s].loading
         /\ entries'[s] = Reservation(t, th[t].key)
         /\ \A r \in Slot : r # s /\ r # old => entries'[r] = entries[r]
         /\ old = None => find_entry_locked(th[t].key) = {}
         /\ old # None => /\ old \in find_entry_locked(th[t].key) /\ entries[old].valid
                          /\ old # s => Drops(old) /\ entries'[old].evicting /\ entries'[old].loading = FALSE
         /\ Publish(entries', Fewer(stats.current_entries, Left(entries')))
<1> DEFINE es == [i \in Slot |-> IF i = old THEN Retired(entries[i]) ELSE entries[i]]
           new == [es EXCEPT ![s] = Reservation(t, th[t].key)]
<1>1. entries \in [Slot -> Entry] /\ generation \in Nat /\ th \in [Thread -> Request] /\ KeyFits(t)
  BY DEF Cached, Types
<1>2. th[t].key \in Graph
  <2>1. th[t].pc \in {"look", "waiting"}
    BY DEF Reserve, Looking
  <2>2. QED
    BY SMT, <1>1, <2>1 DEF KeyFits
<1>3. /\ IF old = None THEN find_entry_locked(th[t].key) = {} ELSE old \in find_entry_locked(th[t].key) /\ entries[old].valid
      /\ IF old # None /\ es[old] = Empty THEN s = old ELSE s \in find_free_slot_locked(es)
      /\ Publish(new, Fewer(stats.current_entries, Left(new)))
  BY DEF Reserve
<1>4. es \in [Slot -> Entry]
  BY <1>1, EntryTypes
<1>5. \A i \in Slot : es[i] = IF i = old THEN Retired(entries[i]) ELSE entries[i]
  OBVIOUS
<1>6. entries' = new
  BY <1>3 DEF Publish
<1> HIDE DEF es
<1>7. /\ entries' \in [Slot -> Entry] /\ entries'[s] = Reservation(t, th[t].key)
      /\ \A r \in Slot : r # s => entries'[r] = es[r]
  BY <1>1, <1>2, ReservationIs, <1>4, <1>6
<1>8. CASE old = None
  BY <1>3, <1>8, NoneApart, <1>5, <1>6, <1>7 DEF find_free_slot_locked
<1>9. CASE old # None
  <2>1. old \in Slot /\ entries[old] \in Entry /\ entries[old].valid /\ ~entries[old].loading
    BY <1>1, <1>3, <1>9 DEF Cached, Slots, Fit
  <2>2. CASE entries[old].ref_count = 0
    <3>1. s = old
      BY <1>5, <2>1, <2>2, RetiredIs, <1>3, <1>9
    <3>2. QED
      BY <1>3, <1>5, <1>6, <1>7, <1>9, <2>1, <2>2, <3>1
  <2>3. CASE entries[old].ref_count # 0
    <3>1. es[old] = Retired(entries[old])
      BY <1>5, <2>1
    <3>2. /\ es[old].valid = entries[old].valid /\ es[old].loading = entries[old].loading
          /\ es[old].key = entries[old].key /\ es[old].generation = entries[old].generation
          /\ es[old].version = entries[old].version /\ es[old].loader = entries[old].loader
          /\ es[old].ref_count = entries[old].ref_count
          /\ es[old].invalidated = entries[old].invalidated /\ es[old].evicting = TRUE
      BY <2>1, <2>3, <3>1, RetiredIs
    <3>3. s # old /\ entries[s].ref_count = 0 /\ ~entries[s].loading
      BY <2>1, <3>2, EmptyIs, <1>3, <1>5, <2>3 DEF find_free_slot_locked
    <3>4. Drops(old) /\ entries'[old].evicting /\ entries'[old].loading = FALSE
      BY <2>1, <1>7, <3>3, <3>2 DEF Drops, Kept, Entry
    <3>5. QED
      BY <1>3, <1>5, <1>6, <1>7, <1>9, <3>3, <3>4
  <2>4. QED
    BY <2>2, <2>3
<1>10. QED
  BY <1>8, <1>9

\* The slot had no handle, and the count is that of the entries left.
LEMMA ReserveCached ==
  ASSUME Cached, NEW t \in Thread, NEW s \in Slot, NEW old \in Slot \cup {None}, Reserve(t, s, old)
  PROVE  Cached'
<1>1. Types /\ Slots /\ HostToldLive
  BY DEF Cached
<1>2. Moves(t) /\ th[t].pc # "use" /\ th'[t].pc # "use" /\ th[t].pc # "idle"
  BY SMT, <1>1, ReserveMoves
<1>3. UNCHANGED <<data, generation, pend, sources>>
  BY DEF Reserve, Looking
<1>4. generation \in Nat /\ generation' = generation /\ stats \in Counters /\ th[t].key \in Graph
  BY <1>1, <1>2, <1>3 DEF Types, KeyFits
<1>5. generation' \in Nat /\ generation' >= generation /\ generation <= generation'
  BY SMT, <1>4
<1>6. /\ entries' \in [Slot -> Entry]
      /\ entries[s].ref_count = 0 /\ entries'[s] = Reservation(t, th[t].key)
      /\ Publish(entries', Fewer(stats.current_entries, Left(entries')))
  BY ReserveEntries
<1>7. \A r \in Slot : r # s => Drops(r)
  <2>1. \A r \in Slot : r # s /\ r # old => entries'[r] = entries[r]
    BY ReserveEntries
  <2>2. \A r \in Slot : r # s /\ r # old => Drops(r)
    BY <2>1 DEF Drops, Kept
  <2>3. old \in Slot /\ old # s => Drops(old)
    BY NoneApart, ReserveEntries
  <2>4. QED
    BY <2>2, <2>3
<1>8. /\ entries'[s].valid = FALSE /\ entries'[s].loading = TRUE /\ entries'[s].evicting = FALSE
      /\ entries'[s].key = th[t].key /\ entries'[s].generation = generation /\ entries'[s].ref_count = 0
  <2> DEFINE f == Reservation(t, th[t].key)
  <2>1. /\ f.valid = FALSE /\ f.loading = TRUE /\ f.evicting = FALSE
        /\ f.key = th[t].key /\ f.generation = generation /\ f.ref_count = 0
    <3>1. Reserved(f, t, th[t].key)
      BY <1>4, ReservationIs
    <3>2. QED
      BY <3>1 DEF Reserved
  <2> HIDE DEF f
  <2>2. entries'[s] = f
    BY <1>6 DEF f
  <2>3. QED
    BY SMT, <2>1, <2>2
<1>9. Slots'
  BY <1>1, <1>4, <1>5, <1>7, FitDropped, <1>8 DEF Types, Slots, Fit
<1>10. stats' \in Counters
  BY <1>4, FewerType, <1>6, CountersType DEF Left, Counters
<1>11. Types' => HostToldLive'
  <2>1. \A r \in Slot : entries'[r].valid => entries[r].valid
    BY <1>7, <1>8, EmptyIs DEF Drops, Kept
  <2>2. Left(entries') \in SUBSET Valid /\ Valid' = Valid \ Left(entries')
    BY SMT, <2>1 DEF Left, Valid
  <2>3. QED
    BY <1>1, <1>6, <2>2, ToldOfLeft
<1>12. QED
  BY <1>1, <1>2, <1>3, <1>5, <1>6, <1>7, <1>8, <1>9, <1>10, <1>11, StepCached DEF Types

\* What a put by t leaves in the slot of e, field by field.
IsPut(f, t, e) ==
    /\ f.valid = TRUE /\ f.loading = FALSE /\ f.key = th[t].key /\ f.ref_count = 1
    /\ f.version = th[t].version
    /\ f.generation = IF e.loading THEN e.generation ELSE generation
    /\ f.evicting = (e.loading /\ e.invalidated)
    /\ f.loader = IF e.loading /\ e.loader = t THEN "own" ELSE None

LEMMA PutEntryIs ==
  ASSUME NEW e \in Entry, NEW t \in Thread, th \in [Thread -> Request], th[t].key \in Graph, generation \in Nat,
         NEW f, f = PutEntry(t, e)
  PROVE  f \in Entry /\ IsPut(f, t, e)
<1> DEFINE gen == IF e.loading THEN e.generation ELSE generation
           out == e.loading /\ e.invalidated
           by == IF e.loading /\ e.loader = t THEN "own" ELSE None
<1>1. f = [Empty EXCEPT !.valid = TRUE, !.key = th[t].key, !.ref_count = 1, !.version = th[t].version,
                        !.generation = gen, !.invalidated = out, !.evicting = out, !.loader = by]
  BY DEF PutEntry, PutBy
<1>2. gen \in Nat /\ out \in BOOLEAN /\ by \in Thread \cup {None, "own"}
  BY DEF Entry
<1>3. th[t].version \in Nat
  BY DEF Request
<1> HIDE DEF gen, out, by
<1> DEFINE x == [valid |-> TRUE, loading |-> FALSE, evicting |-> out, invalidated |-> out,
                 key |-> th[t].key, generation |-> gen, ref_count |-> 1, version |-> th[t].version, loader |-> by]
<1>4. /\ x \in Entry
      /\ x.valid = TRUE /\ x.loading = FALSE /\ x.key = th[t].key /\ x.ref_count = 1
      /\ x.version = th[t].version /\ x.generation = gen /\ x.evicting = out /\ x.loader = by
  <2>1. th[t].key \in Graph \cup {None} /\ 1 \in Nat
    BY SMT
  <2>2. QED
    BY <1>2, <1>3, <2>1 DEF Entry
<1>5. f = x
  BY <1>1 DEF Empty
<1> HIDE DEF x
<1>6. QED
  BY <1>4, <1>5 DEF IsPut, gen, out, by

\* gcache_put takes the graph's slot, or a free one, in which there is no handle.
LEMMA gcache_putEntries ==
  ASSUME Cached, NEW t \in Thread, NEW s \in Slot, NEW V \in SUBSET Slot, gcache_put(t, s, V)
  PROVE  /\ entries' \in [Slot -> Entry]
         /\ entries[s].ref_count = 0
         /\ entries'[s] = PutEntry(t, entries[s])
         /\ \A r \in Slot : r # s => entries'[r] = entries[r]
                                     \/ (entries[r].valid /\ entries[r].ref_count = 0 /\ entries'[r] = Empty)
         /\ Publish(entries', Fewer(stats.current_entries, Left(entries') \cup {i \in {s} : entries[i].valid}) + 1)
         /\ IF find_entry_locked(th[t].key) = {} THEN ~entries[s].loading ELSE s \in find_entry_locked(th[t].key)
<1> DEFINE es == [i \in Slot |-> IF i = s THEN PutEntry(t, entries[s]) ELSE IF i \in V THEN Empty ELSE entries[i]]
           gone == V \cup {i \in {s} : entries[i].valid}
<1>1. entries \in [Slot -> Entry] /\ generation \in Nat /\ th \in [Thread -> Request] /\ KeyFits(t)
  BY DEF Cached, Types
<1>2. th[t].key \in Graph
  <2>1. th[t].pc = "put"
    BY DEF gcache_put, Putting
  <2>2. QED
    BY SMT, <1>1, <2>1 DEF KeyFits
<1>3. s \in PutSlot(t) /\ V \subseteq Victims(s) /\ Publish(es, Fewer(stats.current_entries, gone) + 1)
  BY DEF gcache_put
<1>4. PutEntry(t, entries[s]) \in Entry /\ PutEntry(t, entries[s]).valid = TRUE
  BY <1>1, <1>2, PutEntryIs DEF IsPut
<1>5. entries' = es
  BY <1>3 DEF Publish
<1>6. es \in [Slot -> Entry]
  BY <1>1, <1>4, EntryTypes
<1>7. \A r \in Slot : es[r] = IF r = s THEN PutEntry(t, entries[s]) ELSE IF r \in V THEN Empty ELSE entries[r]
  OBVIOUS
<1>8. \A v \in V : v \in Slot /\ v # s /\ entries[v].valid /\ entries[v].ref_count = 0
  BY <1>3 DEF Victims
<1> HIDE DEF es
<1>9. Left(entries') = V
  <2>1. \A r \in Slot : (entries[r].valid /\ ~entries'[r].valid) <=> r \in V
    BY <1>4, <1>5, <1>7, <1>8, EmptyIs
  <2>2. QED
    BY SMT, <1>8, <2>1 DEF Left
<1>10. QED
  BY <1>3, <1>5, <1>6, <1>7, <1>8, <1>9 DEF find_free_slot_locked, Cached, Slots, Fit, PutSlot

\* The entry gcache_put leaves.
LEMMA gcache_putEntry ==
  ASSUME Cached, NEW t \in Thread, NEW s \in Slot, NEW V \in SUBSET Slot, gcache_put(t, s, V)
  PROVE  IsPut(entries'[s], t, entries[s])
<1>1. /\ th[t].pc = "put" /\ entries[s] \in Entry /\ th \in [Thread -> Request]
      /\ generation \in Nat /\ KeyFits(t)
  BY DEF gcache_put, Putting, Types, Cached
<1>2. th[t].key \in Graph
  BY SMT, <1>1 DEF KeyFits
<1>3. QED
  BY gcache_putEntries, <1>1, <1>2, PutEntryIs

\* The count after a put.
LEMMA gcache_putTold ==
  ASSUME Cached, NEW t \in Thread, NEW s \in Slot, NEW V \in SUBSET Slot, gcache_put(t, s, V)
  PROVE  stats' \in Counters /\ (Types' => HostToldLive')
<1> DEFINE gone == Left(entries') \cup {i \in {s} : entries[i].valid}
           n == Fewer(stats.current_entries, gone) + 1
<1>1. Types /\ HostToldLive /\ stats \in Counters /\ stats.current_entries \in Nat
  BY DEF Cached, Types, Counters
<1>2. Publish(entries', n)
  BY gcache_putEntries
<1>3. gone \in SUBSET Valid /\ gone \in SUBSET Slot
  BY SMT DEF Left, Valid
<1>4. n \in Nat
  <2>1. Fewer(stats.current_entries, gone) \in Nat
    BY <1>1, <1>3, FewerType
  <2>2. QED
    BY SMT, <2>1
<1>5. entries'[s].valid
  BY gcache_putEntry DEF IsPut
<1>6. \A r \in Slot : r # s /\ entries'[r].valid => entries[r].valid
  BY gcache_putEntries, EmptyIs
<1>7. Valid' = (Valid \ gone) \cup {s} /\ s \notin Valid \ gone
  BY SMT, <1>5, <1>6 DEF Left, Valid
<1>8. n = Cardinality(Valid')
  <2>1. IsFiniteSet(Valid \ gone)
    <3>1. Valid \ gone \in SUBSET Valid
      BY SMT
    <3>2. QED
      BY <3>1, ValidFinite, FS_Subset
  <2>2. Cardinality((Valid \ gone) \cup {s}) = Cardinality(Valid \ gone) + 1
    BY <1>7, <2>1, FS_AddElement
  <2>3. QED
    BY <1>1, <1>3, ValidFinite, FewerIs, <1>7, <2>2 DEF HostToldLive, Valid
<1> HIDE DEF n, gone
<1>9. QED
  BY <1>1, <1>2, <1>4, CountersType, <1>8, ToldNow DEF Publish, Counters

\* The one handle on the new entry is the loader's.
LEMMA gcache_putCached ==
  ASSUME Cached, NEW t \in Thread, NEW s \in Slot, NEW V \in SUBSET Slot, gcache_put(t, s, V)
  PROVE  Cached'
<1>1. Types /\ Slots /\ HostToldLive /\ HandlesPinned /\ Commits
  BY DEF Cached
<1>2. /\ Moves(t) /\ th[t].pc = "put" /\ th'[t].pc = "use" /\ th'[t].slot = s /\ SameRequest(t)
  BY <1>1, gcache_putMoves
<1>3. UNCHANGED <<data, generation, pend, sources>>
  BY DEF gcache_put, Putting
<1>4. /\ generation \in Nat /\ generation' = generation /\ entries[s] \in Entry
      /\ entries[s].generation \in Nat /\ th \in [Thread -> Request]
  BY <1>1, <1>3 DEF Types, Entry
<1>5. generation' \in Nat /\ generation' >= generation /\ generation <= generation'
  BY SMT, <1>4
<1>6. th[t].key \in Graph
  <2>1. th[t].pc # "idle" /\ KeyFits(t)
    BY SMT, <1>1, <1>2 DEF Types
  <2>2. QED
    BY <2>1 DEF KeyFits
<1>7. /\ entries' \in [Slot -> Entry]
      /\ entries[s].ref_count = 0 /\ entries'[s] = PutEntry(t, entries[s])
      /\ \A r \in Slot : r # s => entries'[r] = entries[r]
                                     \/ (entries[r].valid /\ entries[r].ref_count = 0 /\ entries'[r] = Empty)
  BY gcache_putEntries
<1>8. stats' \in Counters /\ (Types' => HostToldLive')
  BY gcache_putTold
<1>9. Types'
  BY <1>1, <1>2, <1>3, <1>5, <1>7, <1>8, TypesKept DEF Moves, Types
<1> DEFINE f == entries'[s]
<1>10. /\ f.valid = TRUE /\ f.loading = FALSE /\ f.key = th[t].key /\ f.ref_count = 1
       /\ f.version = th[t].version
       /\ f.generation = IF entries[s].loading THEN entries[s].generation ELSE generation
  BY gcache_putEntry DEF IsPut
<1> HIDE DEF f
<1>11. \A r \in Slot : r # s => Drops(r)
  BY <1>7 DEF Drops, Kept
<1>12. Slots'
  BY <1>1, <1>4, <1>5, <1>10, <1>6, <1>11, FitDropped DEF Types, Slots, Fit, f
<1>13. ASSUME NEW r \in Slot, r # s PROVE Pinned(r)'
  <2>1. t \notin Users(r) /\ t \notin Users(r)'
    BY SMT, <1>2, <1>13 DEF Users
  <2>2. QED
    BY <1>1, <1>2, <1>11, <1>13, <2>1, UsersKept, PinnedKept DEF Moves
<1>14. Pinned(s)'
  <2>1. Users(s) = {}
    BY <1>1, <1>7, Unused
  <2>2. \A u \in Thread : u # t => u \notin Users(s)'
    BY <1>2, <2>1 DEF Moves, Only, Users
  <2>3. Users(s)' = {t}
    BY SMT, <1>2, <2>2 DEF Users
  <2>4. QED
    BY <1>2, <1>10, <2>3, FS_Singleton DEF Pinned, f, SameRequest
<1>15. HandlesPinned'
  BY <1>13, <1>14, PinnedNextIs
<1>16. QED
  BY <1>1, <1>3, <1>8, <1>9, <1>12, <1>15, CommitsKept DEF Cached

\* An empty cache.
LEMMA InitCached == Init => Cached
<1> SUFFICES ASSUME Init PROVE Cached
  BY SMT
<1>1. /\ entries = [s \in Slot |-> Empty] /\ th = [t \in Thread |-> Idle]
      /\ rows = [g \in Graph |-> 0] /\ committed = [g \in Graph |-> 0] /\ committing = {}
      /\ generation = 0 /\ pend = [ids |-> <<>>, overflow |-> FALSE]
      /\ stats = [current_entries |-> 0, reaped |-> 0, live |-> FALSE] /\ sources = Registered
  BY DEF Init
<1>2. Types
  <2>1. /\ rows \in [Graph -> Nat] /\ committed \in [Graph -> Nat] /\ generation \in Nat
        /\ pend \in [ids : Seq(Graph), overflow : BOOLEAN] /\ stats \in Counters
    BY SMT, <1>1 DEF Counters
  <2>2. QED
    BY <1>1, Bounds, IdleIs, EntryTypes, <2>1 DEF Types, KeyFits
<1>3. Slots
  <2>1. 0 <= generation
    BY SMT, <1>1
  <2>2. QED
    BY <1>1, <2>1, EmptyIs DEF Slots, Fit
<1>4. Commits
  BY SMT, <1>1 DEF Commits
<1>5. HandlesPinned
  <2>1. ASSUME NEW s \in Slot PROVE Pinned(s)
    <3>1. Users(s) = {}
      BY SMT, <1>1 DEF Users, Idle
    <3>2. QED
      BY <1>1, <3>1, EmptyIs, FS_EmptySet DEF Pinned
  <2>2. QED
    BY <2>1, PinnedIs
<1>6. QED
  BY <1>1, EmptyIs, FS_EmptySet, <1>2, <1>3, <1>4, <1>5 DEF Cached, HostToldLive

\* Stuttering.
LEMMA StutterCached == Cached /\ UNCHANGED vars => Cached'
<1> SUFFICES ASSUME Cached, UNCHANGED vars PROVE Cached'
  BY SMT
<1>1. UNCHANGED <<entries, th, rows, committed, committing, generation, pend, stats, sources>>
  BY DEF vars, cache, data
<1>2. HandlesPinned' /\ HostToldLive'
  BY ZenonT(60), <1>1 DEF Cached, HandlesPinned, HostToldLive
<1>3. QED
  BY <1>1, <1>2 DEF Cached, Types, KeyFits, Slots, Fit, Commits

\* A step of Next, without the commits.
ThreadStep(t) ==
    \/ t \in Query /\ QueryStep(t)
    \/ t \in Installer /\ InstallerStep(t)
    \/ LoaderStep(t)

LEMMA NextIs ==
  ASSUME Next
  PROVE  CommitStep \/ \E t \in Thread : ThreadStep(t)
BY DEF Next, ThreadStep, Thread

\* A thread's step.
LEMMA ThreadCached ==
  ASSUME Cached, NEW t \in Thread, ThreadStep(t)
  PROVE  Cached'
<1>1. CASE t \in Query /\ QueryStep(t)
  BY <1>1, DrainsCached, QuietsCached, HitCached, ReserveCached, NoSlotCached, gcache_abort_loadCached DEF QueryStep
<1>2. CASE t \in Installer /\ InstallerStep(t)
  BY <1>2, DrainsCached, QuietsCached DEF InstallerStep
<1>3. CASE LoaderStep(t)
  BY <1>3, DrainsCached, QuietsCached, gcache_putCached, PutDeclinedCached, gcache_releaseCached DEF LoaderStep
<1>4. QED
  BY <1>1, <1>2, <1>3 DEF ThreadStep

LEMMA NextCached == Cached /\ [Next]_vars => Cached'
<1> SUFFICES ASSUME Cached, [Next]_vars PROVE Cached'
  BY SMT
<1>1. CASE CommitStep
  BY <1>1, lt_transactCached, vgraph_commit_notifyCached DEF CommitStep
<1>2. QED
  BY <1>1, NextIs, ThreadCached, StutterCached

\* The first stage.
LEMMA SpecCached == Spec => []Cached
BY InitCached, NextCached, PTL DEF Spec

-----------------------------------------------------------------------------
(* The bounds *)

\* What bounds the versions, the list of deferred invalidations and the waits of a lookup.
Bounded ==
    /\ \A g \in Graph : rows[g] <= MaxCommits
    /\ \A C \in committing : C \subseteq Graph \X (1 .. MaxCommits)
    /\ stats.reaped <= generation
    /\ Len(pend.ids) <= PendingMax
    /\ mutex \in Thread \cup {None}
    /\ \A t \in Thread : th[t].waits <= MaxWaits

\* A thread's step starts the count of its waits again, or leaves it.
LEMMA NoWait ==
  ASSUME Types, NEW t \in Thread, NEW p, NEW s, NEW v,
         \/ th' = [th EXCEPT ![t] = Idle]
         \/ th' = [th EXCEPT ![t] = [Idle EXCEPT !.pc = p, !.key = s, !.need = v]]
         \/ th' = [th EXCEPT ![t] = [Idle EXCEPT !.pc = p, !.key = s]]
         \/ th' = [th EXCEPT ![t].pc = p]
         \/ th' = [th EXCEPT ![t].pc = p, ![t].slot = s]
         \/ th' = [th EXCEPT ![t].pc = p, ![t].slot = s, ![t].version = v]
         \/ th' = [th EXCEPT ![t].pc = p, ![t].version = v]
  PROVE  Only(t) /\ th'[t].waits \in {0, th[t].waits}
<1>1. th \in [Thread -> Request] /\ th[t] \in Request
  BY DEF Types
<1>2. /\ Idle.waits = 0
      /\ [Idle EXCEPT !.pc = p, !.key = s, !.need = v].waits = 0
      /\ [Idle EXCEPT !.pc = p, !.key = s].waits = 0
  BY SMT DEF Idle
<1>3. /\ [th[t] EXCEPT !.pc = p].waits = th[t].waits
      /\ [th[t] EXCEPT !.pc = p, !.slot = s].waits = th[t].waits
      /\ [th[t] EXCEPT !.pc = p, !.slot = s, !.version = v].waits = th[t].waits
      /\ [th[t] EXCEPT !.pc = p, !.version = v].waits = th[t].waits
  BY SMT, <1>1 DEF Request
<1>4. QED
  BY <1>1, <1>2, <1>3 DEF Only

\* A lookup waits at most MaxWaits times.
LEMMA ThreadWaits ==
  ASSUME Types, NEW t \in Thread, ThreadStep(t), th[t].waits <= MaxWaits
  PROVE  Only(t) /\ th'[t].waits <= MaxWaits
<1>1. th[t] \in Request /\ th[t].waits \in Nat /\ MaxWaits \in Nat
  BY Bounds DEF Types, Request
<1>2. 0 <= MaxWaits
  BY SMT, <1>1
<1>3. ASSUME Only(t) /\ th'[t].waits \in {0, th[t].waits} PROVE Only(t) /\ th'[t].waits <= MaxWaits
  BY <1>2, <1>3
<1>4. CASE t \in Query /\ QueryStep(t)
  <2>1. ASSUME NEW g \in Graph, EnterLookup(t, g) PROVE Only(t) /\ th'[t].waits <= MaxWaits
    BY <2>1, <1>3, NoWait DEF EnterLookup
  <2>2. ASSUME NEW s \in Slot, Hit(t, s) PROVE Only(t) /\ th'[t].waits <= MaxWaits
    BY <2>2, <1>3, NoWait DEF Hit
  <2>3. CASE WaitForLoader(t)
    <3>1. CASE th[t].waits < MaxWaits /\ th' = [th EXCEPT ![t].pc = "waiting", ![t].waits = @ + 1]
      <4>1. Only(t) /\ th'[t] = [th[t] EXCEPT !.pc = "waiting", !.waits = @ + 1]
        BY <3>1 DEF Only, Types
      <4>2. th'[t].waits = th[t].waits + 1
        BY SMT, <1>1, <4>1 DEF Request
      <4>3. QED
        BY SMTT(30), <1>1, <3>1, <4>1, <4>2
    <3>2. CASE th' = [th EXCEPT ![t].pc = "gave up"]
      BY <3>2, <1>3, NoWait
    <3>3. QED
      BY <2>3, <3>1, <3>2 DEF WaitForLoader
  <2>4. ASSUME NEW s \in Slot, NEW old \in Slot \cup {None}, Reserve(t, s, old)
        PROVE  Only(t) /\ th'[t].waits <= MaxWaits
    BY <2>4, <1>3, NoWait DEF Reserve
  <2>5. CASE NoSlot(t) \/ FailLookup(t)
    BY <2>5, <1>3, NoWait DEF NoSlot, FailLookup
  <2>6. CASE gcache_abort_load(t)
    <3>1. CASE th[t].pc = "abort"
      BY <2>6, <3>1, <1>3, NoWait DEF gcache_abort_load
    <3>2. CASE th[t].pc # "abort"
      <4>1. th' = [th EXCEPT ![t].pc = "use", ![t].slot = None]
        BY <2>6, <3>2 DEF gcache_abort_load
      <4>2. QED
        BY <4>1, <1>3, NoWait
    <3>3. QED
      BY <3>1, <3>2
  <2>7. QED
    BY <1>4, <2>1, <2>2, <2>3, <2>4, <2>5, <2>6 DEF QueryStep
<1>5. CASE t \in Installer /\ InstallerStep(t)
  <2>1. ASSUME NEW g \in TableGraph, gcache_invalidate(t, g) PROVE Only(t) /\ th'[t].waits <= MaxWaits
    BY <2>1, <1>3, NoWait DEF gcache_invalidate
  <2>2. CASE gcache_increment_generation(t) \/ vgraph_table_src_set(t)
    BY <2>2, <1>3, NoWait DEF gcache_increment_generation, vgraph_table_src_set
  <2>3. QED
    BY <1>5, <2>1, <2>2 DEF InstallerStep
<1>6. CASE LoaderStep(t)
  <2>1. CASE Load(t)
    <3>1. CASE th' = [th EXCEPT ![t].pc = "loaded", ![t].version = rows[th[t].key]]
      BY <3>1, <1>3, NoWait
    <3>2. CASE t \in Query /\ th' = [th EXCEPT ![t].pc = "abort"]
      BY <3>2, <1>3, NoWait
    <3>3. CASE t \notin Query /\ th' = [th EXCEPT ![t] = Idle]
      BY <3>3, <1>3, NoWait
    <3>4. QED
      BY <2>1, <3>1, <3>2, <3>3 DEF Load
  <2>2. CASE EnterPut(t) \/ gcache_release(t)
    BY <2>2, <1>3, NoWait DEF EnterPut, gcache_release
  <2>3. ASSUME NEW s \in Slot, NEW V, gcache_put(t, s, V) PROVE Only(t) /\ th'[t].waits <= MaxWaits
    BY <2>3, <1>3, NoWait DEF gcache_put
  <2>4. CASE PutDeclined(t)
    BY <2>4, <1>3, NoWait DEF PutDeclined
  <2>5. QED
    BY <1>6, <2>1, <2>2, <2>3, <2>4 DEF LoaderStep
<1>7. QED
  BY <1>4, <1>5, <1>6 DEF ThreadStep

\* A thread's step changes no rows, leaves the mutex to itself or to nobody, and drains the
\* list of deferred invalidations up to the generation, or leaves list and generation alone.
Drains ==
    \/ pend'.ids = <<>> /\ stats'.reaped = generation'
    \/ pend' = pend /\ stats'.reaped = stats.reaped /\ generation' = generation

Modest(t) == UNCHANGED data /\ mutex' \in {mutex, None, t} /\ Drains

LEMMA DrainDrains ==
  ASSUME NEW g0, NEW gone, gcache_drain_locked(g0, gone)
  PROVE  Drains
<1>1. pend' = [ids |-> <<>>, overflow |-> FALSE] /\ \E n, l : stats' = [current_entries |-> n, reaped |-> generation', live |-> l]
  BY DEF gcache_drain_locked
<1>2. pend'.ids = <<>> /\ stats'.reaped = generation'
  BY SMT, <1>1
<1>3. QED
  BY <1>2 DEF Drains

LEMMA PublishDrains ==
  ASSUME Types, NEW es, NEW n, Publish(es, n) \/ UNCHANGED stats, UNCHANGED <<pend, generation>>
  PROVE  Drains
<1>1. stats \in Counters
  BY DEF Types
<1>2. \A a, b : [stats EXCEPT !.current_entries = a, !.live = b].reaped = stats.reaped
  BY SMT, <1>1 DEF Counters
<1>3. stats'.reaped = stats.reaped
  BY <1>2 DEF Publish
<1>4. QED
  BY <1>3 DEF Drains

LEMMA ThreadModest ==
  ASSUME Types, NEW t \in Thread, ThreadStep(t)
  PROVE  Modest(t)
<1>1. CASE t \in Query /\ QueryStep(t)
  <2>1. ASSUME NEW g \in Graph, EnterLookup(t, g) PROVE Modest(t)
    BY <2>1, DrainDrains DEF EnterLookup, Modest
  <2>2. ASSUME NEW s \in Slot, Hit(t, s) PROVE Modest(t)
    BY <2>2, PublishDrains DEF Hit, Looking, Modest
  <2>3. CASE WaitForLoader(t)
    BY <2>3, PublishDrains DEF WaitForLoader, Looking, Modest
  <2>4. ASSUME NEW s \in Slot, NEW old \in Slot \cup {None}, Reserve(t, s, old) PROVE Modest(t)
    BY <2>4, PublishDrains DEF Reserve, Looking, Modest
  <2>5. CASE NoSlot(t)
    BY <2>5, PublishDrains DEF NoSlot, Looking, Modest
  <2>6. CASE FailLookup(t)
    BY <2>6, PublishDrains DEF FailLookup, cache, Modest
  <2>7. CASE gcache_abort_load(t)
    BY <2>7, PublishDrains DEF gcache_abort_load, Modest
  <2>8. QED
    BY <1>1, <2>1, <2>2, <2>3, <2>4, <2>5, <2>6, <2>7 DEF QueryStep
<1>2. CASE t \in Installer /\ InstallerStep(t)
  BY DrainDrains, PublishDrains, <1>2 DEF gcache_invalidate, Modest, gcache_increment_generation, vgraph_table_src_set, cache, InstallerStep
<1>3. CASE LoaderStep(t)
  <2>1. CASE Load(t)
    BY <2>1, PublishDrains DEF Load, cache, Modest
  <2>2. CASE EnterPut(t)
    BY <2>2, DrainDrains DEF EnterPut, Modest
  <2>3. ASSUME NEW s \in Slot, NEW V, gcache_put(t, s, V) PROVE Modest(t)
    BY <2>3, PublishDrains DEF gcache_put, Putting, Modest
  <2>4. CASE PutDeclined(t)
    BY <2>4, PublishDrains DEF PutDeclined, Putting, Modest
  <2>5. CASE gcache_release(t)
    BY <2>5, PublishDrains DEF gcache_release, Modest
  <2>6. QED
    BY <1>3, <2>1, <2>2, <2>3, <2>4, <2>5 DEF LoaderStep
<1>4. QED
  BY <1>1, <1>2, <1>3 DEF ThreadStep

\* So a thread stays within the bounds.
LEMMA ThreadBounded ==
  ASSUME Cached, Cached', Bounded, NEW t \in Thread, ThreadStep(t)
  PROVE  Bounded'
<1>1. UNCHANGED <<rows, committing>> /\ mutex' \in Thread \cup {None} /\ Drains
  BY ThreadModest DEF Cached, Modest, Bounded, data
<1>2. stats'.reaped <= generation' /\ Len(pend'.ids) <= PendingMax
  <2>1. generation' \in Nat /\ stats.reaped <= generation /\ Len(pend.ids) <= PendingMax /\ PendingMax \in Nat
    BY Bounds DEF Cached, Types, Bounded
  <2>2. generation' <= generation' /\ Len(<<>>) <= PendingMax
    BY SMT, <2>1
  <2>3. QED
    BY <1>1, <2>1, <2>2 DEF Drains
<1>3. QED
  BY ThreadWaits, <1>1, <1>2 DEF Bounded, Cached, Only

\* A transaction writes the next version.
LEMMA lt_transactBounded ==
  ASSUME Cached, Bounded, NEW W \in SUBSET Graph, lt_transact(W)
  PROVE  Bounded'
<1>1. /\ rows \in [Graph -> Nat] /\ MaxCommits \in Nat
      /\ \A g \in Graph : rows'[g] = IF g \in W THEN rows[g] + 1 ELSE rows[g]
      /\ \A g \in W : rows[g] < MaxCommits
      /\ committing' = committing \cup {{<<g, rows[g] + 1>> : g \in W}}
      /\ UNCHANGED <<stats, generation, pend, mutex, th>>
  BY Bounds DEF Cached, Types, lt_transact, cache
<1>2. \A g \in W : rows[g] + 1 \in 1 .. MaxCommits /\ rows[g] + 1 <= MaxCommits
  BY SMT, <1>1
<1>3. {<<g, rows[g] + 1>> : g \in W} \subseteq Graph \X (1 .. MaxCommits)
  BY SMT, <1>2
<1>4. QED
  BY <1>1, <1>2, <1>3 DEF Bounded

\* A commit that returns defers no more than the list has room for.
LEMMA vgraph_commit_notifyBounded ==
  ASSUME Cached, Cached', Bounded, NEW C, vgraph_commit_notify(C)
  PROVE  Bounded'
<1>1. /\ generation \in Nat /\ stats.reaped \in Nat /\ pend.ids \in Seq(Graph)
      /\ pend \in [ids : Seq(Graph), overflow : BOOLEAN] /\ PendingMax \in Nat
      /\ stats.reaped <= generation /\ Len(pend.ids) <= PendingMax
  BY Bounds DEF Cached, Types, Counters, Bounded
<1>2. generation' \in {generation, generation + 1}
  BY DEF vgraph_commit_notify, gcache_bump_generation, gcache_invalidate_deferred
<1>3. stats.reaped <= generation'
  BY SMTT(30), <1>1, <1>2
<1>4. Len(pend'.ids) <= PendingMax
  <2>1. ASSUME NEW g \in sources, gcache_invalidate_deferred(g) PROVE Len(pend'.ids) <= PendingMax
    <3>1. g \in Graph
      BY DEF Cached, Types, Graph
    <3>2. CASE Len(pend.ids) < PendingMax /\ pend' = [pend EXCEPT !.ids = Append(@, g)]
      <4>1. pend'.ids = Append(pend.ids, g)
        BY <1>1, <3>2
      <4>2. Len(Append(pend.ids, g)) = Len(pend.ids) + 1 /\ Len(pend.ids) \in Nat
        BY SMT, <1>1, <3>1
      <4>3. QED
        BY SMTT(30), <1>1, <3>2, <4>1, <4>2
    <3>3. CASE pend' = [pend EXCEPT !.overflow = TRUE]
      BY <1>1, <3>3
    <3>4. QED
      BY <2>1, <3>2, <3>3 DEF gcache_invalidate_deferred
  <2>2. CASE pend' = pend
    BY <1>1, <2>2
  <2>3. QED
    BY <2>1, <2>2 DEF vgraph_commit_notify, gcache_bump_generation
<1>5. QED
  BY <1>3, <1>4 DEF Bounded, vgraph_commit_notify

LEMMA InitBounded == Init => Bounded
<1> SUFFICES ASSUME Init PROVE Bounded
  BY SMT
<1>1. 0 <= MaxCommits /\ 0 <= MaxWaits /\ 0 <= 0 /\ Len(<<>>) <= PendingMax
  BY SMT, Bounds
<1>2. QED
  BY <1>1 DEF Bounded, Init, Idle

LEMMA NextBounded == Cached /\ Cached' /\ Bounded /\ [Next]_vars => Bounded'
<1> SUFFICES ASSUME Cached, Cached', Bounded, [Next]_vars PROVE Bounded'
  BY SMT
<1>1. CASE CommitStep
  BY <1>1, lt_transactBounded, vgraph_commit_notifyBounded DEF CommitStep
<1>2. CASE UNCHANGED vars
  BY <1>2 DEF vars, data, cache, Bounded
<1>3. QED
  BY <1>1, <1>2, NextIs, ThreadBounded

LEMMA SpecBounded == Spec => []Bounded
BY InitBounded, NextBounded, SpecCached, PTL DEF Spec

\* The types, of the two.
LEMMA TypesOfBounds ==
  ASSUME Cached, Bounded
  PROVE  TypeOK
<1>1. MaxCommits \in Nat /\ MaxWaits \in Nat
  BY Bounds
<1>2. rows \in [Graph -> 0 .. MaxCommits] /\ committed \in [Graph -> 0 .. MaxCommits]
  <2>1. ASSUME NEW g \in Graph PROVE rows[g] \in 0 .. MaxCommits /\ committed[g] \in 0 .. MaxCommits
    <3>1. /\ rows[g] \in Nat /\ committed[g] \in Nat /\ committed[g] <= rows[g]
          /\ rows[g] <= MaxCommits
      BY DEF Cached, Types, Commits, Bounded
    <3>2. QED
      BY SMT, <1>1, <3>1
  <2>2. QED
    BY <2>1 DEF Cached, Types
<1>3. stats.reaped \in 0 .. generation
  <2>1. stats.reaped \in Nat /\ generation \in Nat /\ stats.reaped <= generation
    BY DEF Cached, Types, Counters, Bounded
  <2>2. QED
    BY SMT, <2>1
<1>4. ASSUME NEW s \in Slot
      PROVE  /\ entries[s].ref_count \in 0 .. Cardinality(Thread)
             /\ entries[s].generation \in 0 .. generation
             /\ ~(entries[s].valid /\ entries[s].loading)
  <2>1. /\ entries[s].generation \in Nat /\ generation \in Nat /\ entries[s].generation <= generation
        /\ ~(entries[s].valid /\ entries[s].loading)
    BY DEF Cached, Types, Entry, Slots, Fit
  <2>2. entries[s].ref_count = Cardinality(Users(s))
    BY PinnedIs DEF Cached, Pinned
  <2>3. /\ Cardinality(Users(s)) \in Nat /\ Cardinality(Thread) \in Nat
        /\ Cardinality(Users(s)) <= Cardinality(Thread)
    BY FewThreads, FS_Subset, FS_CardinalityType DEF Users
  <2>4. QED
    BY SMTT(30), <2>1, <2>2, <2>3
<1>5. ASSUME NEW t \in Thread PROVE th[t].waits \in 0 .. MaxWaits /\ th[t].slot \in Slot \cup {None}
  <2>1. th[t].waits \in Nat /\ th[t].waits <= MaxWaits /\ th[t].slot \in Slot \cup {None}
    BY DEF Cached, Types, Request, Bounded
  <2>2. QED
    BY SMT, <1>1, <2>1
<1>6. QED
  BY <1>2, <1>3, <1>4, <1>5 DEF TypeOK, Bounded, Cached, Types

=============================================================================
