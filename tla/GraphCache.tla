------------------------------ MODULE GraphCache ------------------------------
(***************************************************************************)
(* The cache of graph snapshots (libsrc/graph/graph_cache.c), as queries   *)
(* (setup_algo_context) and GRAPH_LOAD_TABLE (libsrc/Wi/bif_graph.c) use   *)
(* it, while transactions commit (lt_commit, vgraph_commit_notify).        *)
(*                                                                         *)
(* The content of a graph is a version, the number of commits that wrote   *)
(* it. A step is a section inside the cache mutex, cut after the drain     *)
(* because the generation is an atomic that commits bump without it. The   *)
(* gate of the notifier is taken to be up.                                 *)
(***************************************************************************)
EXTENDS Integers, Sequences, FiniteSets, FiniteSetsExt

CONSTANTS
    Query,          \* threads that run graph algorithms
    Installer,      \* threads that run GRAPH_LOAD_TABLE
    Slot,           \* entries of the cache, max_entries of them
    RdfGraph,       \* graphs kept in RDF_QUAD
    TableGraph,     \* graphs loaded from a table each
    Registered,     \* table graphs registered to begin with
    PendingMax,     \* GCACHE_PENDING_MAX
    MaxWaits,       \* GCACHE_MAX_WAITS
    MaxCommits,     \* bound on the graphs that commits write, a graph written twice counted twice
    MaxCommitting,  \* bound on the commits inside lt_commit at a time
    MaxInstalls,    \* bound on its GRAPH_LOAD_TABLE calls
    None

Thread == Query \cup Installer
Graph == RdfGraph \cup TableGraph

ASSUME Apart == Query \cap Installer = {} /\ RdfGraph \cap TableGraph = {}
ASSUME NoneApart == None \notin Graph \cup Thread \cup Slot \cup {"own"}
ASSUME FewThreads == IsFiniteSet(Thread) /\ IsFiniteSet(Slot)
ASSUME Bounds == Registered \subseteq TableGraph /\ PendingMax \in Nat \ {0} /\ {MaxWaits, MaxCommits, MaxCommitting, MaxInstalls} \subseteq Nat

VARIABLES
    rows,           \* by graph, the version its rows have
    committed,      \* by graph, the version whose commit has returned
    committing,     \* what each transaction inside lt_commit wrote: graphs with their version
    generation,     \* s_gcache_generation
    pend,           \* s_pend: ids, overflow
    sources,        \* s_table_src: the graphs registered against their tables
    entries,        \* g_cache.entries
    stats,          \* g_cache: current_entries, reaped_generation, and s_gate_cache_live
    mutex,          \* the thread inside the cache mutex, past its drain
    th,             \* by thread, where it is and what it holds
    installs        \* GRAPH_LOAD_TABLE calls so far

data == <<rows, committed, committing>>
cache == <<generation, pend, entries, stats>>
vars == <<data, cache, sources, mutex, th, installs>>

(* A slot neither valid nor loading: nobody reads its other fields. The loader is not  *)
(* kept in the code: it is the thread that made the reservation, then "own" when the   *)
(* same thread put the entry into it.                                                  *)
Empty == [valid |-> FALSE, loading |-> FALSE, evicting |-> FALSE, invalidated |-> FALSE,
          key |-> None, generation |-> 0, ref_count |-> 0, version |-> 0, loader |-> None]

Idle == [pc |-> "idle", key |-> None, need |-> 0, slot |-> None, version |-> 0, waits |-> 0]

Init ==
    /\ rows = [g \in Graph |-> 0]
    /\ committed = [g \in Graph |-> 0]
    /\ committing = {}
    /\ generation = 0
    /\ pend = [ids |-> <<>>, overflow |-> FALSE]
    /\ sources = Registered
    /\ entries = [s \in Slot |-> Empty]
    /\ stats = [current_entries |-> 0, reaped |-> 0, live |-> FALSE]
    /\ mutex = None
    /\ th = [t \in Thread |-> Idle]
    /\ installs = 0

-----------------------------------------------------------------------------
(* Commits. lt_transact leaves the transaction mutex, so several are under way. *)

Wrote(C) == {c[1] : c \in C}

(* The rows of the graphs W change: some in RDF_QUAD, or one table. A table that several
   graphs are loaded from is one commit for each, since they are notified one by one. No
   graph has more commits than all of them, which the last guard says without a sum. *)
lt_transact(W) ==
    /\ Cardinality(committing) < MaxCommitting
    /\ MapThenSumSet(LAMBDA g : rows[g], Graph) + Cardinality(W) <= MaxCommits
    /\ \A g \in W : rows[g] < MaxCommits
    /\ rows' = [g \in Graph |-> IF g \in W THEN rows[g] + 1 ELSE rows[g]]
    /\ committing' = committing \cup {{<<g, rows[g] + 1>> : g \in W}}
    /\ UNCHANGED <<committed, cache, sources, mutex, th, installs>>

gcache_bump_generation == generation' = generation + 1 /\ UNCHANGED pend

(* Variant: a full list drops what it has no room for. *)
DeferredDropped(g) ==
    /\ pend' = IF Len(pend.ids) < PendingMax THEN [pend EXCEPT !.ids = Append(@, g)] ELSE pend
    /\ UNCHANGED generation

(* Variant: one more than the list has room for. *)
DeferredPastEnd(g) ==
    /\ pend' = IF Len(pend.ids) <= PendingMax THEN [pend EXCEPT !.ids = Append(@, g)]
               ELSE [pend EXCEPT !.overflow = TRUE]
    /\ UNCHANGED generation

(* A full list leaves it to the next drain to retire everything. *)
gcache_invalidate_deferred(g) ==
    /\ pend' = IF Len(pend.ids) < PendingMax THEN [pend EXCEPT !.ids = Append(@, g)]
               ELSE [pend EXCEPT !.overflow = TRUE]
    /\ UNCHANGED generation

(* By vgraph_commit_reach: everything, also when what was written is not known, the *)
(* registered graph written, or nothing.                                            *)
vgraph_commit_notify(C) ==
    /\ C \in committing
    /\ \/ gcache_bump_generation
       \/ \E g \in Wrote(C) \cap sources : Wrote(C) = {g} /\ gcache_invalidate_deferred(g)
       \/ Wrote(C) \subseteq TableGraph \ sources /\ UNCHANGED <<generation, pend>>
    /\ committed' = [g \in Graph |-> IF \E c \in C : c[1] = g /\ c[2] > committed[g]
                                     THEN (CHOOSE c \in C : c[1] = g)[2] ELSE committed[g]]
    /\ committing' = committing \ {C}
    /\ UNCHANGED <<rows, entries, stats, sources, mutex, th, installs>>

-----------------------------------------------------------------------------
(* The cache, inside its mutex. *)

Fewer(n, D) == IF n > Cardinality(D) THEN n - Cardinality(D) ELSE 0

(* Variant: a reservation does not count until it is published. *)
LiveWhenPublished(es, n) == n > 0

gcache_update_live_locked(es, n) == n > 0 \/ \E s \in Slot : es[s].loading

(* The entries become es, n of them valid, and the host is told. *)
Publish(es, n) ==
    /\ entries' = es
    /\ stats' = [stats EXCEPT !.current_entries = n, !.live = gcache_update_live_locked(es, n)]

(* Entries that only leave: the host is told when one does. *)
Left(es) == {s \in Slot : entries[s].valid /\ ~es[s].valid}

(* Variant: it goes at once, whoever uses it. *)
RetiredAtOnce(e) == Empty

(* An entry that is to go: at once, or with its last handle. *)
Retired(e) == IF e.ref_count = 0 THEN Empty ELSE [e EXCEPT !.evicting = TRUE]

(* Variant: a load under way is left alone. *)
DrainedLoadsLost(e, gen, ids) ==
    IF e.valid /\ (e.key \in ids \/ e.generation # gen) THEN Retired(e) ELSE e

(* What the drain makes of e at generation gen when commits wrote the graphs in ids. *)
DrainedEntry(e, gen, ids) ==
    CASE e.loading -> [e EXCEPT !.invalidated = @ \/ e.key \in ids]
      [] e.valid /\ (e.key \in ids \/ e.generation # gen) -> Retired(e)
      [] OTHER -> e

Drained(gen) ==
    LET ids == {pend.ids[i] : i \in DOMAIN pend.ids}
    IN  IF ids = {} /\ gen = stats.reaped THEN entries
        ELSE [s \in Slot |-> DrainedEntry(entries[s], gen, ids)]

(* gcache_drain_locked from generation g0; the valid entries of the graphs in gone, *)
(* which the caller invalidates before it leaves the mutex, are retired with it.     *)
gcache_drain_locked(g0, gone) ==
    LET gen == IF pend.overflow THEN g0 + 1 ELSE g0
        left == Drained(gen)
        es == [s \in Slot |-> IF left[s].valid /\ left[s].key \in gone THEN Retired(left[s]) ELSE left[s]]
        n == Fewer(stats.current_entries, Left(es))
    IN  /\ generation' = gen
        /\ pend' = [ids |-> <<>>, overflow |-> FALSE]
        /\ entries' = es
        /\ stats' = [current_entries |-> n, reaped |-> gen,
                     live |-> IF Left(es) = {} THEN stats.live ELSE gcache_update_live_locked(es, n)]

(* The entries find_entry_locked may return. *)
find_entry_locked(k) ==
    {s \in Slot : /\ entries[s].valid \/ entries[s].loading
                  /\ ~entries[s].evicting
                  /\ entries[s].key = k
                  /\ entries[s].valid => entries[s].generation = generation}

(* The slots find_free_slot_locked may return, whatever the times of last access. *)
find_free_slot_locked(es) == {s \in Slot : ~es[s].loading /\ es[s].ref_count = 0}

-----------------------------------------------------------------------------
(* A query: setup_algo_context, its algorithm, cleanup_algo_context. *)

(* gcache_get_or_reserve enters the mutex and drains; need is what must be seen. *)
EnterLookup(t, g) ==
    /\ th[t].pc = "idle" /\ mutex = None
    /\ g \in RdfGraph \cup sources
    /\ gcache_drain_locked(generation, {})
    /\ mutex' = t
    /\ th' = [th EXCEPT ![t] = [Idle EXCEPT !.pc = "look", !.key = g, !.need = committed[g]]]
    /\ UNCHANGED <<data, sources, installs>>

(* A turn of its loop: the first, or one after a wait, which does not drain. *)
Looking(t) ==
    /\ \/ th[t].pc = "look" /\ mutex = t
       \/ th[t].pc = "waiting" /\ mutex = None
    /\ mutex' = None
    /\ UNCHANGED <<data, generation, pend, sources, installs>>

(* The entry is valid and has not expired. *)
Hit(t, s) ==
    /\ Looking(t)
    /\ s \in find_entry_locked(th[t].key) /\ entries[s].valid
    /\ entries' = [entries EXCEPT ![s].ref_count = @ + 1]
    /\ th' = [th EXCEPT ![t].pc = "use", ![t].slot = s, ![t].version = entries[s].version]
    /\ UNCHANGED stats

(* Another thread loads it: wait, or give up after MaxWaits timeouts or wakeups. *)
WaitForLoader(t) ==
    /\ Looking(t)
    /\ \E s \in find_entry_locked(th[t].key) : entries[s].loading
    /\ th' = IF th[t].waits < MaxWaits
             THEN [th EXCEPT ![t].pc = "waiting", ![t].waits = @ + 1]
             ELSE [th EXCEPT ![t].pc = "gave up"]
    /\ UNCHANGED <<entries, stats>>

Reservation(t, g) == [Empty EXCEPT !.loading = TRUE, !.key = g, !.generation = generation, !.loader = t]

(* No entry is found (old is None), or an expired one, which goes first: reserve a slot. *)
Reserve(t, s, old) ==
    LET found == find_entry_locked(th[t].key)
        es == [i \in Slot |-> IF i = old THEN Retired(entries[i]) ELSE entries[i]]
        new == [es EXCEPT ![s] = Reservation(t, th[t].key)]
    IN  /\ Looking(t)
        /\ IF old = None THEN found = {} ELSE old \in found /\ entries[old].valid
        /\ IF old # None /\ es[old] = Empty THEN s = old ELSE s \in find_free_slot_locked(es)
        /\ Publish(new, Fewer(stats.current_entries, Left(new)))
        /\ th' = [th EXCEPT ![t].pc = "load", ![t].slot = s]

(* Every slot is used or reserved: GRAPH_ERR_OUT_OF_MEMORY, also for the query. *)
NoSlot(t) ==
    /\ Looking(t)
    /\ find_free_slot_locked(entries) = {}
    /\ \/ find_entry_locked(th[t].key) = {} /\ UNCHANGED entries
       \/ \E s \in find_entry_locked(th[t].key) :
              entries[s].valid /\ entries' = [entries EXCEPT ![s].evicting = TRUE]
    /\ th' = [th EXCEPT ![t] = Idle]
    /\ UNCHANGED stats

(* GRAPH_ERR_NOT_FOUND to a caller that is not the loader: the query fails. *)
FailLookup(t) ==
    /\ th[t].pc = "gave up"
    /\ th' = [th EXCEPT ![t] = Idle]
    /\ UNCHANGED <<data, cache, sources, mutex, installs>>

(* The rows are read, committed ones only, or reading them fails. *)
Load(t) ==
    /\ th[t].pc = "load"
    /\ \/ th' = [th EXCEPT ![t].pc = "loaded", ![t].version = rows[th[t].key]]
       \/ th' = [th EXCEPT ![t] = IF t \in Query THEN [@ EXCEPT !.pc = "abort"] ELSE Idle]
    /\ UNCHANGED <<data, cache, sources, mutex, installs>>

(* gcache_put enters the mutex and drains. *)
EnterPut(t) ==
    /\ th[t].pc = IF t \in Query THEN "loaded" ELSE "registered"
    /\ mutex = None
    /\ gcache_drain_locked(generation, {})
    /\ mutex' = t
    /\ th' = [th EXCEPT ![t].pc = "put"]
    /\ UNCHANGED <<data, sources, installs>>

Putting(t) ==
    /\ th[t].pc = "put" /\ mutex = t
    /\ mutex' = None
    /\ UNCHANGED <<data, generation, pend, sources, installs>>

PutBy(t, e) == IF e.loading /\ e.loader = t THEN "own" ELSE None

(* Variant: the generation is that of the put. *)
PutStampsNow(t, e) ==
    [Empty EXCEPT !.valid = TRUE, !.key = th[t].key, !.ref_count = 1, !.version = th[t].version,
                  !.generation = generation, !.invalidated = e.loading /\ e.invalidated,
                  !.evicting = e.loading /\ e.invalidated, !.loader = PutBy(t, e)]

(* The entry a put leaves in the slot that held e. A reservation keeps its generation. *)
PutEntry(t, e) ==
    LET reserved == e.loading
    IN  [Empty EXCEPT !.valid = TRUE, !.key = th[t].key, !.ref_count = 1, !.version = th[t].version,
                      !.generation = IF reserved THEN e.generation ELSE generation,
                      !.invalidated = reserved /\ e.invalidated,
                      !.evicting = reserved /\ e.invalidated, !.loader = PutBy(t, e)]

(* The slots a put may take, when no reader uses the entry it would replace. *)
PutSlot(t) ==
    LET found == find_entry_locked(th[t].key)
    IN  IF found = {} THEN find_free_slot_locked(entries)
        ELSE {s \in found : entries[s].valid => entries[s].ref_count = 0}

(* What the byte budget may evict besides the entry in s. *)
Victims(s) == {v \in Slot \ {s} : entries[v].valid /\ ~entries[v].loading /\ entries[v].ref_count = 0}

(* It fits, after the entries in V have gone. *)
gcache_put(t, s, V) ==
    LET es == [i \in Slot |-> IF i = s THEN PutEntry(t, entries[s]) ELSE IF i \in V THEN Empty ELSE entries[i]]
        gone == V \cup {i \in {s} : entries[i].valid}
    IN  /\ Putting(t)
        /\ s \in PutSlot(t) /\ V \subseteq Victims(s)
        /\ Publish(es, Fewer(stats.current_entries, gone) + 1)
        /\ th' = [th EXCEPT ![t].pc = "use", ![t].slot = s]

(* It is in use, there is no slot, or it does not fit: the caller keeps its copy. *)
PutDeclined(t) ==
    /\ Putting(t)
    /\ \/ PutSlot(t) = {} /\ UNCHANGED <<entries, stats>>
       \/ \E s \in PutSlot(t) : \E V \in {{}, Victims(s)} :
              LET gone == V \cup {i \in {s} : entries[i].valid}
                  es == [i \in Slot |-> IF i \in gone THEN Empty ELSE entries[i]]
              IN  IF gone = {} THEN UNCHANGED <<entries, stats>>
                  ELSE Publish(es, Fewer(stats.current_entries, gone))
    /\ th' = [th EXCEPT ![t] = IF t \in Query THEN [@ EXCEPT !.pc = "declined"] ELSE Idle]

(* Variant: the reservation stays. *)
AbortForgotten(t) ==
    /\ th[t].pc \in {"abort", "declined"} /\ mutex = None
    /\ th' = [th EXCEPT ![t] = IF @.pc = "abort" THEN Idle ELSE [@ EXCEPT !.pc = "use", !.slot = None]]
    /\ UNCHANGED <<data, cache, sources, mutex, installs>>

(* The loader gives its reservation up, and fails or goes on with its own copy. *)
gcache_abort_load(t) ==
    /\ th[t].pc \in {"abort", "declined"} /\ mutex = None
    /\ LET own == {s \in find_entry_locked(th[t].key) : entries[s].loading /\ ~entries[s].valid}
       IN  Publish([s \in Slot |-> IF s \in own THEN Empty ELSE entries[s]], stats.current_entries)
    /\ th' = [th EXCEPT ![t] = IF @.pc = "abort" THEN Idle ELSE [@ EXCEPT !.pc = "use", !.slot = None]]
    /\ UNCHANGED <<data, generation, pend, sources, mutex, installs>>

(* The end of the algorithm, or of GRAPH_LOAD_TABLE: cleanup_algo_context. *)
gcache_release(t) ==
    /\ th[t].pc = "use"
    /\ \/ th[t].slot = None /\ UNCHANGED <<entries, stats>>
       \/ /\ th[t].slot # None /\ mutex = None
          /\ LET s == th[t].slot
                 left == [entries[s] EXCEPT !.ref_count = IF @ > 0 THEN @ - 1 ELSE 0]
                 es == [entries EXCEPT ![s] = IF left.evicting /\ left.ref_count = 0 THEN Empty ELSE left]
             IN  IF es[s] = Empty THEN Publish(es, Fewer(stats.current_entries, {s}))
                 ELSE entries' = es /\ UNCHANGED stats
    /\ th' = [th EXCEPT ![t] = Idle]
    /\ UNCHANGED <<data, generation, pend, sources, mutex, installs>>

-----------------------------------------------------------------------------
(* GRAPH_LOAD_TABLE: invalidate, bump, read (Load), register, put, release. *)

gcache_invalidate(t, g) ==
    /\ th[t].pc = "idle" /\ mutex = None
    /\ installs < MaxInstalls /\ installs' = installs + 1
    /\ gcache_drain_locked(generation, {g})
    /\ th' = [th EXCEPT ![t] = [Idle EXCEPT !.pc = "invalidated", !.key = g]]
    /\ UNCHANGED <<data, sources, mutex>>

gcache_increment_generation(t) ==
    /\ th[t].pc = "invalidated" /\ mutex = None
    /\ gcache_drain_locked(generation + 1, {})
    /\ th' = [th EXCEPT ![t].pc = "load"]
    /\ UNCHANGED <<data, sources, mutex, installs>>

(* The graph is registered; an empty table leaves nothing to put. *)
vgraph_table_src_set(t) ==
    /\ t \in Installer /\ th[t].pc = "loaded"
    /\ sources' = sources \cup {th[t].key}
    /\ th' = [th EXCEPT ![t].pc = "registered"] \/ th' = [th EXCEPT ![t] = Idle]
    /\ UNCHANGED <<data, cache, mutex, installs>>

-----------------------------------------------------------------------------
QueryStep(t) ==
    \/ \E g \in Graph : EnterLookup(t, g)
    \/ \E s \in Slot : Hit(t, s)
    \/ WaitForLoader(t)
    \/ \E s \in Slot : \E old \in Slot \cup {None} : Reserve(t, s, old)
    \/ NoSlot(t)
    \/ FailLookup(t)
    \/ gcache_abort_load(t)

InstallerStep(t) ==
    \/ \E g \in TableGraph : gcache_invalidate(t, g)
    \/ gcache_increment_generation(t)
    \/ vgraph_table_src_set(t)

LoaderStep(t) ==
    \/ Load(t)
    \/ EnterPut(t)
    \/ \E s \in Slot : \E V \in SUBSET Slot : gcache_put(t, s, V)
    \/ PutDeclined(t)
    \/ gcache_release(t)

CommitStep ==
    \/ \E W \in {w \in SUBSET Graph : w \cap RdfGraph # {} \/ Cardinality(w) = 1} : lt_transact(W)
    \/ \E C \in committing : vgraph_commit_notify(C)

Next ==
    \/ CommitStep
    \/ \E t \in Query : QueryStep(t)
    \/ \E t \in Installer : InstallerStep(t)
    \/ \E t \in Thread : LoaderStep(t)

Spec == Init /\ [][Next]_vars

-----------------------------------------------------------------------------
(* Types of the state; a generation never runs ahead of the commits, installs and overflows. *)
TypeOK ==
    /\ rows \in [Graph -> 0 .. MaxCommits] /\ committed \in [Graph -> 0 .. MaxCommits]
    /\ \A C \in committing : C \subseteq Graph \X (1 .. MaxCommits)
    /\ sources \subseteq TableGraph
    /\ generation \in Nat /\ stats.reaped \in 0 .. generation
    /\ Len(pend.ids) <= PendingMax /\ pend.overflow \in BOOLEAN
    /\ DOMAIN entries = Slot
    /\ \A s \in Slot : /\ ~(entries[s].valid /\ entries[s].loading)
                       /\ entries[s].ref_count \in 0 .. Cardinality(Thread)
                       /\ entries[s].generation \in 0 .. generation
    /\ mutex \in Thread \cup {None}
    /\ \A t \in Thread : th[t].waits \in 0 .. MaxWaits /\ th[t].slot \in Slot \cup {None}

Stale(t) == th[t].pc = "use" /\ th[t].version < th[t].need

(* What it works on was put without a reservation, or into that of another thread. *)
Unreserved(t) == th[t].slot # None /\ entries[th[t].slot].loader # "own"

(* A query never works on rows older than a commit that had returned before its      *)
(* gcache_get_or_reserve, when a query loaded them under its own reservation, however *)
(* loads, puts, waits, deferred invalidations, GRAPH_LOAD_TABLE calls and generation *)
(* bumps interleave.                                                                 *)
Fresh == \A t \in Query : Stale(t) => Unreserved(t)

(* The same of the entries put without a reservation, as GRAPH_LOAD_TABLE does.      *)
UnreservedFresh == \A t \in Query : Stale(t) => ~Unreserved(t)

(* A handle pins its entry: until gcache_release, the slot keeps the store the       *)
(* handle was given, and ref_count is the number of handles, so the last release     *)
(* and no earlier step frees it.                                                     *)
HandlesPinned ==
    \A s \in Slot :
        LET users == {t \in Thread : th[t].pc = "use" /\ th[t].slot = s}
        IN  /\ entries[s].ref_count = Cardinality(users)
            /\ \A t \in users : entries[s].valid /\ entries[s].key = th[t].key /\ entries[s].version = th[t].version

(* current_entries counts the valid entries over every path that adds, replaces or    *)
(* frees one, and what the host was last told is whether anything is cached or being  *)
(* loaded: told "nothing" too early, lt_commit stops notifying.                       *)
HostToldLive ==
    /\ stats.current_entries = Cardinality({s \in Slot : entries[s].valid})
    /\ stats.live <=> \E s \in Slot : entries[s].valid \/ entries[s].loading

(* Every reservation has a loader that will put or abort it, and a graph has one at   *)
(* most: a reservation nobody owns would hold every later query up for all its waits. *)
ReservationsOwned ==
    \A s \in Slot : entries[s].loading =>
        /\ \E t \in Query : th[t].pc \in {"load", "loaded", "put", "abort", "declined"} /\ th[t].key = entries[s].key
        /\ \A r \in Slot \ {s} : ~(entries[r].loading /\ entries[r].key = entries[s].key)
====
