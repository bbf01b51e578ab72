# Virtuoso: a TLA+ verification of the transaction core

Virtuoso is a multi-threaded SQL/RDF server. Client threads, background threads
(checkpoint, the lock reaper, disk writers) and the worker threads of async
queues share pages, locks, transactions and caches. This directory models the
parts of the server whose correctness depends on the order in which those
threads take their steps, model-checks them with TLC and proves theorems about
them with TLAPS. Paths below are relative to `src/libsrc`.

## Inventory

| Part | Source | State | Operations | What is hard | Module |
|---|---|---|---|---|---|
| Semaphores | `Thread/sched_pthread.c`, `Thread/thread_queue.c` | entry count, FIFO of sleeping threads, thread status | enter, try_enter, enter_timed, leave | a deadline racing a hand-over, lost wakeups | `Semaphore`, `CountingSemaphore` |
| Locks and lock waits | `Wi/lock.c`, `Wi/rltrx.c` | type, owners and FIFO queue of each lock; both lists of wait edges, lock table, thread counts and status of each transaction | lock, wait, deadlock check, kill, commit, rollback, release | wait edges kept on both sides across kills and releases; a killer racing a grant | `LockManager` |
| Page gate | `Wi/gate.c` | readers, is_write, read and write queue of each buffer; target, registration and change mark of each cursor | page_wait_access, leave, land, transits, reenter, delete | handing over a page that was split, deleted or is being read; upgrades | `PageGate` |
| Unordered semaphore | `Thread/sched_pthread.c` (`SEM_NO_ORDER`) | count, number signalled | as above | several leaves before the first wakeup | planned |
| Reader/writer lock (platforms without `pthread_rwlock`) | `Thread/thread_rwlock.c` | state, blocked counts, two semaphores | rdlock, wrlock, try, unlock | barging between a wakeup and the retry | planned |
| Transaction life cycle | `Wi/lock.c`, `Wi/rltrx.c`, `Wi/sqlsrv.c`, `Wi/neodisk.c`, `Wi/sqlintrp.c` | status, thread counts, waiting-end list, checkpoint flags | enter, leave, close, kill, freeze, checkpoint | two closers of one transaction; everyone stopped and restarted by a checkpoint | `TrxLife` |
| Graph cache | `graph/graph_cache.c`, `Wi/bif_graph.c`, `Wi/lock.c` | generation, entries, pending invalidations, registered tables | get_or_reserve, put, abort, release, invalidate, commit notification, GRAPH_LOAD_TABLE | a snapshot loaded while commits go on | `GraphCache` |
| Graph commit gate, weight table | `Wi/bif_graph.c` | flags, builders | raise, drop, build, retire | a flag computed and stored apart | planned |
| Async queues | `Wi/aqueue.c` | request queue, request states, threads | request, wait, wait_all, do_self | a request run by the waiter or by a worker | planned |
| Checkpoint and recovery | `Wi/neodisk.c`, `Wi/log.c`, `Wi/disk.c` | checkpointed image, remaps, recovery file, log | checkpoint, log switch, roll forward | a crash between any two durable writes | `CheckpointRecovery`, `DurableStore` |
| Two-phase commit | `Wi/2pc.c` | branch status, log | prepare, commit, abort | a failure after one branch prepared | planned |
| Buffer pool, read-ahead, disk writing | `Wi/disk.c`, `Wi/mtwrite.c`, `Wi/read.c`, `Wi/search.c` | buffers, queues of I/O threads | find, read ahead, flush | decoys of read-ahead, a page changed while written | planned (part of it in `PageGate`) |
| Column-store locks | `Wi/collock.c` | range locks of a segment | as locks | splits of ranges | planned |
| Everything else | compilers, RDF, text, XML, HTTP, drivers, applications | | | sequential code or input and output | see "Not modelled" |

The semaphore is what every waiting thread sleeps on. A cursor waits on its
thread's semaphore both in the page gate and in the lock manager. The lock
manager touches a lock only with write access to the page the lock is on, which
it gets from the page gate. `LockManager` therefore takes for granted what
`Semaphore` and `PageGate` show: a signalled thread wakes once, and write access
is exclusive and is granted sooner or later to a thread that waits for it.
`TrxLife` takes from `LockManager` that a lock is handed to a pending waiter when
its owner ends, and `CheckpointRecovery` takes from `TrxLife` that nobody
changes a row between the freeze and the end of a checkpoint
(`CheckpointQuiet`).

## Semaphore, CountingSemaphore

`Semaphore` is the ordered build of `sched_pthread.c`. Every action is one
critical section of `sem_handle`: the part of a call up to `pthread_cond_wait`,
or the part after it. `EnterAtOnce` is the first branch of the three entry
functions; `EnterWaits` queues the thread and sets `WAITSEM`; `semaphore_leave`
dequeues the head and sets it `RUNNING`, or banks the entry; `WakeUp` is a
return with the entry, in time or too late; `TimesOut` leaves the queue at the
deadline. `leaves` and `entries` are history variables.

`CountingSemaphore` is what callers rely on: permits that a leave adds and an
entry takes. `Semaphore` implements it under the mapping that counts as a permit
every banked entry and every entry handed to a thread that has not returned yet.

| Run | Instance | Shows |
|---|---|---|
| `semaphore` | 3 threads, 1 entry, at most 4 leaves | no idle entry beside a sleeper, `WAITSEM` means queued, entries are conserved, service in order of arrival, a handed entry is returned with, refinement of `CountingSemaphore` |

Three threads are enough for a queue whose middle element times out while its
head is handed an entry. Four leaves exceed the threads that can wait, so that
entries are banked as well. `CHECK_DEADLOCK FALSE`: with the leaves used up all
threads may sleep. Fairness is weak, on a signalled thread waking and on a
deadline passing, which is what pthreads give.

Proved in `SemaphoreProofs`, for any finite set of threads and any initial
count: `SemaphoreCorrect` (the invariants of the run, of which
`NoIdleEntryCorrect` and `WaitersAreQueuedCorrect` single two out),
`FirstComeFirstServedCorrect` and `Refinement` (`Spec => Abstract!Spec`). `MaxLeaves` may be any number. The conjunction of the four invariants is inductive; counting
the threads handed an entry uses the library's facts on finite sets.

## LockManager

### Correspondence

| Model | Code |
|---|---|
| `pl_type`, `pl_owner`, `pl_waiting` | `gen_lock_t`; the owner list as a set; the queue of `it_cursor_t` with mode and whether it acquires |
| `latch` | the page write access a releasing thread keeps |
| `lt_waits_for`, `lt_waiting_for_this`, `lt_lock`, `lt_status`, `lt_lw_threads`, `lt_close_ack_threads` | fields of `lock_trx_t` |
| `pc` | where the thread of the transaction is |
| `phase`, `todo`, `cur`, `scan`, `victim` | the local state of `lt_transact` and of `lock_release` inside it |
| `killer` | the transaction `lt_killall` or the reaper is ending |
| `unlinked`, `restarts` | history |

Asking for a lock holds the page throughout and enters the transaction mutex
once, so it is one action (`TakeLock`, `lock_wait`, `lock_wait_bust`).
`lock_release` enters the mutex once per waiter, so it is a loop of actions
(`lock_release`, `ScanDead`, `ScanLive`, `Signal`, `GrantOwner`, `GrantPass`,
`ReleaseDone`) between which kills, requests on other pages and other ends of
transactions take place. `lt_commit` and `lt_rollback` leave the mutex for the
log and come back in `AfterLog`. `KillRunning` and `KillWaiting` are the two
branches of `lt_kill_other_trx`; a thread that finds its transaction dead ends
it or acknowledges (`BustRollsBack`, `BustAcknowledges`).

Abstractions: a transaction has one thread, which is always inside it; locks
are alone on their pages; whether the row of a waiter still exists when its turn
comes is left open; a commit always passes through the part outside the mutex,
which allows more interleavings than a read-only commit has; the killer takes
pending transactions only. Left out: branches of a multi-threaded transaction,
freezing by a checkpoint, lock escalation, locks moved by a page split, the
limit of 1024 waiters.

### Runs

| Run | Instance | Shows |
|---|---|---|
| `lock_graph` | 3 transactions, 2 page locks | owners are compatible, an acquiring waiter that comes back owns the lock, wait edges are symmetric and have no cycle, and every transaction that really blocks a pending waiter is reachable from it |
| `lock_progress` | 2 transactions, a row lock and a page lock, 1 restart | a queue has an owner, thread counts, references, closing transactions have no edges, and every lock wait ends |
| `lock_shared_deadlock` | 3 transactions, a row lock and a page lock | a violation: see Findings |

Three transactions are the least with a queue of two behind an owner, where a
kill in the middle has an edge to pass on; two locks the least for a deadlock.
Restarts reuse a `lock_trx_t` with what an earlier life left in it; they are
bounded, hence `CHECK_DEADLOCK FALSE`. `lock_graph` uses the symmetry of
transactions, `lock_progress` none. `EveryWaitEnds` is checked for two
transactions: for three it is refuted by the finding.

Fairness: a thread that can go on does (weak); a client ends its transaction
if it is time and again able to (strong, since it may be killed meanwhile); the
thread in `lt_transact` gets the page it queues for (strong: the write queue of
a page is served in order, which is what `WriteWaitsEnd` of `PageGate` says).

### Findings

`lock_shared_deadlock`: `lock_check_deadlock_1` (`Wi/lock.c:1588`) gives a
shared request no wait edge when all exclusive waiters before it are closing,
since "shared with no live excl before can't block hence can't deadlock". The
request does wait, because `lock_add_owner` refuses it while the queue is not
empty. If the sole shared owner now upgrades to exclusive and then asks for a
lock of that waiter, the two wait for each other and no edge says so; the
timeout of the lock reaper has to end one of them. `BlockersReachable` leaves out
a queue that has had such a request since it was last empty (`unlinked`), all of
its waiters included, and holds on all others.

### Proofs

`LockManagerProofs` proves, for every finite set of transactions, every set of
locks and any number of restarts, all safety invariants of the passing runs but
`BlockersReachable`: theorems `LocksCorrect`, `WaitGraphCorrect`,
`WaitsCountedCorrect`, `WokenOwnsCorrect`, and, singled out of the first two,
`TypeCorrect`, `QueueHasOwnerCorrect`, `LocksReferencedCorrect`, `WaitEdgesMatchCorrect` and
`ClosingHasNoEdgesCorrect`. None of them is inductive alone.
`IInv` adds five facts about the middle of operations:

- `Control`: how status, thread and `lt_transact` of a transaction go together
  (nobody but its `lt_transact` moves a transaction out of `CLOSING`);
- `Releasing`: a release holds its page, and has dequeued its own cursor from
  the part of the queue it has scanned;
- `VictimsApart`: a cursor about to be signalled is in no queue and is
  signalled by one release only;
- `Entitled`: what a queued cursor wants and what a dequeued one has got;
- `Referenced`: `LocksReferenced` also while a page is latched.

There is one lemma per action. The steps outside `lt_transact` and those that
begin and end it are mostly instances of `QuietStep` or `ClosingStep`, the
grants and dequeuings of `lock_release` of `LetsGoIInv`. The acyclicity of the
wait graph is argued with sets closed under `lt_waits_for`, so that no induction
on paths is needed:
`lock_wait` adds edges only from the new waiter to transactions from which it
cannot be reached; `lt_clear_waits` replaces paths through a transaction by
edges around it. Assumptions: `TrxFinite`, `PageLocksAreLocks`, `NamesDiffer`,
`MaxRestartsIsNat`.

## PageGate

### Correspondence

`bd[p]` is the `buffer_desc_t` of a page, or the decoy that stands for it while
it is read: `readers`, `is_write` and the two queues, with `state` "absent",
"decoy", "here" or "deleted". `itc[c]` is a cursor with its thread: which call
of `page_wait_access` it is in (`fn`), for which page and from which one, its
dive mode, whether it has landed or is registered, `to_reset`
(`itc_to_reset`), `entered` (`itc_buf_entered`) and the pages the thread takes
itself to be inside. `changed` is history: the largest change made to the page
while the cursor waited, whatever it was told.

A step is one section inside the page map mutexes. `page_wait_access` is
`StartRead`, `EnterFree` or `Wait`; `ReadDone` puts the buffer in place of the
decoy; `GoOn` is the rest of the call after a wait. `page_leave_inner`,
`page_release_writes` (`ReleaseWaiting`), `page_release_read` and
`page_mark_change` are operators from a pair of buffers and cursors to another,
because a transit combines them with entering the next page in one section.
`itc_reset`, `itc_dive_transit`, `itc_landed_down_transit`, `itc_up_transit`,
`itc_write_parent`, `page_reenter_excl`, `itc_set_parent_link`, `itc_try_land`,
`pg_delete_move_cursors`, `it_free_page`, `itc_unregister` and `bp_found` have
the names of the functions they model.

Abstractions: a tree is a root and leaves; a writer's change to a page is one of
the `RWG_*` levels; a search may start in any dive mode and take any path; the
short cuts of `itc_dive_transit`, `itc_reset` and `pl_enter` that do not call
`page_wait_access` do what `EnterFree` does and are not told apart from it. A
cursor that is on a leaf may still have the root, as in `itc_fix_back_link`, and
leave it first. Two branches of the code turn out unreachable and the properties
say so: `pl_enter` finding its registration moved after it got the page, which is
in the model (`Moved` in `GoOn`) and is never taken by `EntersUnchanged`, and a
reference to a deleted page (`DeletedLeft`). Left out:
the cached image of the root, the decoys of read-ahead and of
`pl_finalize_absent`, column pages, cursors moved by a split, a root that is
popped or replaced.

### Runs

| Run | Instance | Shows |
|---|---|---|
| `page_gate` | 3 cursors, root and leaf, all modes and changes | counts tell who is inside, no lost wakeup, nobody enters a page changed more than it can bear, deleted pages are left, reentry is to the registered page, no deadlock |
| `page_overtake` | 3 cursors, a root, read and write | a wait for write access ends although readers and writers keep coming |

Three cursors are the least with one inside and two queued, which is what a
refused writer before a reader needs; a leaf is needed for the adaptive entry as
writer, for landing and for holding a child while waiting for its parent.
Deadlock is checked. Only waits for write access are claimed to end: a stream of
writers keeps readers out, since `page_release_writes` comes first. Fairness:
threads run and disk reads end (weak); a cursor that comes back to a page again
and again leaves it (strong). With a leaf the claim would not hold:
`itc_up_transit` keeps its page, waits until the parent is free and tries again
without having been given it, so others may win every time (a hazard at
`Wi/gate.c:1134`).

### Proofs

`PageGateProofs`, with the invariant, the operators and the first steps in
`PageGateSteps`, proves all six safety invariants, for every finite set of cursors, every set of leaves, and any subset of the modes and changes: theorems
`TypeCorrect`, `GateCountsCorrect`, `WaitersAwaitedCorrect`,
`EntersUnchangedCorrect`, `DeletedLeftCorrect` and `NoDeadlockCorrect`, all from
`Invariant`. The inductive invariant `IInv` is `Good(bd, itc)`, a predicate on a
pair of buffers and cursors: the operators of the gate take such pairs, and a
step may chain three of them. It has two halves.

- `Sound`: types; `Place`, which says what the fields of a cursor are at each
  point of its thread (in particular what each caller of `page_wait_access` holds
  and whether a signalled cursor finds itself inside exactly when it was let in);
  `QueuesFit`, each queue has the waiting cursors of its kind once; a decoy has
  its reader; nobody is registered on, or calls for, a page that is deleted, or
  registered on one about to be.
- `Counted`, for each page: the counts are those of the readers and writers
  inside; whoever waits has somebody inside to wait for; a deleted page is
  deserted; a cursor inside by `pl_enter` is registered there, and one that waits
  may have been moved away only while the page is about to be freed (`Follows`).

In the middle of a step the second half fails for one page. The lemmas about
releases therefore start from `Others`, all pages but one, and say how far that
one is off: `Held` (one cursor more is counted than is inside, because it is
leaving), `Vacant`, `Open`. `page_release_readGood`, `ReleaseWaitingGood` and
`page_leave_innerGood` bring each of these back to `Good`; `MarkHeld` does it for
`page_mark_change`, after which no waiter fits if the page was freed. A step of one
cursor alone is an instance of `TurnGood`, `TurnAlone` or `TurnLeaves`; only
`pg_delete_move_cursors` and `bp_found` are argued directly. `NoDeadlock` follows
because a cursor that waits while it is inside a page is inside a leaf and waits
for the root. Nobody waits for a page that is freed without being told: its
waiters were marked `WAIT_ANY + 1`, which is more than any caller bears, and no
call for it can be under way (`NobodyAsks`), since that takes the root, which the
deleter holds, or a registration, which has been moved.

Assumptions: `PagesApart`, `CursorsFinite`, `ModesAndChanges`.

## GraphCache

### Correspondence

`entries` is `g_cache.entries`, `stats` the counters of `g_cache` that steer
control with what the host was last told (`s_host_live_fn`), `pend` is `s_pend`,
`sources` the registry `s_table_src`. The content of a graph is a version: how
many commits have written it. `rows` has the version a reader would see,
`committed` the one whose `lt_commit` is past its notification. `th[t]` is a
thread in `setup_algo_context` or GRAPH_LOAD_TABLE, with `need`, the version
committed when its lookup began. The field `loader` of an entry is history: who
reserved it, and once published whether its own loader did.

A step is one section inside the cache mutex. Lookup and put are cut after
`gcache_drain_locked`: commits bump the generation atomically without that
mutex, so it may change between the drain and the stamp. A commit is two steps,
`lt_transact` (rows change) and `vgraph_commit_notify`, and several commits
overlap because `lt_transact` leaves the transaction mutex. An entry may expire
at any time, any unused slot may be the least recently used, a snapshot may or
may not fit the byte budget. A transaction writes any graphs if one of them is
in RDF_QUAD, else one source table; what it wrote may also be unknown to the
notifier, which then bumps the generation. A table that several graphs are loaded
from is in the model one commit for each of them: the code notifies the cache of
them one by one, or bumps the generation when there are too many, and what is
claimed is about one graph at a time.

Left out: result slots, the weight table, the flags that let a commit skip the
notifier (taken as up), private loads, GRAPH_UNLOAD_TABLE, limits changed at run
time; `gcache_get` has no caller. The registry only grows in the model. In the code
it has room for 64 graphs and the oldest gives way to a new one
(`Wi/bif_graph.c:1315`); commits to its table then reach the cache no more, so that
`Fresh` is claimed only of graphs which are still registered.

### Runs

| Run | Instance | Shows |
|---|---|---|
| `graph_cache` | 2 queries, 2 slots, 2 registered tables written twice each, 2 commits at a time, a pending list of 1 | rows are never older than a commit that returned before the lookup, also when the list overflows |
| `graph_install` | 2 queries and a GRAPH_LOAD_TABLE, 1 slot for an RDF graph and a table | the same while a table is loaded and published beside the queries, for what queries load under their own reservation; a handle pins its entry; the host knows whether anything is cached; no reservation without a loader |
| `graph_install_fresh` | a query and a GRAPH_LOAD_TABLE | a violation: see Findings |

Two queries are the least with a waiter behind a loader, two slots the least
with an eviction beside an entry in use. A wait bound of 1 (`GCACHE_MAX_WAITS`)
and a pending list of 1 (`GCACHE_PENDING_MAX`) make both limits happen. The
bounds on commits and installs are on the environment; queries go on for ever,
so deadlock is checked. No liveness is claimed. `Fresh` speaks of entries put
by the thread that reserved them; what was put without a reservation is the
finding.

### Findings

`graph_install_fresh`: GRAPH_LOAD_TABLE (`Wi/bif_graph.c:8325-8378`) reads the
table without a reservation. A commit to a registered table after the read
queues an invalidation of the graph; `gcache_put` drains it first, finds nothing
to retire, and then stamps the entry with the current generation. Queries are
served the old rows until the next commit or expiry, though a commit "that wrote
only registered source tables retires exactly the graphs registered against
them". A reservation would have remembered the invalidation.

Seen on the way, without a run of its own: a query that waited
`GCACHE_MAX_WAITS` times is told `GRAPH_ERR_NOT_FOUND` so as to "build our own
copy", but `setup_algo_context` (`Wi/bif_graph.c:1532`) fails with that error
unless the caller is the loader. The model follows the code (`FailLookup`).

### Proofs

`TypeCorrect`, `HandlesPinnedCorrect`, `HostToldLiveCorrect`,
`ReservationsOwnedCorrect` and `FreshCorrect` hold for any finite sets of threads
and slots, any graphs, any length of the pending list and any number of commits
and installs. The argument has four stages. Each is an invariant that is inductive given the ones before
it, and has one lemma per action or per kind of action.

- `Cached` (module `GraphCacheSlots`): types, `Slots` (a slot is reserved or
  holds an entry, only an entry is used or on its way out, no entry is stamped
  ahead of the generation), `Commits` (what a commit under way has written is in
  the rows), with `HandlesPinned` and `HostToldLive`. The counting is done with
  the finite sets `Users(s)` and `Valid`: a step adds or removes one thread of the
  first, and removes a set of slots from the second.
- `Bounded` (module `GraphCacheSlots`): the bounds that `TypeOK` adds to the types.
  A thread's step changes no rows and leaves the cache mutex to itself or to nobody;
  it drains the pending list up to the generation, or leaves list and generation
  alone (`Modest`); it counts its waits only below their bound. A commit defers
  only what the list has room for. That a slot has no more handles than there are
  threads follows from `HandlesPinned`, and not from a bound.
- `Owned` (module `GraphCacheProofs`): a lookup finds a graph in one slot at most
  (`FoundOnce`), the thread that a reservation names is in its load
  (`LoadersLoad`), and queries only look up graphs that commits know of
  (`KeysKnown`). The last is what makes the third outcome of
  `vgraph_commit_reach`, do nothing, harmless.
- `Seen`: `Reads(s, v)` says that version `v` is in slot `s` or about to be put
  there by the thread that reserved it. If the entry is current, then `v` is as new
  as the last commit that returned, or the next drain is told of that commit; and
  it is as new as every query that has had its drain needs (`VersionsSeen`).
  `NeedsMet` carries this over to what queries have in hand. A reservation counts
  as long as no drain has marked it, so the invariant covers a commit at any point
  of a load. One that returns before the read is in the rows. One that returns
  later is on the pending list, and the drain that takes it from there marks the
  reservation or retires the entry; or it has moved the generation, and the entry
  is not found.

Assumptions: `Apart`, `NoneApart`, `FewThreads`, `Bounds`. The bound on commits is
a sum over all graphs, defined by recursion, about which nothing can be proved
here. `lt_transact` therefore also says what follows from it for each graph, that
its own commits are below the bound; TLC finds the same states with and without
that guard.

## CheckpointRecovery, DurableStore

### Correspondence

A page of a tree has a logical address and is stored at a physical one
(`Physical`, the macro `IT_DP_REMAP`). Durable state: `disk`, the checkpoint
remap pages `cpMap`, the free set's pages `cpFree`, the recovery file (`file`
its status, `saved` what it says) and the transaction `log`. In memory: the
commit-space remap `remap`, `cptRemap` (`dbs_cpt_remap`), the free set, dirty
buffers, rows of transactions that have not ended (`live`) and those the
checkpoint keeps `aside`. A death of the process (`Crash`) leaves the durable
part and clears the rest.

`Insert`, `Rollback`, `Split`, `Merge` and `ReplayRow` go through
`DeltaTargets`, the rule of `itc_delta_this_buffer` for where a changed page is
going to be written. `Flush` is a background write at any time. The checkpoint
is one action per durable write, in the order of `dbs_checkpoint`: buffers
flushed, recovery file truncated, status 0, contents, status 1, commit space
merged into the image (`cpt_neodisk_page`), pages moved back to their own
address (`cpt_unremap`), remap pages, page sets, recovery file removed,
uncommitted rows put back, log truncated. A restart is `Start`, then either
roll forward or `dbs_cpt_recov` page by page with its two renames.

`DurableStore` is the promise: rows that grow by whole transactions, while the
server is up, and that no death or restart changes. `Durable` states that
`CheckpointRecovery` implements it, with the rows a restart would bring back
(`Recoverable`) as the store.

Abstractions: a page holds a set of rows; replaying a row that is present
changes nothing; a write is either done or not. Left out: blobs, column pages,
the pages of the registry and of the extent maps, failed writes, extents
reallocated by the checkpoint's own metadata writes, a new log file begun by a
checkpoint. The checkpoint of a new database, which leaves its log alone
(`log_checkpoint` called with -1), comes before `Init`.

A full disk is left out as well. A change that finds no remap page is not made,
where the code ends the transaction or the server (`Wi/space.c:182`), and a split
takes a page of a tree extent only, where the code falls back on a remap extent
(`Wi/space.c:237`): `ExtentsApart` speaks of a database that has not come to that.

### Runs

| Run | Instance | Shows |
|---|---|---|
| `checkpoint_recovery` | 2 logical and 2 remap pages, 2 rows, 3 deaths | the running server shows the committed and the live rows, each once; no page is used twice or lost; the image changes only under a complete recovery file; refinement of `DurableStore` |
| `checkpoint_empty_file` | the same | a violation: see Findings |

Two logical pages are needed to split and to free one, two remap pages to run
out of them, two rows for a committed one beside a live one. Three deaths reach
a death in a recovery from a death in a recovery. Pages and rows are symmetric.
The restart goes on for ever, so deadlock is checked. `PagesAccounted` claims
that no remap page is lost only until `dbs_cpt_recov` has run: recovery restores
the free set of the file and does not give back every page.

### Findings

`checkpoint_empty_file`: `dbs_cpt_backup` truncates the recovery file
(`Wi/neodisk.c:1928`) before it writes status 0. After a death in between, the
read of the status fails and jumps past the test for it (`Wi/neodisk.c:1749`) to
where the file counts as complete; the recovery then has no registry to write
and the server cannot start, although image and log are whole.

### Proofs

`CheckpointProofs` proves everything the passing run checks, for any sets of
pages and rows and any number of deaths: `RowsExactCorrect`,
`PagesAccountedCorrect`, `ImageStableCorrect`, `TypeCorrect`, and the refinement
`DurableCorrect`. One invariant carries them all, `IInv`. A database has up to
three views of the same tree: the image (`cpMap`, `cpFree`), the recovery file
(`saved`) and memory (`remap`, `cptRemap`, `free`). None of the properties is
inductive, since each speaks of one view in some phases, and the next phase takes
the tree from another. `IInv` says of each view, in the phases that rely on it,

- `ImageMaps`, `SavedMaps`, `MemMaps`: no two tree pages share a physical page,
  and nothing that memory writes to is a page of the view a restart would use;
- `ImageRows`, `SavedRows`, `MemRows`: which rows the view shows, each on one
  page, and what of them is in the log only;
- `ImageAccounts`, `MemAccounts`: where the remap pages are;
- `Rewrites` and the clauses of a restart: that the half-written image and the
  recovery file agree, page by page, on what is done already, so that doing it
  again after a death changes nothing.

There is one lemma per action. The refinement needs of `IInv` that `Recoverable`
is `committed` in every phase; the steps then are those of `CommittedSteps`.
Assumptions: `ExtentsApart` (an extent holds tree pages or remap pages, not
both) and `MarksAreNoPages` (0 and `DP_DELETED` are no page addresses).

## TrxLife

### Correspondence

`lt[t]` has the fields of `lock_trx_t` that say who is inside: `status`,
`threads`, `lw`, `ack`, `vdb` (`lt_threads`, `lt_lw_threads`,
`lt_close_ack_threads`, `lt_vdb_threads`), `wait_end`, who sleeps in
`lt_wait_until_dead`, and `timeout`, whether `lt_timeout` is set. `pc[t]` is where the client's thread is, `then[t]` what it
does after a wait. `waiting_checkpoint` is `wi_waiting_checkpoint`, `cpt` the
checkpoint thread, `killer` whoever kills from outside: the lock reaper,
`lt_killall`, a cancelled connection. It takes transactions with a thread inside
and idle ones alike (`MayKill`); `alone` says that it took an idle one, for which
`lt_rollback_other` counts a thread of its own. `failed` names the `GPF_T1` that
the code has reached; nothing happens after it.

What runs inside `wi_txn_mtx` up to `LEAVE_TXN` or a semaphore wait is one
action. The functions that call each other inside it are operators
(`lt_ack_close`, `lt_transact`, `lt_restart`, `lt_ack_freeze_inner`, ...) which
all end in `Runs`, `Sleeps` or `Gpf`. `CHECK_TRX_DEAD` reads the status without
the mutex, so it is a step of its own before `lt_ack_freeze` or
`itc_bust_this_trx`. The checkpoint keeps the mutex from `cpt_rollback` to
`cpt_over` but for `lt_wait_until_dead` and `log_checkpoint` (`TxnFree`).

Abstractions: a transaction has one thread; one lock stands for all rows; a
commit passes through the part outside the mutex whether or not it has
something to log. Left out: branches of a multi-threaded transaction, the
server lock's atomic mode, `sf_overflow`, two-phase commit, the cluster,
`cli_transact` from outside a statement, a client that disconnects.

### Run

| Run | Instance | Shows |
|---|---|---|
| `trx_life` | 2 transactions, 1 checkpoint thread, 1 killer | one `GPF_T1` alone can be reached, in the circumstances below; no lock changes hands while the checkpoint is atomic; nobody sleeps past `cpt_over`; every checkpoint that overtakes no thawed thread ends |

Nothing is bounded but the number of transactions: clients, checkpoints and
kills go on for ever. Two transactions are the least with a lock wait, which with
a checkpoint and a killer gives every pair of closers. Deadlock is not checked:
the server may end by `GPF_T1`, and it may hang as said below; that a checkpoint
does not hang otherwise is `CheckpointEnds`. Fairness is weak, on each thread
that has to go on (`Continue`: a statement ends or meets a check), on the
checkpoint and on the killer, which is what the scheduler gives; clients need not
send statements.

### Two failures the properties make room for

The model takes both of these paths; the properties say that there is no other.

The reaper and `lt_killall` also end transactions that have locks and no thread
inside. `lt_rollback_other` (`Wi/lock.c:1258`) then counts one thread and
`lt_transact` leaves the mutex; when the client's next statement enters
meanwhile, `lt_threads_inc_inner` (`Wi/sqlfn.h:410`) ends the server with
"lt_threads not 0 in increment". `NoOtherGpf` says that a server that has ended
did so by this check, with a killer rolling back an idle transaction whose client
is just entering.

Nothing keeps a checkpoint from beginning while a thread thawed by the last
`cpt_over` has not run yet (`Overtakes`). The new checkpoint freezes that
transaction and waits for it; the thread wakes up inside `lt_ack_freeze_inner`,
sets itself pending without `lt_resume_waiting_end` and goes on. The checkpoint
sleeps until that transaction ends, and for ever if its thread leaves it open;
everybody who enters then waits for the checkpoint. `CheckpointEnds` is about the
behaviours in which no checkpoint overtakes a thread. The safety properties hold
in all.

Also seen: a kill between `cpt_over` and the wake-up is lost, since
`qi_check_trx_error` and `lt_check_error` set the status to pending whatever it
is and `lt_leave` does not look at it again; and a transaction that is frozen
when it asks for a lock is rolled back by `lock_live_deadlocks`
(`Wi/lock.c:1617`), not made to wait, though the comment in `lt_kill_other_trx`
has the freeze "acted on by resume of lock wait".

### Proofs

`TrxLifeProofs` proves, for every set of transactions:

- `AsleepCorrect`. The invariant is inductive as it stands; the work is in the
  many paths into `lt_wait_checkpoint_1`, each of which has to test the flag in the
  mutex section in which it goes to sleep (`Tame`, one lemma per operator);
- `NoOtherGpfCorrect`, `CheckpointQuietCorrect` and `TypeCorrect`.

The second group needs an inductive invariant, `IInv`, which is `NoOtherGpf` and a
table: for each place `pc[t]` that a thread can be at, `Fits` says what the four counts are
(`Idle`, `Inside`, `Acked`, `InWait`, `InVdb`), which status the transaction can
have there, who has the lock, whether the checkpoint can be atomic meanwhile, and
whether a killer can be in `lt_transact` of it, as one more closer (`Ends`) or
alone with a thread of its own (`EndsIdle`, only where the client is outside or
entering). Each `GPF_T1` but the one above is a combination that the row of its
place excludes. An operator that ends in `Runs`, `Sleeps` or
`Gpf` has a lemma that says in which row it leaves the thread, from which one it
starts (`...Moves`); an action has one that says it keeps every row
(`...Keeps`), for its own transaction, for the one that gets the lock from it and
for the others. Assumption: `NoTrxIsNone`, that no
transaction is the value which stands for none.

## What is proved and what is only model-checked

| Property | TLC | TLAPS |
|---|---|---|
| invariants and refinement of `Semaphore` | yes | yes |
| `FirstComeFirstServed` | yes | yes |
| `TypeOK`, `LockCompatible`, `QueueHasOwner`, `WaitsCounted`, `LocksReferenced`, `WokenOwns`, `WaitEdgesMatch`, `ClosingHasNoEdges`, `WaitGraphAcyclic` | yes | yes |
| `BlockersReachable` | yes | no: its inductive form needs an order on each queue's edges |
| `AsleepOnlyPending`, `NoOtherGpf`, `CheckpointQuiet`, `TypeOK` of `TrxLife` | yes | yes |
| invariants, `ImageStable` and refinement of `CheckpointRecovery` | yes | yes |
| `HandedEntryIsTaken`, `EveryWaitEnds`, `WriteWaitsEnd`, `CheckpointEnds` | yes | no (liveness is out of the prover's reach) |
| `Fresh`, `HandlesPinned`, `HostToldLive`, `ReservationsOwned` | yes | yes |
| `TypeOK` of `GraphCache` | yes | yes |
| `TypeOK`, `GateCounts`, `WaitersAwaited`, `EntersUnchanged`, `DeletedLeft`, `NoDeadlock` of `PageGate` | yes | yes |

## Plan

1. `GraphCache`: the weight table and the commit gate of `bif_graph.c`, whose
   property is that the gate is up while anything is cached or being loaded.
2. `TrxLife`: branches of one transaction, the global server lock and its atomic
   mode, two-phase commit.
3. `AsyncQueue`: workers, `aq_wait`, `aq_do_self`. Every request is run once and
   every wait for it ends.
4. `RwLock` on `CountingSemaphore`, with an abstract reader/writer lock that it
   implements; the `SEM_NO_ORDER` variant of `Semaphore`.
5. `CheckpointRecovery`: failed writes and the pages of extents and registry.
   `TwoPhase` on top of it.
6. `PageGate`: read-ahead and `pl_finalize_absent` decoys; cursors moved by a
   split.
7. `LockManager`: proof of `BlockersReachable`; branches of one transaction.

## Not modelled

The compilers (SQL, SPARQL), the query run time, row and column layouts,
indexing of text, geometry and XML, parsers and allocators are sequential code
whose correctness is about data, not about order. The HTTP server, the RPC
kernel and the client drivers are mostly input and output. The cluster is
replaced by stubs in this edition. Applications, samples and tests are not part
of the server. `PROJECT.json` lists each part with its sources and the reason.
