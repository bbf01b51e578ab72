------------------------- MODULE CheckpointRecovery -------------------------
(***************************************************************************)
(* How the database survives the death of its process: commit space,       *)
(* checkpoint, recovery file, transaction log and restart                  *)
(* (libsrc/Wi/space.c, neodisk.c, log.c, disk.c, extent.c).                *)
(*                                                                         *)
(* A page of a tree has a logical address and is stored at a physical one. *)
(* The last checkpoint's image is what the file holds through the          *)
(* checkpoint remap (cpMap on disk, cptRemap in memory); a page changed    *)
(* since then is stored elsewhere, through the commit-space remap (remap). *)
(* dbs_checkpoint makes the commit space the new image; while it overwrites*)
(* pages of the old one, a recovery file (.cpt) says where every page is.  *)
(*                                                                         *)
(* A page holds a set of row changes.  Replaying a change that is already  *)
(* there leaves the page as it is.  The process can die between any two    *)
(* durable writes; what was written survives, memory does not.             *)
(***************************************************************************)
EXTENDS Naturals

CONSTANTS
    Logical,        \* page addresses in index extents
    Remap,          \* page addresses in remap extents
    Row,            \* row changes
    None,           \* no entry in a remap table
    Deleted,        \* DP_DELETED
    MaxCrashes      \* how often the process dies

VARIABLES
    disk,       \* physical page -> the rows stored there
    cpMap,      \* the checkpoint remap pages
    cpFree,     \* the free set's pages
    file,       \* the recovery file: "absent", "empty", "begun" (status 0), "complete" (status 1)
    saved,      \* what the recovery file says: remap table and free set
    log,        \* the rows of the transactions in the transaction log
    phase,      \* what the process is doing
    remap,      \* itm_remap, all trees
    cptRemap,   \* dbs_cpt_remap
    free,       \* dbs_free_set
    dirty,      \* logical pages whose buffer differs from the physical page
    buf,        \* the contents of the dirty buffers
    live,       \* rows of transactions that have not ended
    aside,      \* rows the checkpoint has taken off their pages
    todo,       \* pages dbs_cpt_recov has still to process
    committed,  \* history: rows of transactions whose commit was acknowledged
    recovered,  \* history: dbs_cpt_recov applied a recovery file
    crashes

durable == <<disk, cpMap, cpFree, file, saved, log>>
memory == <<remap, cptRemap, free, dirty, buf, live, aside, todo>>
history == <<committed, recovered, crashes>>
vars == <<durable, phase, memory, history>>

Page == Logical \cup Remap

\* An extent is of one kind; 0 and DP_DELETED are no page addresses.
ASSUME ExtentsApart == Logical \cap Remap = {}
ASSUME MarksAreNoPages == None # Deleted /\ None \notin Page /\ Deleted \notin Page

NoRemap == [l \in Logical |-> None]

NoBackup == [map |-> NoRemap, free |-> {}]

\* A database after its first checkpoint: one page in the tree, no rows.
Init ==
    /\ disk = [p \in Page |-> {}]
    /\ cpMap = NoRemap
    /\ cpFree \in {Page \ {l} : l \in Logical}
    /\ file = "absent"
    /\ saved = NoBackup
    /\ log = {}
    /\ phase = "up"
    /\ remap = NoRemap
    /\ cptRemap = cpMap
    /\ free = cpFree
    /\ dirty = {}
    /\ buf = [l \in Logical |-> {}]
    /\ live = {}
    /\ aside = {}
    /\ todo = {}
    /\ committed = {}
    /\ recovered = FALSE
    /\ crashes = 0

-----------------------------------------------------------------------------
(* Reading and changing pages *)

\* IT_DP_REMAP: commit space first, then the checkpoint remap, then the page.
Physical(l) ==
    IF remap[l] # None THEN remap[l]
    ELSE IF cptRemap[l] # None THEN cptRemap[l] ELSE l

InTree(l) == l \notin free /\ remap[l] # Deleted

Tree == {l \in Logical : InTree(l)}

Contents(l) == IF l \in dirty THEN buf[l] ELSE disk[Physical(l)]

\* Variant: an update always goes to the page's own address.
DeltaInPlace(l) ==
    IF remap[l] # None THEN {remap[l]} ELSE {l}

\* itc_delta_this_buffer: the page an update of l is going to be written to.
\* A page the checkpoint stores elsewhere is written at its own address, a
\* page the checkpoint stores there gets a new one.
DeltaTargets(l) ==
    IF remap[l] # None THEN {remap[l]}
    ELSE IF cptRemap[l] # None THEN {l} ELSE free \cap Remap

\* Change the buffers of the pages in DOMAIN new, each to new[l].
Change(new, target) ==
    /\ dirty' = dirty \cup DOMAIN new
    /\ buf' = [l \in Logical |-> IF l \in DOMAIN new THEN new[l] ELSE buf[l]]
    /\ remap' = [l \in Logical |-> IF l \in DOMAIN new THEN target[l] ELSE remap[l]]

\* A row is put on a page of the tree.
Put(r, l) ==
    \E p \in DeltaTargets(l) :
        /\ Change([k \in {l} |-> Contents(l) \cup {r}], [k \in {l} |-> p])
        /\ free' = free \ {p}

Running == phase \in {"up", "replay"}

Insert(r, l) ==
    /\ phase = "up"
    /\ r \notin committed \cup live
    /\ Put(r, l)
    /\ live' = live \cup {r}
    /\ UNCHANGED <<durable, phase, cptRemap, aside, todo, history>>

\* A row of a transaction that is rolled back is taken off its page.
Rollback(r, l) ==
    /\ phase = "up"
    /\ r \in live \cap Contents(l)
    /\ \E p \in DeltaTargets(l) :
          /\ Change([k \in {l} |-> Contents(l) \ {r}], [k \in {l} |-> p])
          /\ free' = free \ {p}
    /\ live' = live \ {r}
    /\ UNCHANGED <<durable, phase, cptRemap, aside, todo, history>>

\* it_new_page for a split: some of l's rows go to a new page.
Split(l, n, rows) ==
    /\ Running
    /\ n \in free
    /\ rows \notin {{}, Contents(l)}
    /\ \E p \in DeltaTargets(l) :
          /\ Change([k \in {l, n} |-> IF k = n THEN rows ELSE Contents(l) \ rows],
                    [k \in {l, n} |-> IF k = n THEN n ELSE p])
          /\ free' = free \ {p, n}
    /\ UNCHANGED <<durable, phase, cptRemap, live, aside, todo, history>>

\* IS_NEW_BUFFER: created since the checkpoint.
IsNew(l) == remap[l] = l /\ cptRemap[l] = None

\* it_free_page and it_free_remap: what freeing page l gives back.
FreedPages(l) ==
    IF remap[l] \in Remap THEN {remap[l]}
    ELSE IF IsNew(l) THEN {l} ELSE {}

\* A page is emptied into another and freed.  (The remap page that the emptying
\* may take for l is given back at once.)
Merge(l, m) ==
    /\ Running
    /\ l # m
    /\ \E p \in DeltaTargets(m) :
          /\ dirty' = (dirty \cup {m}) \ {l}
          /\ buf' = [buf EXCEPT ![m] = Contents(m) \cup Contents(l), ![l] = {}]
          /\ remap' = [remap EXCEPT ![m] = p, ![l] = IF IsNew(l) THEN None ELSE Deleted]
          /\ free' = (free \ {p}) \cup FreedPages(l)
    /\ UNCHANGED <<durable, phase, cptRemap, live, aside, todo, history>>

\* lt_commit and log_commit: the transaction's record is in the log before the
\* client hears of the commit.
Commit(rows) ==
    /\ phase = "up"
    /\ log' = log \cup rows
    /\ committed' = committed \cup rows
    /\ live' = live \ rows
    /\ UNCHANGED <<disk, cpMap, cpFree, file, saved, phase, remap, cptRemap, free,
                   dirty, buf, aside, todo, recovered, crashes>>

\* buf_disk_write: a dirty buffer goes to its physical page, at any time.
Flush(l) ==
    /\ phase # "down"
    /\ disk' = [disk EXCEPT ![Physical(l)] = buf[l]]
    /\ dirty' = dirty \ {l}
    /\ buf' = [buf EXCEPT ![l] = {}]
    /\ UNCHANGED <<cpMap, cpFree, file, saved, log, phase, remap, cptRemap, free,
                   live, aside, todo, history>>

-----------------------------------------------------------------------------
(* dbs_checkpoint *)

Goto(p, q) ==
    /\ phase = p
    /\ phase' = q

\* cpt_rollback and cpt_uncommitted: every transaction stands still and the rows
\* of those that have not ended are taken off their pages and kept aside.
cpt_uncommitted ==
    /\ Goto("up", "flushing")
    /\ LET holds == {l \in Tree : Contents(l) \cap live # {}}
       IN  Change([l \in holds |-> Contents(l) \ live], remap)
    /\ aside' = live
    /\ UNCHANGED <<durable, cptRemap, free, live, todo, history>>

\* dbs_cpt_backup opens and truncates the recovery file once bp_flush_all and
\* dbs_sync_disks have written every buffer to its commit-space page.
CptOpen ==
    /\ Goto("flushing", "opened")
    /\ dirty = {}
    /\ file' = "empty" /\ saved' = NoBackup
    /\ UNCHANGED <<disk, cpMap, cpFree, log, memory, history>>

\* Variant: the status says complete from the start.
CptBeginComplete ==
    /\ Goto("opened", "begun")
    /\ file' = "complete"
    /\ UNCHANGED <<disk, cpMap, cpFree, saved, log, memory, history>>

\* It writes status 0.
CptBegin ==
    /\ Goto("opened", "begun")
    /\ file' = "begun"
    /\ UNCHANGED <<disk, cpMap, cpFree, saved, log, memory, history>>

\* It writes the page sets, the commit-space remaps and those checkpoint remaps
\* that no commit-space remap replaces.
BackupMap == [l \in Logical |-> IF remap[l] # None THEN remap[l] ELSE cptRemap[l]]

CptContent ==
    /\ Goto("begun", "backed")
    /\ saved' = [map |-> BackupMap, free |-> free]
    /\ UNCHANGED <<disk, cpMap, cpFree, file, log, memory, history>>

\* It writes status 1.
CptMark ==
    /\ Goto("backed", "marked")
    /\ file' = "complete"
    /\ UNCHANGED <<disk, cpMap, cpFree, saved, log, memory, history>>

\* Variant: the old remap of a page rewritten at its own address is kept.
SupersededKept(l) ==
    IF remap[l] = Deleted THEN {l, cptRemap[l]} ELSE {}

\* cpt_neodisk_page: the pages that are free once l's commit-space remap is in
\* the checkpoint.  (No buffer is dirty: it takes no other branch.)
Superseded(l) ==
    IF remap[l] = Deleted THEN {l, cptRemap[l]}
    ELSE IF remap[l] = l THEN {cptRemap[l]} ELSE {}

\* Variant: an entry of the remap table that is not there is freed too.
FreesNone ==
    /\ Goto("marked", "merged")
    /\ cptRemap' = [l \in Logical |->
                       IF remap[l] = None THEN cptRemap[l]
                       ELSE IF remap[l] \in Remap THEN remap[l] ELSE None]
    /\ free' = free \cup UNION {Superseded(l) : l \in Logical}
    /\ remap' = NoRemap
    /\ UNCHANGED <<durable, dirty, buf, live, aside, todo, history>>

cpt_neodisk_page ==
    /\ Goto("marked", "merged")
    /\ cptRemap' = [l \in Logical |->
                       IF remap[l] = None THEN cptRemap[l]
                       ELSE IF remap[l] \in Remap THEN remap[l] ELSE None]
    /\ free' = (free \cup UNION {Superseded(l) : l \in Logical}) \ {None}
    /\ remap' = NoRemap
    /\ UNCHANGED <<durable, dirty, buf, live, aside, todo, history>>

\* cpt_unremap and buf_unremap: some pages go back to their own address.
cpt_unremap(S) ==
    /\ Goto("merged", "unremapped")
    /\ dirty' = S
    /\ buf' = [l \in Logical |-> IF l \in S THEN Contents(l) ELSE {}]
    /\ free' = free \cup {cptRemap[l] : l \in S}
    /\ cptRemap' = [l \in Logical |-> IF l \in S THEN None ELSE cptRemap[l]]
    /\ UNCHANGED <<durable, remap, live, aside, todo, history>>

\* cpt_write_remap, after bp_flush_all.
cpt_write_remap ==
    /\ Goto("unremapped", "remapped")
    /\ dirty = {}
    /\ cpMap' = cptRemap
    /\ UNCHANGED <<disk, cpFree, file, saved, log, memory, history>>

\* dbs_write_page_set of the free set; registry, extents and configuration page
\* go with it.
CptWriteSets ==
    /\ Goto("remapped", "written")
    /\ cpFree' = free
    /\ UNCHANGED <<disk, cpMap, file, saved, log, memory, history>>

\* The image is complete and synced: the recovery file goes.
CptUnlink ==
    /\ Goto("written", "restoring")
    /\ file' = "absent" /\ saved' = NoBackup
    /\ UNCHANGED <<disk, cpMap, cpFree, log, memory, history>>

\* cpt_restore_uncommitted: a row kept aside goes back into the tree.
CptRestoreRow(r, l) ==
    /\ phase = "restoring"
    /\ Put(r, l)
    /\ aside' = aside \ {r}
    /\ UNCHANGED <<durable, phase, cptRemap, live, todo, history>>

\* Variant: rows kept aside are forgotten.
CheckpointForgets ==
    /\ Goto("restoring", "up")
    /\ log' = {}
    /\ aside' = {}
    /\ UNCHANGED <<disk, cpMap, cpFree, file, saved, remap, cptRemap, free, dirty,
                   buf, live, todo, history>>

\* log_checkpoint: the transaction log starts again from nothing.  The checkpoint of a
\* new database, which keeps its log, is over before Init.
log_checkpoint ==
    /\ Goto("restoring", "up")
    /\ aside = {}
    /\ log' = {}
    /\ UNCHANGED <<disk, cpMap, cpFree, file, saved, memory, history>>

-----------------------------------------------------------------------------
(* Death and restart *)

Crash ==
    /\ phase # "down"
    /\ crashes < MaxCrashes
    /\ phase' = "down"
    /\ crashes' = crashes + 1
    /\ remap' = NoRemap /\ cptRemap' = NoRemap /\ free' = {}
    /\ dirty' = {} /\ buf' = [l \in Logical |-> {}]
    /\ live' = {} /\ aside' = {} /\ todo' = {}
    /\ UNCHANGED <<durable, committed, recovered>>

\* dbs_from_file reads the checkpoint's page sets and remap; dbs_cpt_recov looks
\* at the recovery file.  Status 0 sends it to the transaction log.  An empty
\* file does not: the failed read of the status jumps past the test for it, to
\* where the file counts as complete.  From a complete file it first restores
\* the page sets.
Start ==
    /\ phase = "down"
    /\ cptRemap' = cpMap
    /\ cpFree' = IF file = "complete" THEN saved.free ELSE cpFree
    /\ free' = cpFree'
    /\ phase' = CASE file \in {"empty", "complete"} -> "recovering"
                  [] file = "begun" -> "renaming"
                  [] file = "absent" -> "replay"
    /\ todo' = IF file = "complete" THEN {l \in Logical : saved.map[l] # None} ELSE {}
    /\ UNCHANGED <<disk, cpMap, file, saved, log, remap, dirty, buf, live, aside, history>>

\* An incomplete recovery file is moved away, the log is not.
RecovIgnored ==
    /\ Goto("renaming", "replay")
    /\ file' = "absent" /\ saved' = NoBackup
    /\ UNCHANGED <<disk, cpMap, cpFree, log, memory, history>>

\* With an empty file there is no registry to write: dbs_registry_to_array reads
\* through a null pointer and the process dies.
RecovNoRegistry ==
    /\ Goto("recovering", "down")
    /\ file = "empty"
    /\ cptRemap' = NoRemap /\ free' = {}
    /\ UNCHANGED <<durable, remap, dirty, buf, live, aside, todo, history>>

\* dbs_cpt_recov copies a page to its own address, or frees a deleted one.
RecovPage(l) ==
    /\ phase = "recovering"
    /\ LET p == saved.map[l]
       IN  /\ disk' = IF p \in Remap THEN [disk EXCEPT ![l] = disk[p]] ELSE disk
           /\ free' = free \cup (IF p = Deleted THEN {l} ELSE {p} \cap Remap)
    /\ todo' = todo \ {l}
    /\ UNCHANGED <<cpMap, cpFree, file, saved, log, phase, remap, cptRemap, dirty,
                   buf, live, aside, history>>

\* It writes registry, extents and page sets,
RecovWriteSets ==
    /\ Goto("recovering", "recovered")
    /\ file = "complete"
    /\ todo = {}
    /\ cpFree' = free
    /\ UNCHANGED <<disk, cpMap, file, saved, log, memory, history>>

\* then an empty checkpoint remap,
RecovWriteRemap ==
    /\ Goto("recovered", "remapless")
    /\ cptRemap' = NoRemap
    /\ cpMap' = NoRemap
    /\ UNCHANGED <<disk, cpFree, file, saved, log, remap, free, dirty, buf, live,
                   aside, todo, history>>

\* moves the recovery file away,
RecovRename ==
    /\ Goto("remapless", "logged")
    /\ file' = "absent" /\ saved' = NoBackup
    /\ recovered' = TRUE
    /\ UNCHANGED <<disk, cpMap, cpFree, log, memory, committed, crashes>>

\* and then the transaction log.
RecovRenameLog ==
    /\ Goto("logged", "replay")
    /\ log' = {}
    /\ UNCHANGED <<disk, cpMap, cpFree, file, saved, memory, history>>

Present == UNION {Contents(l) : l \in Tree}

\* log_replay_trx: a change in the log that the tree does not show is made again.
ReplayRow(r, l) ==
    /\ phase = "replay"
    /\ r \notin Present
    /\ Put(r, l)
    /\ UNCHANGED <<durable, phase, cptRemap, live, aside, todo, history>>

\* log_init: roll forward is complete, the log stays and grows.
ReplayDone ==
    /\ Goto("replay", "up")
    /\ log \subseteq Present
    /\ UNCHANGED <<durable, memory, history>>

-----------------------------------------------------------------------------
Work ==
    \/ \E r \in Row, l \in Tree : Insert(r, l) \/ Rollback(r, l)
    \/ \E l \in Tree, n \in Logical :
          \/ \E rows \in SUBSET Contents(l) : Split(l, n, rows)
          \/ n \in Tree /\ Merge(l, n)
    \/ \E rows \in SUBSET live \ {{}} : Commit(rows)
    \/ \E l \in dirty : Flush(l)

Checkpoint ==
    \/ cpt_uncommitted \/ CptOpen \/ CptBegin \/ CptContent \/ CptMark
    \/ cpt_neodisk_page
    \/ \E S \in SUBSET {l \in Logical : cptRemap[l] # None} : cpt_unremap(S)
    \/ cpt_write_remap \/ CptWriteSets \/ CptUnlink
    \/ \E r \in aside, l \in Tree : CptRestoreRow(r, l)
    \/ log_checkpoint

Restart ==
    \/ Start \/ RecovIgnored \/ RecovNoRegistry
    \/ \E l \in todo : RecovPage(l)
    \/ RecovWriteSets \/ RecovWriteRemap \/ RecovRename \/ RecovRenameLog
    \/ \E r \in log, l \in Tree : ReplayRow(r, l)
    \/ ReplayDone

Next == Work \/ Checkpoint \/ Crash \/ Restart

Spec == Init /\ [][Next]_vars

-----------------------------------------------------------------------------
(* Properties *)

(* Every variable holds what the fields it stands for can hold. *)
TypeOK ==
    /\ disk \in [Page -> SUBSET Row]
    /\ cpMap \in [Logical -> Remap \cup {None}]
    /\ file \in {"absent", "empty", "begun", "complete"}
    /\ saved.map \in [Logical -> Page \cup {None, Deleted}]
    /\ remap \in [Logical -> Page \cup {None, Deleted}]
    /\ cptRemap \in [Logical -> Remap \cup {None}]
    /\ buf \in [Logical -> SUBSET Row]
    /\ dirty \subseteq Logical
    /\ cpFree \cup free \cup saved.free \subseteq Page
    /\ log \cup live \cup aside \cup committed \subseteq Row
    /\ todo \subseteq Logical

(* While the server runs, its tree shows the rows of all committed           *)
(* transactions, those of the live ones and no other, each on one page: after *)
(* any number of deaths in dbs_checkpoint, dbs_cpt_recov or roll forward, and *)
(* after the checkpoint took uncommitted rows off the pages and put them back.*)
RowsExact ==
    phase = "up" =>
        /\ Present = committed \cup live
        /\ \A l, m \in Tree : l # m => Contents(l) \cap Contents(m) = {}

Used == {remap[l] : l \in Logical} \cup {cptRemap[l] : l \in Logical}

ImageAddress(l) == IF cpMap[l] # None THEN cpMap[l] ELSE l

(* While the server runs, the free set offers no page that the commit space   *)
(* or the image on disk still uses, no two pages of the tree share a physical *)
(* page, and, until dbs_cpt_recov has run, no remap page is lost to both.     *)
PagesAccounted ==
    phase = "up" =>
        /\ free \cap (Used \cup {ImageAddress(l) : l \in Logical \ cpFree}) = {}
        /\ \A l, m \in Tree : l # m => Physical(l) # Physical(m)
        /\ ~recovered => Remap \subseteq free \cup Used

\* What page l is in the image on disk.
ImagePage(l) == IF l \in cpFree THEN None ELSE disk[ImageAddress(l)]

(* The image of the last checkpoint changes only while a complete recovery    *)
(* file stands in for it: no update, split, page free, background write,      *)
(* roll forward or early step of a checkpoint touches a page of it.           *)
ImageStable ==
    [][file # "complete" => \A l \in Logical : ImagePage(l)' = ImagePage(l)]_vars

\* The rows that a restart brings back: from the recovery file if it is
\* complete, otherwise from the image and the log.
Recoverable ==
    IF file = "complete"
    THEN UNION {disk[IF saved.map[l] = None THEN l ELSE saved.map[l]] :
                   l \in {k \in Logical \ saved.free : saved.map[k] # Deleted}}
    ELSE log \cup UNION {disk[ImageAddress(l)] : l \in Logical \ cpFree}

DS == INSTANCE DurableStore WITH store <- Recoverable, up <- phase = "up"

(* The storage layer keeps its promise: what a restart brings back changes    *)
(* only by the commit of a transaction, by all of its rows at once, whatever  *)
(* step of a checkpoint, a recovery or a background write happens.            *)
Durable == DS!Spec

(* A recovery file that was not completed is never the source of a recovery:  *)
(* dbs_cpt_recov ignores it and rolls forward from the log.                   *)
IncompleteIgnored == phase = "recovering" => file = "complete"
=============================================================================
