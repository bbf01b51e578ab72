-------------------------- MODULE CheckpointProofs --------------------------
(***************************************************************************)
(* The properties of module CheckpointRecovery, for every set of pages and *)
(* rows and any number of process deaths.                                  *)
(*                                                                         *)
(* A database in this model has up to three views of the same tree: the    *)
(* image (cpMap, cpFree), the recovery file (saved) and memory (remap,     *)
(* cptRemap, free).  The inductive invariant says of each view, in the     *)
(* phases where the code relies on it, that no two tree pages share a      *)
(* physical page, that no view writes over a page of the one a restart     *)
(* would use, and which rows the view shows.                               *)
(***************************************************************************)
EXTENDS CheckpointRecovery, TLAPS

Phases == {"up", "flushing", "opened", "begun", "backed", "marked", "merged",
           "unremapped", "remapped", "written", "restoring", "down", "renaming",
           "recovering", "recovered", "remapless", "logged", "replay"}

\* The commit space is on top of an image that a restart would use.
Working == {"up", "replay", "flushing", "opened", "begun", "backed", "restoring"}

\* The checkpoint rewrites the image; the recovery file stands in for it.
Rewriting == {"merged", "unremapped", "remapped", "written"}

\* dbs_cpt_recov applies the recovery file.
Recovering == {"recovering", "recovered", "remapless"}

Types ==
    /\ TypeOK
    /\ saved \in [map : [Logical -> Page \cup {None, Deleted}], free : SUBSET Page]
    /\ phase \in Phases

-----------------------------------------------------------------------------
(* The image *)

\* The image stores no two pages at one address, and no page at a free one.
ImageMaps ==
    /\ \A l \in Logical : cpMap[l] # None => l \notin cpFree /\ cpMap[l] \notin cpFree
    /\ \A l, m \in Logical : cpMap[l] # None /\ cpMap[l] = cpMap[m] => l = m

\* The image and the log have the committed rows, the image each on one page.
ImageRows ==
    /\ log \subseteq committed
    /\ \A l \in Logical \ cpFree : disk[ImageAddress(l)] \subseteq committed
    /\ \A l, m \in Logical \ cpFree :
          l # m => disk[ImageAddress(l)] \cap disk[ImageAddress(m)] = {}
    /\ \A r \in committed \ log : \E l \in Logical \ cpFree : r \in disk[ImageAddress(l)]

\* The image has the committed rows without the log.
ImageComplete ==
    \A r \in committed : \E l \in Logical \ cpFree : r \in disk[ImageAddress(l)]

\* Until dbs_cpt_recov has run, a remap page is free or in the image.
ImageAccounts ==
    ~recovered => \A p \in Remap : p \in cpFree \/ \E l \in Logical : cpMap[l] = p

-----------------------------------------------------------------------------
(* The recovery file *)

InSaved(l) == l \notin saved.free /\ saved.map[l] # Deleted

SavedAddress(l) == IF saved.map[l] = None THEN l ELSE saved.map[l]

SavedMaps ==
    /\ \A l \in Logical : saved.map[l] \in Remap \cup {l, None, Deleted}
    /\ \A l, m \in Logical : saved.map[l] \in Remap /\ saved.map[l] = saved.map[m] => l = m
    /\ \A l \in Logical : l \in saved.free => saved.map[l] = None
    /\ \A l \in Logical : saved.map[l] \notin saved.free

SavedRows ==
    /\ log \subseteq committed
    /\ \A l \in Logical : InSaved(l) => disk[SavedAddress(l)] \subseteq committed
    /\ \A l, m \in Logical : InSaved(l) /\ InSaved(m) /\ l # m =>
          disk[SavedAddress(l)] \cap disk[SavedAddress(m)] = {}
    /\ \A r \in committed : \E l \in Logical : InSaved(l) /\ r \in disk[SavedAddress(l)]

-----------------------------------------------------------------------------
(* The commit space *)

\* An entry of the commit space names a page that is neither free, nor the
\* image's, nor another entry's; the free set and the image's differ by what the
\* commit space knows.
MemMaps ==
    /\ cptRemap = cpMap
    /\ \A l \in Logical :
          /\ remap[l] \in Remap \cup {l, None, Deleted}
          /\ remap[l] = l => l \in cpFree \/ cpMap[l] # None
          /\ remap[l] \in Remap => cpMap[l] = None
          /\ remap[l] \notin free
          /\ cpMap[l] \notin free
          /\ l \in free => remap[l] = None /\ l \in cpFree
          /\ l \in cpFree /\ l \notin free => remap[l] = l
          /\ remap[l] = Deleted => l \notin cpFree
          /\ l \in dirty => remap[l] \in Page
    /\ \A l, m \in Logical :
          remap[l] \in Remap => remap[l] # cpMap[m] /\ (remap[l] = remap[m] => l = m)

MemAccounts ==
    ~recovered => \A p \in Remap : p \in free \/ \E l \in Logical : p \in {remap[l], cptRemap[l]}

\* No row is on two pages of the tree.
RowsApart ==
    \A l, m \in Logical :
        InTree(l) /\ InTree(m) /\ l # m => Contents(l) \cap Contents(m) = {}

\* The rows of the tree are those in S.
Shows(S) ==
    /\ \A l \in Logical : InTree(l) => Contents(l) \subseteq S
    /\ \A r \in S : \E l \in Logical : InTree(l) /\ r \in Contents(l)

\* During roll forward, what the tree does not show yet is in the log.
Replaying ==
    /\ \A l \in Logical : InTree(l) => Contents(l) \subseteq committed
    /\ \A r \in committed \ log : \E l \in Logical : InTree(l) /\ r \in Contents(l)

MemRows ==
    /\ RowsApart
    /\ live \cap committed = {}
    /\ aside \subseteq live
    /\ IF phase = "replay" THEN Replaying ELSE Shows(committed \cup (live \ aside))
    /\ phase = "replay" => live = {}
    /\ phase \in {"up", "replay"} => aside = {}
    /\ phase \in {"flushing", "opened", "begun", "backed", "marked"} => aside = live
    /\ phase \in {"opened", "begun", "backed", "marked"} => dirty = {}
    /\ phase = "restoring" => ImageComplete

-----------------------------------------------------------------------------
(* The later steps of a checkpoint, and a restart *)

\* The new checkpoint's free set and remap agree with the recovery file, and a
\* page shows what the recovery file has.
Rewrites ==
    /\ remap = NoRemap
    /\ aside = live /\ live \cap committed = {}
    /\ \A l \in Logical :
          /\ l \in free <=> ~InSaved(l)
          /\ cptRemap[l] \in {None, saved.map[l]} /\ cptRemap[l] \notin free
          /\ l \in dirty => cptRemap[l] = None /\ saved.map[l] \in Remap
          /\ InSaved(l) => Contents(l) = disk[SavedAddress(l)]
    /\ MemAccounts
    /\ phase # "unremapped" => dirty = {}
    /\ phase \in {"remapped", "written"} => cpMap = cptRemap
    /\ phase = "written" => cpFree = free

\* dbs_cpt_recov has brought the pages not in todo to their own address.
Recovers ==
    /\ remap = NoRemap
    /\ dirty = {}
    /\ \A l \in Logical :
          /\ l \in todo => saved.map[l] # None
          /\ l \in free <=> l \in saved.free \/ (saved.map[l] = Deleted /\ l \notin todo)
          /\ InSaved(l) /\ l \notin todo => disk[l] = disk[SavedAddress(l)]
    /\ live = {} /\ aside = {}
    /\ phase \in {"recovered", "remapless"} => todo = {} /\ cpFree = free
    /\ phase = "remapless" => cptRemap = NoRemap /\ cpMap = NoRemap

\* Memory right after dbs_from_file.
Fresh ==
    /\ remap = NoRemap /\ cptRemap = cpMap /\ free = cpFree
    /\ dirty = {} /\ live = {} /\ aside = {} /\ todo = {}

\* Memory of a process that is dead.
Lost ==
    /\ remap = NoRemap /\ dirty = {} /\ live = {} /\ aside = {}

PhaseOK ==
    /\ phase \in Working => file # "complete" /\ MemMaps /\ MemRows /\ MemAccounts
    /\ phase = "marked" => file = "complete" /\ ImageMaps /\ MemMaps /\ MemRows /\ MemAccounts
    /\ phase \in {"backed", "marked"} => saved = [map |-> BackupMap, free |-> free]
    /\ phase \in Rewriting => file = "complete" /\ Rewrites
    /\ phase \in {"recovered", "remapless"} => file = "complete"
    /\ phase \in Recovering /\ file = "complete" => Recovers
    /\ phase = "recovering" /\ file # "complete" => Fresh
    /\ phase \in {"renaming", "logged"} => file # "complete" /\ Fresh
    /\ phase = "logged" => ImageComplete
    /\ phase = "down" => Lost

IInv ==
    /\ Types
    /\ file # "complete" => ImageMaps /\ ImageRows /\ ImageAccounts
    /\ file = "complete" => SavedMaps /\ SavedRows
    /\ PhaseOK
-----------------------------------------------------------------------------
(* Facts about the views *)

(* A database after its first checkpoint is in order. *)
LEMMA InitIInv == Init => IInv
<1> SUFFICES ASSUME Init PROVE IInv
  OBVIOUS
<1> USE ExtentsApart, MarksAreNoPages DEF Init, Page, NoRemap, NoBackup
<1>1. Types
  BY Zenon DEF Types, TypeOK, Phases
<1>2. ImageMaps /\ ImageRows /\ ImageAccounts
  BY Zenon DEF ImageMaps, ImageRows, ImageAccounts, ImageAddress
<1>3. MemMaps /\ MemAccounts
  BY Zenon DEF MemMaps, MemAccounts
<1>4. MemRows
  BY Zenon DEF MemRows, RowsApart, Shows, Contents, InTree, Physical
<1>5. PhaseOK
  BY Zenon, <1>3, <1>4 DEF PhaseOK, Working, Rewriting, Recovering
<1>6. QED
  BY Zenon, <1>1, <1>2, <1>5 DEF IInv

(* Where the pages of the tree are: at pairwise different addresses, a dirty *)
(* one away from the image, an unchanged one where the image has it.         *)
LEMMA TreeFacts ==
  ASSUME Types, ImageMaps, MemMaps
  PROVE  /\ \A l \in Logical : InTree(l) => Physical(l) \in Remap \cup {l}
         /\ \A l, m \in Logical :
              InTree(l) /\ InTree(m) /\ l # m => Physical(l) # Physical(m)
         /\ \A l \in dirty : InTree(l) /\ Physical(l) = remap[l] /\ remap[l] \in Page
         /\ \A l \in Logical : InTree(l) /\ remap[l] = None =>
              l \notin cpFree /\ Physical(l) = ImageAddress(l) /\ l \notin dirty
         /\ \A l \in dirty, m \in Logical \ cpFree : Physical(l) # ImageAddress(m)
<1> USE ExtentsApart, MarksAreNoPages DEF Types, TypeOK, Page
<1>1. ASSUME NEW l \in Logical, InTree(l) PROVE Physical(l) \in Remap \cup {l}
  BY Zenon, <1>1 DEF MemMaps, InTree, Physical
<1>2. ASSUME NEW l \in Logical, NEW m \in Logical, InTree(l), InTree(m), l # m
      PROVE  Physical(l) # Physical(m)
  BY <1>1, <1>2 DEF MemMaps, ImageMaps, InTree, Physical
<1>3. ASSUME NEW l \in dirty
      PROVE  InTree(l) /\ Physical(l) = remap[l] /\ remap[l] \in Page
  BY DEF MemMaps, InTree, Physical
<1>4. ASSUME NEW l \in Logical, InTree(l), remap[l] = None
      PROVE  l \notin cpFree /\ Physical(l) = ImageAddress(l) /\ l \notin dirty
  BY <1>4 DEF MemMaps, InTree, Physical, ImageAddress
<1>5. ASSUME NEW l \in dirty, NEW m \in Logical \ cpFree
      PROVE  Physical(l) # ImageAddress(m)
  BY <1>3, <1>5 DEF MemMaps, ImageAddress
<1>6. QED
  BY Zenon, <1>1, <1>2, <1>3, <1>4, <1>5

-----------------------------------------------------------------------------
(* Changes of the commit space *)

(* itc_delta_this_buffer: giving page l of the tree the address p of          *)
(* DeltaTargets(l) keeps the commit space in order.                           *)
LEMMA DeltaMaps ==
  ASSUME Types, ImageMaps, MemMaps, MemAccounts,
         NEW l \in Logical, InTree(l), NEW p \in DeltaTargets(l),
         UNCHANGED <<cpMap, cpFree, cptRemap, recovered>>,
         remap' = [k \in Logical |-> IF k = l THEN p ELSE remap[k]],
         free' = free \ {p},
         dirty' = dirty \cup {l}
  PROVE  MemMaps' /\ MemAccounts'
<1> USE ExtentsApart, MarksAreNoPages DEF Types, TypeOK, Page
<1>1. /\ p \in Remap \cup {l}
      /\ p \in {remap[l], l} \/ p \in free
      /\ p = l => l \in cpFree \/ cpMap[l] # None
      /\ p \in Remap => cpMap[l] = None
      /\ \A m \in Logical : p \in Remap => p # cpMap[m] /\ (p = remap[m] => l = m)
      /\ l \notin free
  BY DEF MemMaps, DeltaTargets, InTree
<1>2. cptRemap' = cpMap'
  BY Zenon DEF MemMaps
<1>3. ASSUME NEW k \in Logical
      PROVE  /\ remap'[k] \in Remap \cup {k, None, Deleted}
             /\ remap'[k] = k => k \in cpFree' \/ cpMap'[k] # None
             /\ remap'[k] \in Remap => cpMap'[k] = None
             /\ remap'[k] \notin free'
             /\ cpMap'[k] \notin free'
             /\ k \in free' => remap'[k] = None /\ k \in cpFree'
             /\ k \in cpFree' /\ k \notin free' => remap'[k] = k
             /\ remap'[k] = Deleted => k \notin cpFree'
             /\ k \in dirty' => remap'[k] \in Page
  <2>1. CASE k = l
    BY <1>1, <2>1 DEF MemMaps, DeltaTargets
  <2>2. CASE k # l
    BY <1>1, <2>2 DEF MemMaps
  <2>3. QED
    BY Zenon, <2>1, <2>2
<1>4. ASSUME NEW k \in Logical, NEW m \in Logical, remap'[k] \in Remap
      PROVE  remap'[k] # cpMap'[m] /\ (remap'[k] = remap'[m] => k = m)
  BY <1>1, <1>4 DEF MemMaps
<1>5. MemMaps'
  BY Zenon, <1>2, <1>3, <1>4 DEF MemMaps
<1>6. MemAccounts'
  BY DEF MemAccounts, DeltaTargets, MemMaps, InTree
<1>7. QED
  BY Zenon, <1>5, <1>6

(* The change of one page of the tree leaves the others as they are. *)
LEMMA DeltaRows ==
  ASSUME Types, ImageMaps, MemMaps,
         NEW l \in Logical, InTree(l), NEW p \in DeltaTargets(l), NEW new,
         UNCHANGED <<disk, cptRemap>>,
         remap' = [k \in Logical |-> IF k = l THEN p ELSE remap[k]],
         free' = free \ {p},
         dirty' = dirty \cup {l},
         buf' = [k \in Logical |-> IF k = l THEN new ELSE buf[k]]
  PROVE  \A k \in Logical :
           /\ InTree(k)' <=> InTree(k)
           /\ Contents(k)' = IF k = l THEN new ELSE Contents(k)
<1> USE ExtentsApart, MarksAreNoPages DEF Types, TypeOK, Page
<1>1. p \in Remap \cup {l} /\ p # Deleted /\ l \notin free
  BY DEF MemMaps, DeltaTargets, InTree
<1>2. ASSUME NEW k \in Logical PROVE InTree(k)' <=> InTree(k)
  BY <1>1 DEF InTree
<1>3. ASSUME NEW k \in Logical
      PROVE  Contents(k)' = IF k = l THEN new ELSE Contents(k)
  BY Zenon DEF Contents, Physical
<1>4. QED
  BY Zenon, <1>2, <1>3

(* A change of the commit space leaves what a restart would use as it is. *)
LEMMA WorkStep ==
  ASSUME IInv, phase \in {"up", "replay", "restoring"},
         UNCHANGED <<durable, phase, committed, recovered>>,
         Types', MemMaps', MemAccounts', MemRows'
  PROVE  IInv'
<1>1. UNCHANGED <<disk, cpMap, cpFree, file, saved, log>>
  BY Zenon DEF durable
<1>2. file # "complete"
  BY Zenon DEF IInv, PhaseOK, Working
<1>3. ImageMaps' /\ ImageRows' /\ ImageAccounts'
  BY <1>1, <1>2 DEF IInv, ImageMaps, ImageRows, ImageAccounts, ImageAddress
<1>4. PhaseOK'
  BY Zenon, <1>1, <1>2 DEF PhaseOK, Working, Rewriting, Recovering
<1>5. QED
  BY Zenon, <1>1, <1>2, <1>3, <1>4 DEF IInv

(* What the lemmas about a change of the commit space start from. *)
LEMMA WorkFacts ==
  ASSUME IInv, phase \in Working
  PROVE  /\ Types /\ ImageMaps /\ MemMaps /\ MemAccounts /\ MemRows
         /\ ImageRows /\ ImageAccounts /\ file # "complete"
BY Zenon DEF IInv, PhaseOK

(* The types after the change of one page. *)
LEMMA DeltaTypes ==
  ASSUME Types, NEW l \in Logical, InTree(l), NEW p \in DeltaTargets(l), NEW new \in SUBSET Row,
         UNCHANGED <<durable, phase, cptRemap, todo, committed>>,
         remap' = [k \in Logical |-> IF k = l THEN p ELSE remap[k]],
         free' = free \ {p},
         dirty' = dirty \cup {l},
         buf' = [k \in Logical |-> IF k = l THEN new ELSE buf[k]],
         live' \in SUBSET Row, aside' \in SUBSET Row
  PROVE  Types'
<1>1. p \in Page
  BY Zenon, MarksAreNoPages DEF DeltaTargets, InTree, Types, TypeOK, Page
<1>2. UNCHANGED <<disk, cpMap, cpFree, file, saved, log>>
  BY Zenon DEF durable
<1>3. QED
  BY Zenon, <1>1, <1>2 DEF Types, TypeOK

(* Contents of a page are rows. *)
LEMMA ContentsType ==
  ASSUME Types, ImageMaps, MemMaps, NEW l \in Logical, InTree(l)
  PROVE  Contents(l) \in SUBSET Row
<1>1. Physical(l) \in Page
  BY Zenon, TreeFacts DEF Page
<1>2. QED
  BY Zenon, <1>1 DEF Contents, Types, TypeOK

(* Put keeps the maps in order and adds the row to one page. *)
LEMMA PutFacts ==
  ASSUME IInv, phase \in Working, NEW r \in Row, NEW l \in Logical, InTree(l), Put(r, l),
         UNCHANGED <<durable, phase, cptRemap, todo, committed, recovered>>,
         live' \in SUBSET Row, aside' \in SUBSET Row
  PROVE  /\ Types' /\ MemMaps' /\ MemAccounts'
         /\ \A k \in Logical :
              /\ InTree(k)' <=> InTree(k)
              /\ Contents(k)' = IF k = l THEN Contents(l) \cup {r} ELSE Contents(k)
<1>1. Types /\ ImageMaps /\ MemMaps /\ MemAccounts
  BY Zenon, WorkFacts
<1>2. PICK p \in DeltaTargets(l) :
        /\ Change([k \in {l} |-> Contents(l) \cup {r}], [k \in {l} |-> p])
        /\ free' = free \ {p}
  BY Zenon DEF Put
<1>3. Contents(l) \cup {r} \in SUBSET Row
  BY Zenon, <1>1, ContentsType
<1> DEFINE new == Contents(l) \cup {r}
<1> HIDE DEF new
<1>4. /\ remap' = [k \in Logical |-> IF k = l THEN p ELSE remap[k]]
      /\ dirty' = dirty \cup {l}
      /\ buf' = [k \in Logical |-> IF k = l THEN new ELSE buf[k]]
  BY Zenon, <1>2 DEF Change, new
<1>5. UNCHANGED <<disk, cpMap, cpFree>>
  BY Zenon DEF durable
<1>6. Types'
  BY Zenon, <1>1, <1>2, <1>3, <1>4, DeltaTypes DEF new
<1>7. MemMaps' /\ MemAccounts'
  BY Zenon, <1>1, <1>2, <1>4, <1>5, DeltaMaps
<1>8. \A k \in Logical :
        /\ InTree(k)' <=> InTree(k)
        /\ Contents(k)' = IF k = l THEN new ELSE Contents(k)
  BY Zenon, <1>1, <1>2, <1>4, <1>5, DeltaRows
<1>9. QED
  BY Zenon, <1>6, <1>7, <1>8 DEF new

(* A row that the tree does not show is put on one page: still no row is on   *)
(* two pages, and the tree shows this row more.                               *)
LEMMA PutRows ==
  ASSUME NEW r, NEW l \in Logical, InTree(l), RowsApart,
         \A k \in Logical : InTree(k) => r \notin Contents(k),
         \A k \in Logical :
              /\ InTree(k)' <=> InTree(k)
              /\ Contents(k)' = IF k = l THEN Contents(l) \cup {r} ELSE Contents(k)
  PROVE  /\ RowsApart'
         /\ \A k \in Logical : InTree(k)' => Contents(k)' \subseteq Contents(k) \cup {r}
         /\ \A q : (\E k \in Logical : InTree(k) /\ q \in Contents(k)) \/ q = r =>
                   \E k \in Logical : InTree(k)' /\ q \in Contents(k)'
<1>1. RowsApart'
  BY DEF RowsApart
<1>2. ASSUME NEW q, (\E k \in Logical : InTree(k) /\ q \in Contents(k)) \/ q = r
      PROVE  \E k \in Logical : InTree(k)' /\ q \in Contents(k)'
  BY Zenon, <1>2
<1>3. QED
  BY Zenon, <1>1, <1>2

LEMMA InsertIInv ==
  ASSUME IInv, NEW r \in Row, NEW l \in Tree, Insert(r, l)
  PROVE  IInv'
<1>1. /\ phase = "up" /\ r \notin committed \cup live /\ Put(r, l)
      /\ live' = live \cup {r} /\ aside' = aside
      /\ UNCHANGED <<durable, phase, cptRemap, todo, committed, recovered>>
  BY Zenon DEF Insert, history
<1>2. l \in Logical /\ InTree(l)
  BY Zenon DEF Tree
<1>3. phase \in Working /\ MemRows /\ live \subseteq Row /\ aside \subseteq Row
  BY Zenon, <1>1, WorkFacts DEF Working, Types, TypeOK
<1>4. /\ Types' /\ MemMaps' /\ MemAccounts'
      /\ \A k \in Logical :
           /\ InTree(k)' <=> InTree(k)
           /\ Contents(k)' = IF k = l THEN Contents(l) \cup {r} ELSE Contents(k)
  BY Zenon, <1>1, <1>2, <1>3, PutFacts
<1>5. /\ RowsApart /\ live \cap committed = {} /\ aside = {}
      /\ Shows(committed \cup live)
  BY Zenon, <1>1, <1>3 DEF MemRows, Shows
<1>6. \A k \in Logical : InTree(k) => r \notin Contents(k)
  BY Zenon, <1>1, <1>5 DEF Shows
<1>7. /\ RowsApart'
      /\ \A k \in Logical : InTree(k)' => Contents(k)' \subseteq Contents(k) \cup {r}
      /\ \A q : (\E k \in Logical : InTree(k) /\ q \in Contents(k)) \/ q = r =>
                \E k \in Logical : InTree(k)' /\ q \in Contents(k)'
  BY Zenon, <1>2, <1>4, <1>5, <1>6, PutRows
<1>8. Shows(committed \cup (live \ aside))'
  BY Zenon, <1>1, <1>4, <1>5, <1>7 DEF Shows
<1>9. MemRows'
  BY Zenon, <1>1, <1>5, <1>7, <1>8 DEF MemRows
<1>10. QED
  BY Zenon, <1>1, <1>4, <1>9, WorkStep

LEMMA RollbackIInv ==
  ASSUME IInv, NEW r \in Row, NEW l \in Tree, Rollback(r, l)
  PROVE  IInv'
<1>1. /\ phase = "up" /\ r \in live \cap Contents(l)
      /\ live' = live \ {r} /\ aside' = aside
      /\ UNCHANGED <<durable, phase, cptRemap, todo, committed, recovered>>
  BY Zenon DEF Rollback, history
<1>2. l \in Logical /\ InTree(l)
  BY Zenon DEF Tree
<1>3. /\ phase \in Working /\ Types /\ ImageMaps /\ MemMaps /\ MemAccounts /\ MemRows
      /\ live \subseteq Row /\ aside \subseteq Row
  BY Zenon, <1>1, WorkFacts DEF Working, Types, TypeOK
<1> DEFINE new == Contents(l) \ {r}
<1>4. new \in SUBSET Row
  BY Zenon, <1>2, <1>3, ContentsType
<1> HIDE DEF new
<1>5. PICK p \in DeltaTargets(l) :
        /\ remap' = [k \in Logical |-> IF k = l THEN p ELSE remap[k]]
        /\ dirty' = dirty \cup {l}
        /\ buf' = [k \in Logical |-> IF k = l THEN new ELSE buf[k]]
        /\ free' = free \ {p}
  BY Zenon DEF Rollback, Change, new
<1>6. UNCHANGED <<disk, cpMap, cpFree>>
  BY Zenon, <1>1 DEF durable
<1>7. Types'
  BY Zenon, <1>1, <1>2, <1>3, <1>4, <1>5, DeltaTypes
<1>8. MemMaps' /\ MemAccounts'
  BY Zenon, <1>1, <1>2, <1>3, <1>5, <1>6, DeltaMaps
<1>9. \A k \in Logical :
        /\ InTree(k)' <=> InTree(k)
        /\ Contents(k)' = IF k = l THEN new ELSE Contents(k)
  BY Zenon, <1>1, <1>2, <1>3, <1>5, <1>6, DeltaRows
<1>10. /\ RowsApart /\ live \cap committed = {} /\ aside = {}
       /\ Shows(committed \cup live)
  BY Zenon, <1>1, <1>3 DEF MemRows, Shows
<1>11. RowsApart'
  BY <1>9, <1>10 DEF RowsApart, new
<1>12. Shows(committed \cup (live \ aside))'
  BY <1>1, <1>2, <1>9, <1>10 DEF Shows, RowsApart, new
<1>13. MemRows'
  BY Zenon, <1>1, <1>10, <1>11, <1>12 DEF MemRows
<1>14. QED
  BY Zenon, <1>1, <1>7, <1>8, <1>13, WorkStep

LEMMA ReplayRowIInv ==
  ASSUME IInv, NEW r \in log, NEW l \in Tree, ReplayRow(r, l)
  PROVE  IInv'
<1>1. /\ phase = "replay" /\ r \notin Present /\ Put(r, l)
      /\ UNCHANGED <<durable, phase, cptRemap, live, aside, todo, committed, recovered>>
  BY Zenon DEF ReplayRow, history
<1>2. l \in Logical /\ InTree(l)
  BY Zenon DEF Tree
<1>3. /\ phase \in Working /\ MemRows /\ live \subseteq Row /\ aside \subseteq Row
      /\ r \in Row /\ r \in committed
  BY Zenon, <1>1, WorkFacts DEF Working, Types, TypeOK, ImageRows
<1>4. /\ Types' /\ MemMaps' /\ MemAccounts'
      /\ \A k \in Logical :
           /\ InTree(k)' <=> InTree(k)
           /\ Contents(k)' = IF k = l THEN Contents(l) \cup {r} ELSE Contents(k)
  BY Zenon, <1>1, <1>2, <1>3, PutFacts
<1>5. RowsApart /\ live = {} /\ aside = {} /\ Replaying
  BY Zenon, <1>1, <1>3 DEF MemRows
<1>6. \A k \in Logical : InTree(k) => r \notin Contents(k)
  BY Zenon, <1>1 DEF Present, Tree
<1>7. /\ RowsApart'
      /\ \A k \in Logical : InTree(k)' => Contents(k)' \subseteq Contents(k) \cup {r}
      /\ \A q : (\E k \in Logical : InTree(k) /\ q \in Contents(k)) \/ q = r =>
                \E k \in Logical : InTree(k)' /\ q \in Contents(k)'
  BY Zenon, <1>2, <1>4, <1>5, <1>6, PutRows
<1>8. log' = log
  BY Zenon, <1>1 DEF durable
<1>9. Replaying'
  BY Zenon, <1>1, <1>3, <1>4, <1>5, <1>7, <1>8 DEF Replaying
<1>10. MemRows'
  BY Zenon, <1>1, <1>5, <1>7, <1>9 DEF MemRows
<1>11. QED
  BY Zenon, <1>1, <1>4, <1>10, WorkStep

LEMMA RestoreRowIInv ==
  ASSUME IInv, NEW r \in aside, NEW l \in Tree, CptRestoreRow(r, l)
  PROVE  IInv'
<1>1. /\ phase = "restoring" /\ Put(r, l) /\ aside' = aside \ {r}
      /\ UNCHANGED <<durable, phase, cptRemap, live, todo, committed, recovered>>
  BY Zenon DEF CptRestoreRow, history
<1>2. l \in Logical /\ InTree(l)
  BY Zenon DEF Tree
<1>3. /\ phase \in Working /\ MemRows /\ live \subseteq Row /\ aside \subseteq Row
      /\ r \in Row
  BY Zenon, <1>1, WorkFacts DEF Working, Types, TypeOK
<1>4. /\ Types' /\ MemMaps' /\ MemAccounts'
      /\ \A k \in Logical :
           /\ InTree(k)' <=> InTree(k)
           /\ Contents(k)' = IF k = l THEN Contents(l) \cup {r} ELSE Contents(k)
  BY Zenon, <1>1, <1>2, <1>3, PutFacts
<1>5. /\ RowsApart /\ live \cap committed = {} /\ aside \subseteq live
      /\ Shows(committed \cup (live \ aside)) /\ ImageComplete
  BY Zenon, <1>1, <1>3 DEF MemRows
<1>6. \A k \in Logical : InTree(k) => r \notin Contents(k)
  BY Zenon, <1>5 DEF Shows
<1>7. /\ RowsApart'
      /\ \A k \in Logical : InTree(k)' => Contents(k)' \subseteq Contents(k) \cup {r}
      /\ \A q : (\E k \in Logical : InTree(k) /\ q \in Contents(k)) \/ q = r =>
                \E k \in Logical : InTree(k)' /\ q \in Contents(k)'
  BY Zenon, <1>2, <1>4, <1>5, <1>6, PutRows
<1>8. Shows(committed \cup (live \ aside))'
  BY Zenon, <1>1, <1>4, <1>5, <1>7 DEF Shows
<1>9. ImageComplete'
  BY Zenon, <1>1, <1>5 DEF ImageComplete, ImageAddress, durable
<1>10. MemRows'
  BY Zenon, <1>1, <1>5, <1>7, <1>8, <1>9 DEF MemRows
<1>11. QED
  BY Zenon, <1>1, <1>4, <1>10, WorkStep

(* A change of the tree that moves rows between pages and shows the same ones. *)
LEMMA MovedRows ==
  ASSUME MemRows, Running, UNCHANGED <<phase, log, committed, live, aside>>, RowsApart',
         \A q : (\E k \in Logical : InTree(k) /\ q \in Contents(k)) <=>
                (\E k \in Logical : InTree(k)' /\ q \in Contents(k)')
  PROVE  MemRows'
<1>1. phase \in {"up", "replay"}
  BY Zenon DEF Running
<1>2. CASE phase = "up"
  <2>1. Shows(committed \cup (live \ aside))
    BY Zenon, <1>2 DEF MemRows
  <2>2. Shows(committed \cup (live \ aside))'
    BY Zenon, <2>1 DEF Shows
  <2>3. QED
    BY Zenon, <1>2, <2>2 DEF MemRows
<1>3. CASE phase = "replay"
  <2>1. Replaying
    BY Zenon, <1>3 DEF MemRows
  <2>2. Replaying'
    BY Zenon, <2>1 DEF Replaying
  <2>3. QED
    BY Zenon, <1>3, <2>2 DEF MemRows
<1>4. QED
  BY Zenon, <1>1, <1>2, <1>3

LEMMA SplitIInv ==
  ASSUME IInv, NEW l \in Tree, NEW n \in Logical, NEW rows \in SUBSET Contents(l),
         Split(l, n, rows)
  PROVE  IInv'
<1> USE ExtentsApart, MarksAreNoPages DEF Page
<1>1. /\ Running /\ n \in free
      /\ UNCHANGED <<durable, phase, cptRemap, live, aside, todo, committed, recovered>>
  BY Zenon DEF Split, history
<1>2. l \in Logical /\ InTree(l)
  BY Zenon DEF Tree
<1>3. /\ phase \in Working /\ Types /\ ImageMaps /\ MemMaps /\ MemAccounts /\ MemRows
  BY Zenon, <1>1, WorkFacts DEF Working, Running
<1> DEFINE new == Contents(l) \ rows
<1>4. new \in SUBSET Row /\ rows \in SUBSET Row
  BY Zenon, <1>2, <1>3, ContentsType
<1> HIDE DEF new
<1>5. PICK p \in DeltaTargets(l) :
        /\ remap' = [k \in Logical |-> IF k = n THEN n ELSE IF k = l THEN p ELSE remap[k]]
        /\ dirty' = dirty \cup {l, n}
        /\ buf' = [k \in Logical |-> IF k = n THEN rows ELSE IF k = l THEN new ELSE buf[k]]
        /\ free' = free \ {p, n}
  BY DEF Split, Change, new
<1>6. UNCHANGED <<disk, cpMap, cpFree, file, saved, log>>
  BY Zenon, <1>1 DEF durable
<1>7. n # l /\ remap[n] = None /\ n \in cpFree /\ cpMap[n] = None
  BY Zenon, <1>1, <1>2, <1>3 DEF InTree, MemMaps, ImageMaps
<1>8. /\ p \in Remap \cup {l}
      /\ p \in {remap[l], l} \/ p \in free
      /\ p = l => l \in cpFree \/ cpMap[l] # None
      /\ p \in Remap => cpMap[l] = None
      /\ \A m \in Logical : p \in Remap => p # cpMap[m] /\ (p = remap[m] => l = m)
      /\ l \notin free
  BY <1>2, <1>3 DEF MemMaps, DeltaTargets, InTree, Types, TypeOK
<1>9. Types'
  BY <1>1, <1>2, <1>3, <1>4, <1>5, <1>6, <1>8 DEF Types, TypeOK
<1>10. MemMaps'
  <2>1. cptRemap' = cpMap'
    BY Zenon, <1>1, <1>3, <1>6 DEF MemMaps
  <2>2. ASSUME NEW k \in Logical
        PROVE  /\ remap'[k] \in Remap \cup {k, None, Deleted}
               /\ remap'[k] = k => k \in cpFree' \/ cpMap'[k] # None
               /\ remap'[k] \in Remap => cpMap'[k] = None
               /\ remap'[k] \notin free'
               /\ cpMap'[k] \notin free'
               /\ k \in free' => remap'[k] = None /\ k \in cpFree'
               /\ k \in cpFree' /\ k \notin free' => remap'[k] = k
               /\ remap'[k] = Deleted => k \notin cpFree'
               /\ k \in dirty' => remap'[k] \in Page
    <3>1. CASE k = n
      BY Zenon, <1>3, <1>5, <1>6, <1>7, <3>1 DEF Types, TypeOK
    <3>2. CASE k = l
      BY <1>2, <1>3, <1>5, <1>6, <1>7, <1>8, <3>2 DEF MemMaps, DeltaTargets, Types, TypeOK
    <3>3. CASE k # l /\ k # n
      BY <1>3, <1>5, <1>6, <1>8, <3>3 DEF MemMaps, Types, TypeOK
    <3>4. QED
      BY Zenon, <3>1, <3>2, <3>3
  <2>3. ASSUME NEW k \in Logical, NEW m \in Logical, remap'[k] \in Remap
        PROVE  remap'[k] # cpMap'[m] /\ (remap'[k] = remap'[m] => k = m)
    BY <1>3, <1>5, <1>6, <1>8, <2>3 DEF MemMaps, Types, TypeOK
  <2>4. QED
    BY Zenon, <2>1, <2>2, <2>3 DEF MemMaps
<1>11. MemAccounts'
  BY <1>1, <1>2, <1>3, <1>5, <1>7 DEF MemAccounts, DeltaTargets, MemMaps, InTree, Types, TypeOK
<1>12. \A k \in Logical :
         /\ InTree(k)' <=> InTree(k) \/ k = n
         /\ Contents(k)' = IF k = n THEN rows ELSE IF k = l THEN new ELSE Contents(k)
         /\ ~InTree(n)
  <2>1. p # Deleted
    BY Zenon, <1>2, <1>8
  <2>2. ASSUME NEW k \in Logical PROVE InTree(k)' <=> InTree(k) \/ k = n
    BY Zenon, <1>1, <1>2, <1>5, <1>8, <2>1 DEF InTree
  <2>3. ASSUME NEW k \in Logical
        PROVE  Contents(k)' = IF k = n THEN rows ELSE IF k = l THEN new ELSE Contents(k)
    BY Zenon, <1>1, <1>5, <1>6 DEF Contents, Physical
  <2>4. QED
    BY Zenon, <1>1, <2>2, <2>3 DEF InTree
<1>13. RowsApart'
  BY <1>2, <1>3, <1>12 DEF RowsApart, new, MemRows
<1>14. \A q : (\E k \in Logical : InTree(k) /\ q \in Contents(k)) <=>
              (\E k \in Logical : InTree(k)' /\ q \in Contents(k)')
  BY Zenon, <1>2, <1>7, <1>12 DEF new
<1>15. MemRows'
  BY Zenon, <1>1, <1>3, <1>6, <1>13, <1>14, MovedRows
<1>16. QED
  BY Zenon, <1>1, <1>9, <1>10, <1>11, <1>15, WorkStep DEF Running

LEMMA MergeIInv ==
  ASSUME IInv, NEW l \in Tree, NEW m \in Tree, Merge(l, m)
  PROVE  IInv'
<1> USE ExtentsApart, MarksAreNoPages DEF Page
<1>1. /\ Running /\ l # m
      /\ UNCHANGED <<durable, phase, cptRemap, live, aside, todo, committed, recovered>>
  BY Zenon DEF Merge, history
<1>2. l \in Logical /\ InTree(l) /\ m \in Logical /\ InTree(m)
  BY Zenon DEF Tree
<1>3. phase \in Working /\ Types /\ ImageMaps /\ MemMaps /\ MemAccounts /\ MemRows
  BY Zenon, <1>1, WorkFacts DEF Working, Running
<1> DEFINE new == Contents(m) \cup Contents(l)
           gone == IF IsNew(l) THEN None ELSE Deleted
<1>4. new \in SUBSET Row
  BY Zenon, <1>2, <1>3, ContentsType
<1> HIDE DEF new, gone
<1>5. PICK p \in DeltaTargets(m) :
        /\ remap' = [k \in Logical |-> IF k = l THEN gone ELSE IF k = m THEN p ELSE remap[k]]
        /\ dirty' = (dirty \cup {m}) \ {l}
        /\ buf' = [k \in Logical |-> IF k = l THEN {} ELSE IF k = m THEN new ELSE buf[k]]
        /\ free' = (free \ {p}) \cup FreedPages(l)
  <2>1. PICK p \in DeltaTargets(m) :
          /\ dirty' = (dirty \cup {m}) \ {l}
          /\ buf' = [buf EXCEPT ![m] = Contents(m) \cup Contents(l), ![l] = {}]
          /\ remap' = [remap EXCEPT ![m] = p, ![l] = IF IsNew(l) THEN None ELSE Deleted]
          /\ free' = (free \ {p}) \cup FreedPages(l)
    BY Zenon DEF Merge
  <2>2. remap' = [k \in Logical |-> IF k = l THEN gone ELSE IF k = m THEN p ELSE remap[k]]
    BY Zenon, <1>1, <1>2, <1>3, <2>1 DEF Types, TypeOK, gone
  <2>3. buf' = [k \in Logical |-> IF k = l THEN {} ELSE IF k = m THEN new ELSE buf[k]]
    BY Zenon, <1>1, <1>2, <1>3, <2>1 DEF Types, TypeOK, new
  <2>4. QED
    BY Zenon, <2>1, <2>2, <2>3
<1>6. UNCHANGED <<disk, cpMap, cpFree, file, saved, log>>
  BY Zenon, <1>1 DEF durable
<1>7. /\ p \in Remap \cup {m}
      /\ p \in {remap[m], m} \/ p \in free
      /\ p = m => m \in cpFree \/ cpMap[m] # None
      /\ p \in Remap => cpMap[m] = None
      /\ \A k \in Logical : p \in Remap => p # cpMap[k] /\ (p = remap[k] => m = k)
      /\ m \notin free /\ l \notin free
  BY <1>2, <1>3 DEF MemMaps, DeltaTargets, InTree, Types, TypeOK
<1>8. /\ gone \in {None, Deleted}
      /\ gone = None => FreedPages(l) = {l} /\ remap[l] = l /\ l \in cpFree /\ cpMap[l] = None
      /\ gone = Deleted => /\ FreedPages(l) = {remap[l]} \cap Remap
                           /\ l \notin cpFree
  BY <1>2, <1>3, <1>7 DEF gone, IsNew, FreedPages, MemMaps, ImageMaps, Types, TypeOK
<1>9. Types'
  BY <1>1, <1>2, <1>3, <1>4, <1>5, <1>6, <1>7, <1>8 DEF Types, TypeOK
<1>10. MemMaps'
  <2>1. cptRemap' = cpMap'
    BY Zenon, <1>1, <1>3, <1>6 DEF MemMaps
  <2>2. ASSUME NEW k \in Logical
        PROVE  /\ remap'[k] \in Remap \cup {k, None, Deleted}
               /\ remap'[k] = k => k \in cpFree' \/ cpMap'[k] # None
               /\ remap'[k] \in Remap => cpMap'[k] = None
               /\ remap'[k] \notin free'
               /\ cpMap'[k] \notin free'
               /\ k \in free' => remap'[k] = None /\ k \in cpFree'
               /\ k \in cpFree' /\ k \notin free' => remap'[k] = k
               /\ remap'[k] = Deleted => k \notin cpFree'
               /\ k \in dirty' => remap'[k] \in Page
    <3>1. CASE k = l
      BY <1>2, <1>3, <1>5, <1>6, <1>7, <1>8, <3>1 DEF MemMaps, Types, TypeOK
    <3>2. CASE k = m
      BY <1>1, <1>2, <1>3, <1>5, <1>6, <1>7, <1>8, <3>2 DEF MemMaps, DeltaTargets, Types, TypeOK
    <3>3. CASE k # l /\ k # m
      BY <1>2, <1>3, <1>5, <1>6, <1>7, <1>8, <3>3 DEF MemMaps, Types, TypeOK
    <3>4. QED
      BY Zenon, <3>1, <3>2, <3>3
  <2>3. ASSUME NEW k \in Logical, NEW j \in Logical, remap'[k] \in Remap
        PROVE  remap'[k] # cpMap'[j] /\ (remap'[k] = remap'[j] => k = j)
    BY <1>3, <1>5, <1>6, <1>7, <1>8, <2>3 DEF MemMaps, Types, TypeOK
  <2>4. QED
    BY Zenon, <2>1, <2>2, <2>3 DEF MemMaps
<1>11. MemAccounts'
  <2>1. SUFFICES ASSUME ~recovered, NEW q \in Remap
                 PROVE  q \in free' \/ \E k \in Logical : q \in {remap'[k], cptRemap'[k]}
    BY Zenon, <1>1 DEF MemAccounts
  <2>2. q \in free \/ \E k \in Logical : q \in {remap[k], cptRemap[k]}
    BY Zenon, <1>3, <2>1 DEF MemAccounts
  <2>3. CASE q \in free
    BY Zenon, <1>1, <1>2, <1>5, <2>3
  <2>4. CASE \E k \in Logical : q = cptRemap[k]
    BY Zenon, <1>1, <2>4
  <2>5. CASE q = remap[l]
    BY Zenon, <1>2, <1>5, <1>8, <2>5, <1>3 DEF MemMaps
  <2>6. CASE q = remap[m]
    BY Zenon, <1>1, <1>2, <1>5, <2>6 DEF DeltaTargets
  <2>7. CASE \E k \in Logical \ {l, m} : q = remap[k]
    BY Zenon, <1>5, <2>7
  <2>8. QED
    BY Zenon, <2>2, <2>3, <2>4, <2>5, <2>6, <2>7
<1>12. \A k \in Logical :
         /\ InTree(k)' <=> InTree(k) /\ k # l
         /\ k # l => Contents(k)' = IF k = m THEN new ELSE Contents(k)
  <2>1. p # Deleted
    BY Zenon, <1>2, <1>7
  <2>2. ASSUME NEW k \in Logical PROVE InTree(k)' <=> InTree(k) /\ k # l
    BY Zenon, <1>1, <1>2, <1>5, <1>7, <1>8, <2>1 DEF InTree
  <2>3. ASSUME NEW k \in Logical, k # l
        PROVE  Contents(k)' = IF k = m THEN new ELSE Contents(k)
    BY Zenon, <1>1, <1>2, <1>5, <1>6, <2>3 DEF Contents, Physical
  <2>4. QED
    BY Zenon, <2>2, <2>3
<1>13. RowsApart'
  BY <1>2, <1>3, <1>12 DEF RowsApart, new, MemRows
<1>14. \A q : (\E k \in Logical : InTree(k) /\ q \in Contents(k)) <=>
              (\E k \in Logical : InTree(k)' /\ q \in Contents(k)')
  BY Zenon, <1>1, <1>2, <1>12 DEF new
<1>15. MemRows'
  BY Zenon, <1>1, <1>3, <1>6, <1>13, <1>14, MovedRows
<1>16. QED
  BY Zenon, <1>1, <1>9, <1>10, <1>11, <1>15, WorkStep DEF Running

-----------------------------------------------------------------------------
(* Commit, background writes and the first half of a checkpoint *)

(* What has to be shown of a step to a state whose image is in order. *)
LEMMA InWorking ==
  ASSUME phase' \in Working, phase' # "backed", file' # "complete", Types',
         ImageMaps', ImageRows', ImageAccounts', MemMaps', MemAccounts', MemRows'
  PROVE  IInv'
BY Zenon DEF IInv, PhaseOK, Working, Rewriting, Recovering

(* The image is what its maps and the pages they name say. *)
LEMMA ImageFrame ==
  ASSUME UNCHANGED <<cpMap, cpFree, log, committed, recovered>>,
         \A l \in Logical \ cpFree : disk'[ImageAddress(l)] = disk[ImageAddress(l)]
  PROVE  /\ ImageMaps => ImageMaps'
         /\ ImageRows => ImageRows'
         /\ ImageAccounts => ImageAccounts'
         /\ ImageComplete => ImageComplete'
<1>1. \A l \in Logical : ImageAddress(l)' = ImageAddress(l)
  BY Zenon DEF ImageAddress
<1>2. ImageMaps => ImageMaps'
  BY Zenon DEF ImageMaps
<1>3. ImageRows => ImageRows'
  BY <1>1 DEF ImageRows
<1>4. ImageAccounts => ImageAccounts'
  BY Zenon DEF ImageAccounts
<1>5. ImageComplete => ImageComplete'
  BY Zenon, <1>1 DEF ImageComplete
<1>6. QED
  BY Zenon, <1>2, <1>3, <1>4, <1>5

(* The commit space is in order as long as its maps stay and no page becomes   *)
(* dirty.                                                                      *)
LEMMA MemFrame ==
  ASSUME UNCHANGED <<cpMap, cpFree, remap, cptRemap, free, recovered>>, dirty' \subseteq dirty
  PROVE  /\ MemMaps => MemMaps'
         /\ MemAccounts => MemAccounts'
BY DEF MemMaps, MemAccounts

(* A page of the tree shows the same rows as long as its buffer and its        *)
(* physical page stay.                                                         *)
LEMMA TreeFrame ==
  ASSUME UNCHANGED <<disk, remap, cptRemap, free, dirty, buf>>
  PROVE  \A l \in Logical : (InTree(l)' <=> InTree(l)) /\ Contents(l)' = Contents(l)
BY Zenon DEF InTree, Contents, Physical

LEMMA CommitIInv ==
  ASSUME IInv, NEW rows \in SUBSET live, Commit(rows)
  PROVE  IInv'
<1>1. /\ phase = "up" /\ log' = log \cup rows /\ committed' = committed \cup rows
      /\ live' = live \ rows
      /\ UNCHANGED <<disk, cpMap, cpFree, file, saved, phase, remap, cptRemap, free,
                     dirty, buf, aside, todo, recovered>>
  BY Zenon DEF Commit
<1>2. /\ Types /\ ImageMaps /\ MemMaps /\ MemAccounts /\ MemRows /\ ImageRows
      /\ ImageAccounts /\ file # "complete"
  BY Zenon, <1>1, WorkFacts DEF Working
<1>3. Types'
  BY Zenon, <1>1, <1>2 DEF Types, TypeOK
<1>4. ImageMaps' /\ ImageAccounts'
  BY Zenon, <1>1, <1>2 DEF ImageMaps, ImageAccounts
<1>5. \A l \in Logical : ImageAddress(l)' = ImageAddress(l)
  BY Zenon, <1>1 DEF ImageAddress
<1>6. ImageRows'
  BY <1>1, <1>2, <1>5 DEF ImageRows
<1>7. MemMaps' /\ MemAccounts'
  BY Zenon, <1>1, <1>2, MemFrame
<1>8. /\ RowsApart /\ live \cap committed = {} /\ aside = {}
      /\ Shows(committed \cup (live \ aside))
  BY Zenon, <1>1, <1>2 DEF MemRows
<1>9. \A l \in Logical : (InTree(l)' <=> InTree(l)) /\ Contents(l)' = Contents(l)
  BY Zenon, <1>1, TreeFrame
<1>10. RowsApart'
  BY Zenon, <1>8, <1>9 DEF RowsApart
<1>11. (committed \cup (live \ aside))' = committed \cup (live \ aside)
  BY Zenon, <1>1, <1>8
<1>12. Shows(committed \cup (live \ aside))'
  BY <1>8, <1>9, <1>11 DEF Shows
<1>13. MemRows'
  BY Zenon, <1>1, <1>8, <1>10, <1>12 DEF MemRows
<1>14. QED
  BY Zenon, <1>1, <1>2, <1>3, <1>4, <1>6, <1>7, <1>13, InWorking DEF Working

(* buf_disk_write over the commit space: the page written is no page of the    *)
(* image and of no other tree page.                                            *)
LEMMA FlushFacts ==
  ASSUME Types, ImageMaps, MemMaps, NEW l \in dirty, Flush(l)
  PROVE  /\ \A m \in Logical \ cpFree : disk'[ImageAddress(m)] = disk[ImageAddress(m)]
         /\ \A k \in Logical : InTree(k)' <=> InTree(k)
         /\ \A k \in Logical : InTree(k) => Contents(k)' = Contents(k)
         /\ Types'
<1>1. /\ disk' = [disk EXCEPT ![Physical(l)] = buf[l]]
      /\ dirty' = dirty \ {l}
      /\ buf' = [buf EXCEPT ![l] = {}]
      /\ UNCHANGED <<cpMap, cpFree, file, saved, log, phase, remap, cptRemap, free,
                     live, aside, todo, committed>>
  BY Zenon DEF Flush, history
<1>2. l \in Logical /\ InTree(l) /\ Physical(l) \in Page
  BY Zenon, TreeFacts DEF Types, TypeOK
<1>3. ASSUME NEW m \in Logical \ cpFree
      PROVE  disk'[ImageAddress(m)] = disk[ImageAddress(m)]
  <2>1. Physical(l) # ImageAddress(m) /\ ImageAddress(m) \in Page
    BY Zenon, TreeFacts, MarksAreNoPages DEF ImageAddress, Types, TypeOK, Page
  <2>2. QED
    BY Zenon, <1>1, <2>1 DEF Types, TypeOK
<1>4. ASSUME NEW k \in Logical
      PROVE  (InTree(k)' <=> InTree(k)) /\ Physical(k)' = Physical(k)
  BY Zenon, <1>1 DEF InTree, Physical
<1>5. ASSUME NEW k \in Logical, InTree(k)
      PROVE  Contents(k)' = Contents(k)
  <2>1. Physical(k) \in Page
    BY Zenon, <1>5, TreeFacts DEF Page
  <2>2. CASE k = l
    BY Zenon, <1>1, <1>2, <1>4, <2>2 DEF Contents, Types, TypeOK
  <2>3. CASE k # l
    <3>1. Physical(k) # Physical(l)
      BY Zenon, <1>2, <1>5, <2>3, TreeFacts
    <3>2. disk'[Physical(k)] = disk[Physical(k)]
      BY Zenon, <1>1, <2>1, <3>1 DEF Types, TypeOK
    <3>3. QED
      BY Zenon, <1>1, <1>4, <2>3, <3>2 DEF Contents, Types, TypeOK
  <2>4. QED
    BY Zenon, <2>2, <2>3
<1>6. Types'
  BY Zenon, <1>1, <1>2 DEF Types, TypeOK
<1>7. QED
  BY Zenon, <1>3, <1>4, <1>5, <1>6

(* The rows of the commit space stay when its pages do. *)
LEMMA RowsFrame ==
  ASSUME MemRows, UNCHANGED <<phase, log, committed, live, aside>>, dirty' \subseteq dirty,
         ImageComplete => ImageComplete',
         \A k \in Logical : InTree(k)' <=> InTree(k),
         \A k \in Logical : InTree(k) => Contents(k)' = Contents(k)
  PROVE  MemRows'
<1>1. RowsApart'
  BY Zenon DEF MemRows, RowsApart
<1>2. CASE phase = "replay"
  <2>1. Replaying'
    BY Zenon, <1>2 DEF MemRows, Replaying
  <2>2. QED
    BY Zenon, <1>1, <1>2, <2>1 DEF MemRows
<1>3. CASE phase # "replay"
  <2>1. Shows(committed \cup (live \ aside))'
    BY <1>3 DEF MemRows, Shows
  <2>2. QED
    BY Zenon, <1>1, <1>3, <2>1 DEF MemRows
<1>4. QED
  BY Zenon, <1>2, <1>3

LEMMA FlushWorking ==
  ASSUME IInv, phase \in Working, NEW l \in dirty, Flush(l)
  PROVE  IInv'
<1>1. /\ Types /\ ImageMaps /\ MemMaps /\ MemAccounts /\ MemRows /\ ImageRows
      /\ ImageAccounts /\ file # "complete"
  BY Zenon, WorkFacts
<1>2. /\ \A m \in Logical \ cpFree : disk'[ImageAddress(m)] = disk[ImageAddress(m)]
      /\ \A k \in Logical : InTree(k)' <=> InTree(k)
      /\ \A k \in Logical : InTree(k) => Contents(k)' = Contents(k)
      /\ Types'
  BY Zenon, <1>1, FlushFacts
<1>3. /\ dirty' \subseteq dirty
      /\ UNCHANGED <<cpMap, cpFree, file, log, phase, remap, cptRemap, free, live,
                     aside, committed, recovered>>
  BY Zenon DEF Flush, history
<1>4. /\ ImageMaps' /\ ImageRows' /\ ImageAccounts' /\ (ImageComplete => ImageComplete')
  BY Zenon, <1>1, <1>2, <1>3, ImageFrame
<1>5. MemMaps' /\ MemAccounts'
  BY Zenon, <1>1, <1>3, MemFrame
<1>6. MemRows'
  BY Zenon, <1>1, <1>2, <1>3, <1>4, RowsFrame
<1>7. phase # "backed"
  BY Zenon, <1>1 DEF MemRows
<1>8. QED
  BY Zenon, <1>1, <1>2, <1>3, <1>4, <1>5, <1>6, <1>7, InWorking

(* cpt_rollback touches only pages that the commit space has: a row of a       *)
(* transaction that has not ended is on no page of the image.                  *)
LEMMA UncommittedIInv ==
  ASSUME IInv, cpt_uncommitted
  PROVE  IInv'
<1> DEFINE holds == {l \in Tree : Contents(l) \cap live # {}}
<1>1. /\ phase = "up" /\ phase' = "flushing" /\ aside' = live
      /\ UNCHANGED <<disk, cpMap, cpFree, file, saved, log, cptRemap, free, live, todo,
                     committed, recovered>>
  BY Zenon DEF cpt_uncommitted, Goto, durable, history
<1>2. /\ Types /\ ImageMaps /\ MemMaps /\ MemAccounts /\ MemRows /\ ImageRows
      /\ ImageAccounts /\ file # "complete"
  BY Zenon, <1>1, WorkFacts DEF Working
<1>3. /\ dirty' = dirty \cup holds
      /\ buf' = [l \in Logical |-> IF l \in holds THEN Contents(l) \ live ELSE buf[l]]
      /\ remap' = remap
  <2>1. Change([l \in holds |-> Contents(l) \ live], remap)
    BY Zenon DEF cpt_uncommitted
  <2>2. /\ dirty' = dirty \cup holds
        /\ buf' = [l \in Logical |-> IF l \in holds THEN Contents(l) \ live ELSE buf[l]]
        /\ remap' = [l \in Logical |-> IF l \in holds THEN remap[l] ELSE remap[l]]
    BY Zenon, <2>1 DEF Change
  <2>3. QED
    BY Zenon, <1>2, <2>2 DEF Types, TypeOK
<1>4. /\ RowsApart /\ live \cap committed = {} /\ aside = {}
      /\ Shows(committed \cup (live \ aside))
  BY Zenon, <1>1, <1>2 DEF MemRows
<1>5. ASSUME NEW l \in holds PROVE l \in Logical /\ InTree(l) /\ remap[l] \in Page
  <2>1. l \in Logical /\ InTree(l) /\ Contents(l) \cap live # {}
    BY Zenon DEF Tree
  <2>2. CASE remap[l] = None
    <3>1. l \notin cpFree /\ Contents(l) = disk[ImageAddress(l)]
      BY Zenon, <1>2, <2>1, <2>2, TreeFacts DEF Contents
    <3>2. QED
      BY <1>2, <1>4, <2>1, <3>1 DEF ImageRows
  <2>3. QED
    BY Zenon, <1>2, <2>1, <2>2 DEF MemMaps, InTree, Page
<1>6. Types'
  <2>1. \A l \in holds : Contents(l) \in SUBSET Row
    BY Zenon, <1>2, <1>5, ContentsType
  <2>2. buf' \in [Logical -> SUBSET Row] /\ dirty' \subseteq Logical
    BY Zenon, <1>2, <1>3, <1>5, <2>1 DEF Types, TypeOK
  <2>3. QED
    BY Zenon, <1>1, <1>2, <1>3, <2>2 DEF Types, TypeOK, Phases
<1>7. ImageMaps' /\ ImageRows' /\ ImageAccounts'
  BY Zenon, <1>1, <1>2, ImageFrame
<1>8. MemMaps' /\ MemAccounts'
  BY <1>1, <1>2, <1>3, <1>5 DEF MemMaps, MemAccounts
<1>9. \A l \in Logical :
        /\ InTree(l)' <=> InTree(l)
        /\ InTree(l) => Contents(l)' = Contents(l) \ live
  <2>1. ASSUME NEW l \in Logical PROVE InTree(l)' <=> InTree(l)
    BY Zenon, <1>1, <1>3 DEF InTree
  <2>2. ASSUME NEW l \in Logical, InTree(l) PROVE Contents(l)' = Contents(l) \ live
    <3>1. CASE l \in holds
      BY Zenon, <1>3, <3>1 DEF Contents
    <3>2. CASE l \notin holds
      <4>1. Contents(l)' = Contents(l)
        BY Zenon, <1>1, <1>3, <3>2 DEF Contents, Physical
      <4>2. QED
        BY Zenon, <2>2, <3>2, <4>1 DEF Tree
    <3>3. QED
      BY Zenon, <3>1, <3>2
  <2>3. QED
    BY Zenon, <2>1, <2>2
<1>10. RowsApart'
  BY Zenon, <1>4, <1>9 DEF RowsApart
<1>13. Shows(committed \cup (live \ aside))'
  BY Zenon, <1>1, <1>4, <1>9 DEF Shows
<1>14. MemRows'
  BY Zenon, <1>1, <1>4, <1>10, <1>13 DEF MemRows
<1>15. QED
  BY Zenon, <1>1, <1>2, <1>6, <1>7, <1>8, <1>14, InWorking DEF Working

(* dbs_cpt_backup up to its contents: the image is still what a restart uses. *)
LEMMA BackupIInv ==
  ASSUME IInv, CptOpen \/ CptBegin
  PROVE  IInv'
<1>1. /\ \/ phase = "flushing" /\ phase' = "opened" /\ dirty = {}
         \/ phase = "opened" /\ phase' = "begun"
      /\ file' \in {"empty", "begun"} /\ saved' \in {saved, NoBackup}
      /\ UNCHANGED <<disk, cpMap, cpFree, log, remap, cptRemap, free, dirty, buf, live,
                     aside, todo, committed, recovered>>
  BY Zenon DEF CptOpen, CptBegin, Goto, memory, history
<1>2. /\ Types /\ ImageMaps /\ MemMaps /\ MemAccounts /\ MemRows /\ ImageRows
      /\ ImageAccounts
  BY Zenon, <1>1, WorkFacts DEF Working
<1>3. Types'
  BY <1>1, <1>2 DEF Types, TypeOK, Phases, NoBackup, NoRemap
<1>4. ImageMaps' /\ ImageRows' /\ ImageAccounts'
  BY Zenon, <1>1, <1>2, ImageFrame
<1>5. MemMaps' /\ MemAccounts'
  BY Zenon, <1>1, <1>2, MemFrame
<1>6. \A l \in Logical : (InTree(l)' <=> InTree(l)) /\ Contents(l)' = Contents(l)
  BY Zenon, <1>1, TreeFrame
<1>7. Shows(committed \cup (live \ aside))' /\ RowsApart'
  BY <1>1, <1>2, <1>6 DEF Shows, MemRows, RowsApart
<1>8. MemRows'
  BY Zenon, <1>1, <1>2, <1>7 DEF MemRows
<1>9. QED
  BY Zenon, <1>1, <1>3, <1>4, <1>5, <1>8, InWorking DEF Working

(* dbs_cpt_backup writes the contents: the status does not vouch for them yet. *)
LEMMA ContentIInv ==
  ASSUME IInv, CptContent
  PROVE  IInv'
<1>1. /\ phase = "begun" /\ phase' = "backed"
      /\ saved' = [map |-> BackupMap, free |-> free]
      /\ UNCHANGED <<disk, cpMap, cpFree, file, log, remap, cptRemap, free, dirty, buf, live,
                     aside, todo, committed, recovered>>
  BY Zenon DEF CptContent, Goto, memory, history
<1>2. /\ Types /\ ImageMaps /\ MemMaps /\ MemAccounts /\ MemRows /\ ImageRows
      /\ ImageAccounts /\ file # "complete"
  BY Zenon, <1>1, WorkFacts DEF Working
<1>3. Types'
  <2>1. BackupMap \in [Logical -> Page \cup {None, Deleted}]
    BY Zenon, <1>2 DEF BackupMap, Types, TypeOK, Page
  <2>2. QED
    BY Zenon, <1>1, <1>2, <2>1 DEF Types, TypeOK, Phases
<1>4. ImageMaps' /\ ImageRows' /\ ImageAccounts'
  BY Zenon, <1>1, <1>2, ImageFrame
<1>5. MemMaps' /\ MemAccounts'
  BY Zenon, <1>1, <1>2, MemFrame
<1>6. \A l \in Logical : (InTree(l)' <=> InTree(l)) /\ Contents(l)' = Contents(l)
  BY Zenon, <1>1, TreeFrame
<1>7. Shows(committed \cup (live \ aside))' /\ RowsApart'
  BY <1>1, <1>2, <1>6 DEF Shows, MemRows, RowsApart
<1>8. MemRows'
  BY Zenon, <1>1, <1>2, <1>7 DEF MemRows
<1>9. BackupMap' = BackupMap
  BY Zenon, <1>1 DEF BackupMap
<1>10. PhaseOK'
  BY Zenon, <1>1, <1>2, <1>5, <1>8, <1>9 DEF PhaseOK, Working, Rewriting, Recovering
<1>11. QED
  BY Zenon, <1>1, <1>2, <1>3, <1>4, <1>10 DEF IInv

(* dbs_cpt_backup marks the file complete: from now on it, and not the image,  *)
(* is what a restart uses, and it shows the same rows.                         *)
LEMMA MarkIInv ==
  ASSUME IInv, CptMark
  PROVE  IInv'
<1> USE ExtentsApart, MarksAreNoPages DEF Page
<1>1. /\ phase = "backed" /\ phase' = "marked" /\ file' = "complete"
      /\ UNCHANGED <<disk, cpMap, cpFree, saved, log, remap, cptRemap, free, dirty, buf, live,
                     aside, todo, committed, recovered>>
  BY Zenon DEF CptMark, Goto, memory, history
<1>2. /\ Types /\ ImageMaps /\ MemMaps /\ MemAccounts /\ MemRows /\ ImageRows
      /\ ImageAccounts /\ file # "complete"
  BY Zenon, <1>1, WorkFacts DEF Working
<1>3. Types'
  BY Zenon, <1>1, <1>2 DEF Types, TypeOK, Phases
<1>4. saved = [map |-> BackupMap, free |-> free]
  BY Zenon, <1>1 DEF IInv, PhaseOK
<1>5. /\ saved.free = free
      /\ \A l \in Logical : saved.map[l] = IF remap[l] # None THEN remap[l] ELSE cptRemap[l]
  BY Zenon, <1>4 DEF BackupMap
<1>6. SavedMaps
  <2>0. free \subseteq Page /\ \A l \in Logical : cptRemap[l] \in Remap \cup {None}
    BY Zenon, <1>2 DEF Types, TypeOK
  <2>1. ASSUME NEW l \in Logical
        PROVE  /\ saved.map[l] \in Remap \cup {l, None, Deleted}
               /\ l \in saved.free => saved.map[l] = None
               /\ saved.map[l] \notin saved.free
    BY Zenon, <1>2, <1>5, <2>0 DEF MemMaps, ImageMaps
  <2>2. \A l, m \in Logical : saved.map[l] \in Remap /\ saved.map[l] = saved.map[m] => l = m
    BY <1>2, <1>5 DEF MemMaps, ImageMaps, Types, TypeOK
  <2>3. QED
    BY Zenon, <2>1, <2>2 DEF SavedMaps
<1>7. \A l \in Logical :
        /\ InSaved(l) <=> InTree(l)
        /\ InTree(l) => SavedAddress(l) = Physical(l)
        /\ Contents(l) = disk[Physical(l)]
  <2>1. dirty = {} /\ \A l \in Logical : cptRemap[l] # Deleted
    BY <1>1, <1>2 DEF MemRows, Types, TypeOK
  <2>2. ASSUME NEW l \in Logical PROVE InSaved(l) <=> InTree(l)
    BY Zenon, <1>5, <2>1 DEF InSaved, InTree
  <2>3. ASSUME NEW l \in Logical
        PROVE  SavedAddress(l) = Physical(l) /\ Contents(l) = disk[Physical(l)]
    BY Zenon, <1>5, <2>1 DEF SavedAddress, Physical, Contents
  <2>4. QED
    BY Zenon, <2>2, <2>3
<1>8. /\ RowsApart /\ Shows(committed) /\ log \subseteq committed
  BY Zenon, <1>1, <1>2 DEF MemRows, Shows, ImageRows
<1>9. SavedRows
  BY SMTT(30), <1>7, <1>8 DEF SavedRows, RowsApart, Shows
<1>10. SavedMaps' /\ SavedRows'
  BY <1>1, <1>6, <1>9 DEF SavedMaps, SavedRows, InSaved, SavedAddress
<1>11. ImageMaps' /\ MemMaps' /\ MemAccounts'
  BY Zenon, <1>1, <1>2, MemFrame DEF ImageMaps
<1>12. \A l \in Logical : (InTree(l)' <=> InTree(l)) /\ Contents(l)' = Contents(l)
  BY Zenon, <1>1, TreeFrame
<1>13. Shows(committed \cup (live \ aside))' /\ RowsApart'
  BY <1>1, <1>2, <1>12 DEF Shows, MemRows, RowsApart
<1>14. MemRows'
  BY Zenon, <1>1, <1>2, <1>13 DEF MemRows
<1>15. BackupMap' = BackupMap
  BY Zenon, <1>1 DEF BackupMap
<1>16. PhaseOK'
  BY Zenon, <1>1, <1>4, <1>11, <1>14, <1>15 DEF PhaseOK, Working, Rewriting, Recovering
<1>17. QED
  BY Zenon, <1>1, <1>3, <1>10, <1>16 DEF IInv

-----------------------------------------------------------------------------
(* The second half of a checkpoint *)

(* The recovery file is what it says and what the pages it names hold. *)
LEMMA SavedFrame ==
  ASSUME UNCHANGED <<saved, log, committed>>,
         \A l \in Logical : InSaved(l) => disk'[SavedAddress(l)] = disk[SavedAddress(l)]
  PROVE  /\ SavedMaps => SavedMaps'
         /\ SavedRows => SavedRows'
         /\ \A l \in Logical : /\ InSaved(l)' <=> InSaved(l)
                               /\ SavedAddress(l)' = SavedAddress(l)
<1>1. \A l \in Logical : (InSaved(l)' <=> InSaved(l)) /\ SavedAddress(l)' = SavedAddress(l)
  BY Zenon DEF InSaved, SavedAddress
<1>2. SavedMaps => SavedMaps'
  BY Zenon DEF SavedMaps
<1>3. SavedRows => SavedRows'
  BY ZenonT(60), <1>1 DEF SavedRows
<1>4. QED
  BY Zenon, <1>1, <1>2, <1>3

(* What has to be shown of a step while the checkpoint rewrites the image. *)
LEMMA InRewriting ==
  ASSUME phase' \in Rewriting, file' = "complete", Types', SavedMaps', SavedRows', Rewrites'
  PROVE  IInv'
BY Zenon DEF IInv, PhaseOK, Working, Rewriting, Recovering

LEMMA RewritingFacts ==
  ASSUME IInv, phase \in Rewriting
  PROVE  Types /\ file = "complete" /\ SavedMaps /\ SavedRows /\ Rewrites
BY Zenon DEF IInv, PhaseOK

(* cpt_neodisk_page: the commit space becomes the checkpoint's remap, and what *)
(* it replaces becomes free.                                                   *)
LEMMA NeodiskIInv ==
  ASSUME IInv, cpt_neodisk_page
  PROVE  IInv'
<1> USE ExtentsApart, MarksAreNoPages DEF Page
<1>1. /\ phase = "marked" /\ phase' = "merged" /\ remap' = NoRemap
      /\ cptRemap' = [l \in Logical |->
                         IF remap[l] = None THEN cptRemap[l]
                         ELSE IF remap[l] \in Remap THEN remap[l] ELSE None]
      /\ free' = (free \cup UNION {Superseded(l) : l \in Logical}) \ {None}
      /\ UNCHANGED <<disk, cpMap, cpFree, file, saved, log, dirty, buf, live, aside, todo,
                     committed, recovered>>
  BY Zenon DEF cpt_neodisk_page, Goto, durable, history
<1>2. /\ Types /\ ImageMaps /\ MemMaps /\ MemAccounts /\ MemRows /\ SavedMaps /\ SavedRows
      /\ file = "complete" /\ saved = [map |-> BackupMap, free |-> free]
  BY Zenon, <1>1 DEF IInv, PhaseOK
<1>3. /\ saved.free = free
      /\ \A l \in Logical : saved.map[l] = IF remap[l] # None THEN remap[l] ELSE cptRemap[l]
  BY Zenon, <1>2 DEF BackupMap
<1>4. \A l \in Logical : cptRemap[l] \in Remap \cup {None} /\ cptRemap[l] = cpMap[l]
  BY Zenon, <1>2 DEF Types, TypeOK, MemMaps
<1>5. /\ dirty = {} /\ aside = live /\ live \cap committed = {}
  BY Zenon, <1>1, <1>2 DEF MemRows
<1>6. \A p : p \in free' <=>
        p # None /\ (p \in free \/ \E l \in Logical : p \in Superseded(l))
  BY Zenon, <1>1
<1>7. Types'
  <2>1. free' \subseteq Page
    <3>1. \A l \in Logical : Superseded(l) \subseteq Page \cup {None}
      BY Zenon, <1>4 DEF Superseded
    <3>2. free \subseteq Page
      BY Zenon, <1>2 DEF Types, TypeOK
    <3>3. QED
      BY Zenon, <1>6, <3>1, <3>2
  <2>2. cptRemap' \in [Logical -> Remap \cup {None}]
    BY Zenon, <1>1, <1>4
  <2>3. remap' \in [Logical -> Page \cup {None, Deleted}]
    BY Zenon, <1>1 DEF NoRemap
  <2>4. QED
    BY Zenon, <1>1, <1>2, <2>1, <2>2, <2>3 DEF Types, TypeOK, Phases
<1>8. /\ SavedMaps' /\ SavedRows'
      /\ \A l \in Logical : /\ InSaved(l)' <=> InSaved(l)
                            /\ SavedAddress(l)' = SavedAddress(l)
  BY Zenon, <1>1, <1>2, SavedFrame
<1>9. ASSUME NEW l \in Logical
      PROVE  /\ l \in free' <=> ~InSaved(l)
             /\ cptRemap'[l] = IF saved.map[l] \in Remap THEN saved.map[l] ELSE None
             /\ cptRemap'[l] \notin free'
  <2>1. l \in free' <=> ~InSaved(l)
    <3>1. \A m \in Logical : l \in Superseded(m) <=> (m = l /\ remap[l] = Deleted)
      BY Zenon, <1>4 DEF Superseded
    <3>2. QED
      BY Zenon, <1>3, <1>4, <1>6, <3>1 DEF InSaved
  <2>2. cptRemap'[l] = IF saved.map[l] \in Remap THEN saved.map[l] ELSE None
    BY Zenon, <1>1, <1>3, <1>4
  <2>3. cptRemap'[l] # None => cptRemap'[l] \notin free
    BY Zenon, <1>2, <1>3, <2>2 DEF SavedMaps
  <2>4. ASSUME NEW m \in Logical, cptRemap'[l] # None
        PROVE  cptRemap'[l] \notin Superseded(m)
    <3>1. CASE remap[l] = None
      BY Zenon, <1>1, <1>2, <1>4, <2>4, <3>1 DEF Superseded, ImageMaps
    <3>2. CASE remap[l] \in Remap
      BY <1>1, <1>2, <1>4, <3>2 DEF Superseded, MemMaps
    <3>3. QED
      BY Zenon, <1>1, <2>4, <3>1, <3>2
  <2>5. QED
    BY Zenon, <1>6, <2>1, <2>2, <2>3, <2>4
<1>10. ASSUME NEW l \in Logical, InSaved(l)
       PROVE  Contents(l)' = disk[SavedAddress(l)]
  <2>1. saved.map[l] \in Remap \cup {l, None}
    BY Zenon, <1>2, <1>10 DEF SavedMaps, InSaved
  <2>2. remap'[l] = None /\ dirty' = {}
    BY Zenon, <1>1, <1>5 DEF NoRemap
  <2>3. Physical(l)' = SavedAddress(l)
    BY Zenon, <1>9, <2>1, <2>2 DEF Physical, SavedAddress
  <2>4. QED
    BY Zenon, <1>1, <2>2, <2>3 DEF Contents
<1>11. MemAccounts'
  <2>1. SUFFICES ASSUME ~recovered, NEW q \in Remap
                 PROVE  q \in free' \/ \E k \in Logical : q = cptRemap'[k]
    BY Zenon, <1>1 DEF MemAccounts
  <2>2. q \in free \/ \E k \in Logical : q \in {remap[k], cptRemap[k]}
    BY Zenon, <1>2, <2>1 DEF MemAccounts
  <2>3. ASSUME NEW k \in Logical, q \in {remap[k], cptRemap[k]}
        PROVE  q = cptRemap'[k] \/ q \in Superseded(k)
    BY <1>1, <1>2, <1>4, <2>3 DEF Superseded, MemMaps
  <2>4. QED
    BY Zenon, <1>6, <2>2, <2>3
<1>12. Rewrites'
  BY Zenon, <1>1, <1>5, <1>8, <1>9, <1>10, <1>11 DEF Rewrites
<1>13. QED
  BY Zenon, <1>1, <1>2, <1>7, <1>8, <1>12, InRewriting DEF Rewriting

(* cpt_unremap: a page goes home by way of its buffer, and the recovery file   *)
(* still finds it at its old address.                                          *)
LEMMA UnremapIInv ==
  ASSUME IInv, NEW S \in SUBSET {l \in Logical : cptRemap[l] # None}, cpt_unremap(S)
  PROVE  IInv'
<1> USE ExtentsApart, MarksAreNoPages DEF Page
<1>1. /\ phase = "merged" /\ phase' = "unremapped" /\ dirty' = S
      /\ buf' = [l \in Logical |-> IF l \in S THEN Contents(l) ELSE {}]
      /\ free' = free \cup {cptRemap[l] : l \in S}
      /\ cptRemap' = [l \in Logical |-> IF l \in S THEN None ELSE cptRemap[l]]
      /\ UNCHANGED <<disk, cpMap, cpFree, file, saved, log, remap, live, aside, todo,
                     committed, recovered>>
  BY Zenon DEF cpt_unremap, Goto, durable, history
<1>2. Types /\ file = "complete" /\ SavedMaps /\ SavedRows /\ Rewrites
  BY Zenon, <1>1, RewritingFacts DEF Rewriting
<1>3. dirty = {} /\ remap = NoRemap
  BY Zenon, <1>1, <1>2 DEF Rewrites
<1>4. ASSUME NEW l \in S
      PROVE  l \in Logical /\ cptRemap[l] \in Remap /\ cptRemap[l] = saved.map[l] /\ InSaved(l)
  <2>1. l \in Logical /\ cptRemap[l] \in Remap
    BY Zenon, <1>2 DEF Types, TypeOK
  <2>2. cptRemap[l] = saved.map[l]
    BY Zenon, <1>2, <2>1 DEF Rewrites
  <2>3. QED
    BY Zenon, <1>2, <2>1, <2>2 DEF SavedMaps, InSaved
<1>5. Types'
  <2>1. \A l \in S : Contents(l) \in SUBSET Row
    <3>1. \A l \in S : SavedAddress(l) \in Page
      BY Zenon, <1>4 DEF SavedAddress
    <3>2. \A l \in S : Contents(l) = disk[SavedAddress(l)]
      BY Zenon, <1>2, <1>4 DEF Rewrites
    <3>3. QED
      BY <1>2, <3>1, <3>2 DEF Types, TypeOK
  <2>2. buf' \in [Logical -> SUBSET Row]
    BY Zenon, <1>1, <2>1
  <2>3. cptRemap' \in [Logical -> Remap \cup {None}] /\ free' \subseteq Page
    BY <1>1, <1>2, <1>4 DEF Types, TypeOK
  <2>4. QED
    BY Zenon, <1>1, <1>2, <2>2, <2>3 DEF Types, TypeOK, Phases
<1>6. /\ SavedMaps' /\ SavedRows'
      /\ \A l \in Logical : /\ InSaved(l)' <=> InSaved(l)
                            /\ SavedAddress(l)' = SavedAddress(l)
  BY Zenon, <1>1, <1>2, SavedFrame
<1>7. ASSUME NEW l \in Logical
      PROVE  /\ l \in free' <=> ~InSaved(l)
             /\ cptRemap'[l] \in {None, saved.map[l]} /\ cptRemap'[l] \notin free'
             /\ l \in dirty' => cptRemap'[l] = None /\ saved.map[l] \in Remap
  <2>1. l \in free' <=> ~InSaved(l)
    BY <1>1, <1>2, <1>4 DEF Rewrites
  <2>2. cptRemap'[l] \in {None, saved.map[l]}
    BY Zenon, <1>1, <1>2 DEF Rewrites
  <2>3. cptRemap'[l] \notin free'
    <3>1. CASE l \in S
      BY Zenon, <1>1, <1>5, <3>1 DEF Types, TypeOK
    <3>2. CASE l \notin S
      <4>1. cptRemap'[l] = cptRemap[l] /\ cptRemap[l] \notin free
        BY Zenon, <1>1, <1>2, <3>2 DEF Rewrites
      <4>2. \A m \in S : cptRemap[m] # cptRemap[l]
        BY <1>2, <1>4, <3>2 DEF Rewrites, SavedMaps
      <4>3. QED
        BY Zenon, <1>1, <4>1, <4>2
    <3>3. QED
      BY Zenon, <3>1, <3>2
  <2>4. l \in dirty' => cptRemap'[l] = None /\ saved.map[l] \in Remap
    BY Zenon, <1>1, <1>4
  <2>5. QED
    BY ZenonT(60), <2>1, <2>2, <2>3, <2>4
<1>8. ASSUME NEW l \in Logical PROVE Contents(l)' = Contents(l)
  BY Zenon, <1>1, <1>3 DEF Contents, Physical
<1>9. ASSUME NEW l \in Logical, InSaved(l) PROVE Contents(l)' = disk[SavedAddress(l)]
  BY Zenon, <1>2, <1>8, <1>9 DEF Rewrites
<1>10. MemAccounts'
  BY <1>1, <1>2 DEF MemAccounts, Rewrites
<1>11. Rewrites'
  BY <1>1, <1>2, <1>6, <1>7, <1>9, <1>10 DEF Rewrites
<1>12. QED
  BY Zenon, <1>1, <1>2, <1>5, <1>6, <1>11, InRewriting DEF Rewriting

(* buf_disk_write after cpt_unremap: the page's own address is in no other     *)
(* page's entry of the recovery file.                                          *)
LEMMA FlushRewriting ==
  ASSUME IInv, phase \in Rewriting, NEW l \in dirty, Flush(l)
  PROVE  IInv'
<1> USE ExtentsApart, MarksAreNoPages DEF Page
<1>1. Types /\ file = "complete" /\ SavedMaps /\ SavedRows /\ Rewrites
  BY Zenon, RewritingFacts
<1>2. /\ l \in Logical /\ phase = "unremapped" /\ remap = NoRemap
      /\ cptRemap[l] = None /\ saved.map[l] \in Remap
  BY Zenon, <1>1 DEF Rewrites, Types, TypeOK
<1>3. Physical(l) = l
  BY Zenon, <1>2 DEF Physical, NoRemap
<1>4. /\ disk' = [disk EXCEPT ![l] = buf[l]]
      /\ dirty' = dirty \ {l}
      /\ buf' = [buf EXCEPT ![l] = {}]
      /\ UNCHANGED <<cpMap, cpFree, file, saved, log, phase, remap, cptRemap, free,
                     live, aside, todo, committed, recovered>>
  BY Zenon, <1>3 DEF Flush, history
<1>5. Types'
  BY Zenon, <1>1, <1>2, <1>4 DEF Types, TypeOK
<1>6. \A k \in Logical : InSaved(k) =>
        /\ SavedAddress(k) \in Page /\ SavedAddress(k) # l
        /\ disk'[SavedAddress(k)] = disk[SavedAddress(k)]
  <2>1. \A k \in Logical : InSaved(k) => SavedAddress(k) \in Page /\ SavedAddress(k) # l
    BY <1>1, <1>2 DEF SavedMaps, InSaved, SavedAddress
  <2>2. QED
    BY Zenon, <1>1, <1>4, <2>1 DEF Types, TypeOK
<1>7. /\ SavedMaps' /\ SavedRows'
      /\ \A k \in Logical : /\ InSaved(k)' <=> InSaved(k)
                            /\ SavedAddress(k)' = SavedAddress(k)
  BY Zenon, <1>1, <1>4, <1>6, SavedFrame
<1>8. ASSUME NEW k \in Logical, InSaved(k) PROVE Contents(k)' = Contents(k)
  <2>1. Physical(k) \in Page /\ Physical(k)' = Physical(k)
    BY Zenon, <1>1, <1>2, <1>4 DEF Physical, NoRemap, Types, TypeOK
  <2>2. CASE k = l
    BY <1>1, <1>2, <1>3, <1>4, <2>1, <2>2 DEF Contents, Types, TypeOK
  <2>3. CASE k # l
    <3>1. Physical(k) # l
      BY <1>1, <1>2, <2>3 DEF Physical, NoRemap, Types, TypeOK
    <3>2. QED
      BY Zenon, <1>1, <1>4, <2>1, <2>3, <3>1 DEF Contents, Types, TypeOK
  <2>4. QED
    BY Zenon, <2>2, <2>3
<1>9. ASSUME NEW k \in Logical, InSaved(k) PROVE Contents(k)' = disk'[SavedAddress(k)]
  BY Zenon, <1>1, <1>6, <1>8, <1>9 DEF Rewrites
<1>10. MemAccounts'
  BY Zenon, <1>1, <1>4 DEF MemAccounts, Rewrites
<1>11. Rewrites'
  BY <1>1, <1>2, <1>4, <1>7, <1>9, <1>10 DEF Rewrites
<1>12. QED
  BY Zenon, <1>1, <1>4, <1>5, <1>7, <1>11, InRewriting

(* cpt_write_remap and the page sets go to disk: the recovery file stands in.  *)
LEMMA WriteImageIInv ==
  ASSUME IInv, cpt_write_remap \/ CptWriteSets
  PROVE  IInv'
<1>1. /\ \/ /\ phase = "unremapped" /\ phase' = "remapped" /\ dirty = {}
            /\ cpMap' = cptRemap /\ cpFree' = cpFree
         \/ /\ phase = "remapped" /\ phase' = "written"
            /\ cpFree' = free /\ cpMap' = cpMap
      /\ UNCHANGED <<disk, file, saved, log, remap, cptRemap, free, dirty, buf, live, aside,
                     todo, committed, recovered>>
  BY Zenon DEF cpt_write_remap, CptWriteSets, Goto, memory, history
<1>2. Types /\ file = "complete" /\ SavedMaps /\ SavedRows /\ Rewrites
  BY Zenon, <1>1, RewritingFacts DEF Rewriting
<1>3. Types'
  BY Zenon, <1>1, <1>2 DEF Types, TypeOK, Phases
<1>4. /\ SavedMaps' /\ SavedRows'
      /\ \A k \in Logical : /\ InSaved(k)' <=> InSaved(k)
                            /\ SavedAddress(k)' = SavedAddress(k)
  BY Zenon, <1>1, <1>2, SavedFrame
<1>5. \A k \in Logical : Contents(k)' = Contents(k)
  BY Zenon, <1>1, TreeFrame
<1>6. MemAccounts'
  BY Zenon, <1>1, <1>2 DEF MemAccounts, Rewrites
<1>7. Rewrites'
  BY <1>1, <1>2, <1>4, <1>5, <1>6 DEF Rewrites
<1>8. QED
  BY Zenon, <1>1, <1>2, <1>3, <1>4, <1>7, InRewriting DEF Rewriting

(* The recovery file goes: the new image shows the same rows. *)
LEMMA UnlinkIInv ==
  ASSUME IInv, CptUnlink
  PROVE  IInv'
<1> USE ExtentsApart, MarksAreNoPages DEF Page
<1>1. /\ phase = "written" /\ phase' = "restoring" /\ file' = "absent" /\ saved' = NoBackup
      /\ UNCHANGED <<disk, cpMap, cpFree, log, remap, cptRemap, free, dirty, buf, live, aside,
                     todo, committed, recovered>>
  BY Zenon DEF CptUnlink, Goto, memory, history
<1>2. Types /\ file = "complete" /\ SavedMaps /\ SavedRows /\ Rewrites
  BY Zenon, <1>1, RewritingFacts DEF Rewriting
<1>3. /\ dirty = {} /\ cpMap = cptRemap /\ cpFree = free /\ remap = NoRemap
      /\ aside = live /\ live \cap committed = {}
  BY Zenon, <1>1, <1>2 DEF Rewrites
<1>4. Types'
  BY Zenon, <1>1, <1>2 DEF Types, TypeOK, Phases, NoBackup, NoRemap
<1>5. ASSUME NEW l \in Logical
      PROVE  /\ InTree(l) <=> l \notin cpFree
             /\ InTree(l) <=> InSaved(l)
             /\ Physical(l) = ImageAddress(l)
             /\ Contents(l) = disk[ImageAddress(l)]
             /\ InSaved(l) => Contents(l) = disk[SavedAddress(l)]
  <2>1. remap[l] = None
    BY Zenon, <1>3 DEF NoRemap
  <2>2. Physical(l) = ImageAddress(l)
    BY Zenon, <1>3, <2>1 DEF Physical, ImageAddress
  <2>3. QED
    BY Zenon, <1>2, <1>3, <2>1, <2>2 DEF Rewrites, InTree, Contents
<1>6. ImageMaps'
  <2>1. ASSUME NEW l \in Logical, cpMap[l] # None
        PROVE  cpMap[l] = saved.map[l] /\ cpMap[l] \in Remap /\ l \notin cpFree /\ cpMap[l] \notin cpFree
    <3>1. cpMap[l] = saved.map[l] /\ cpMap[l] \in Remap /\ cpMap[l] \notin cpFree
      BY <1>2, <1>3, <2>1 DEF Rewrites, Types, TypeOK
    <3>2. InSaved(l)
      BY Zenon, <1>2, <3>1 DEF SavedMaps, InSaved
    <3>3. QED
      BY Zenon, <1>5, <3>1, <3>2
  <2>2. QED
    BY Zenon, <1>1, <1>2, <2>1 DEF ImageMaps, SavedMaps
<1>7. ImageRows' /\ ImageComplete'
  <2>1. ImageRows /\ ImageComplete
    BY Zenon, <1>2, <1>5 DEF ImageRows, ImageComplete, SavedRows
  <2>2. QED
    BY Zenon, <1>1, <2>1, ImageFrame
<1>8. MemMaps'
  BY Zenon, <1>1, <1>2, <1>3, <1>6 DEF MemMaps, ImageMaps, NoRemap, Types, TypeOK
<1>9. MemAccounts' /\ ImageAccounts'
  BY <1>1, <1>2, <1>3 DEF MemAccounts, ImageAccounts, Rewrites, NoRemap
<1>10. \A l \in Logical : (InTree(l)' <=> InTree(l)) /\ Contents(l)' = Contents(l)
  BY Zenon, <1>1, TreeFrame
<1>11. RowsApart' /\ Shows(committed \cup (live \ aside))'
  <2>1. RowsApart /\ Shows(committed)
    BY <1>2, <1>5 DEF RowsApart, Shows, SavedRows
  <2>2. QED
    BY <1>1, <1>3, <1>10, <2>1 DEF RowsApart, Shows
<1>12. MemRows'
  BY Zenon, <1>1, <1>3, <1>7, <1>11 DEF MemRows
<1>13. QED
  BY Zenon, <1>1, <1>4, <1>6, <1>7, <1>8, <1>9, <1>12, InWorking DEF Working

(* log_checkpoint: the image has what the log had. *)
LEMMA LogCheckpointIInv ==
  ASSUME IInv, log_checkpoint
  PROVE  IInv'
<1>1. /\ phase = "restoring" /\ phase' = "up" /\ aside = {} /\ log' = {}
      /\ UNCHANGED <<disk, cpMap, cpFree, file, saved, remap, cptRemap, free, dirty, buf, live,
                     aside, todo, committed, recovered>>
  BY Zenon DEF log_checkpoint, Goto, memory, history
<1>2. /\ Types /\ ImageMaps /\ MemMaps /\ MemAccounts /\ MemRows /\ ImageRows
      /\ ImageAccounts /\ file # "complete"
  BY Zenon, <1>1, WorkFacts DEF Working
<1>3. Types'
  BY Zenon, <1>1, <1>2 DEF Types, TypeOK, Phases
<1>4. ImageMaps' /\ ImageAccounts' /\ MemMaps' /\ MemAccounts'
  BY Zenon, <1>1, <1>2, MemFrame DEF ImageMaps, ImageAccounts
<1>5. ImageRows'
  <2>1. \A l \in Logical : ImageAddress(l)' = ImageAddress(l)
    BY Zenon, <1>1 DEF ImageAddress
  <2>2. QED
    BY <1>1, <1>2, <2>1 DEF ImageRows, ImageComplete, MemRows
<1>6. \A l \in Logical : (InTree(l)' <=> InTree(l)) /\ Contents(l)' = Contents(l)
  BY Zenon, <1>1, TreeFrame
<1>7. RowsApart' /\ Shows(committed \cup (live \ aside))'
  BY <1>1, <1>2, <1>6 DEF MemRows, RowsApart, Shows
<1>8. MemRows'
  BY Zenon, <1>1, <1>2, <1>7 DEF MemRows
<1>9. QED
  BY Zenon, <1>1, <1>2, <1>3, <1>4, <1>5, <1>8, InWorking DEF Working

-----------------------------------------------------------------------------
(* Death and restart *)

LEMMA CrashIInv ==
  ASSUME IInv, Crash
  PROVE  IInv'
<1>1. /\ phase' = "down" /\ remap' = NoRemap /\ cptRemap' = NoRemap /\ free' = {}
      /\ dirty' = {} /\ buf' = [l \in Logical |-> {}]
      /\ live' = {} /\ aside' = {} /\ todo' = {}
      /\ UNCHANGED <<disk, cpMap, cpFree, file, saved, log, committed, recovered>>
  BY Zenon DEF Crash, durable
<1>2. Types'
  BY Zenon, <1>1 DEF IInv, Types, TypeOK, Phases, NoRemap
<1>3. file # "complete" => ImageMaps' /\ ImageRows' /\ ImageAccounts'
  BY Zenon, <1>1, ImageFrame DEF IInv
<1>4. file = "complete" => SavedMaps' /\ SavedRows'
  BY Zenon, <1>1, SavedFrame DEF IInv
<1>5. PhaseOK'
  BY Zenon, <1>1 DEF PhaseOK, Working, Rewriting, Recovering, Lost
<1>6. QED
  BY Zenon, <1>1, <1>2, <1>3, <1>4, <1>5 DEF IInv

(* What dbs_from_file reads is an empty commit space on the image, with which  *)
(* roll forward can start.                                                     *)
LEMMA ReplayStarts ==
  ASSUME phase' = "replay", file' # "complete", Types', ImageMaps', ImageRows', ImageAccounts',
         Fresh'
  PROVE  IInv'
<1> USE ExtentsApart, MarksAreNoPages DEF Page
<1>1. /\ \A l \in Logical : remap'[l] = None
      /\ cptRemap' = cpMap' /\ free' = cpFree' /\ dirty' = {} /\ live' = {} /\ aside' = {}
  BY Zenon DEF Fresh, NoRemap
<1>2. MemMaps'
  BY <1>1 DEF MemMaps, ImageMaps, Types, TypeOK
<1>3. MemAccounts'
  BY Zenon, <1>1 DEF MemAccounts, ImageAccounts
<1>4. ASSUME NEW l \in Logical
      PROVE  /\ InTree(l)' <=> l \notin cpFree'
             /\ Contents(l)' = disk'[ImageAddress(l)']
  BY Zenon, <1>1 DEF InTree, Contents, Physical, ImageAddress
<1>5. RowsApart' /\ Replaying'
  BY <1>4 DEF RowsApart, Replaying, ImageRows
<1>6. MemRows'
  BY Zenon, <1>1, <1>5 DEF MemRows
<1>7. QED
  BY Zenon, <1>2, <1>3, <1>6, InWorking DEF Working

LEMMA StartIInv ==
  ASSUME IInv, Start
  PROVE  IInv'
<1>1. /\ phase = "down" /\ cptRemap' = cpMap /\ free' = cpFree'
      /\ cpFree' = IF file = "complete" THEN saved.free ELSE cpFree
      /\ phase' = CASE file \in {"empty", "complete"} -> "recovering"
                    [] file = "begun" -> "renaming"
                    [] file = "absent" -> "replay"
      /\ todo' = IF file = "complete" THEN {l \in Logical : saved.map[l] # None} ELSE {}
      /\ UNCHANGED <<disk, cpMap, file, saved, log, remap, dirty, buf, live, aside, committed,
                     recovered>>
  BY Zenon DEF Start, history
<1>2. Types /\ Lost /\ file \in {"absent", "empty", "begun", "complete"}
  BY Zenon, <1>1 DEF IInv, PhaseOK, Types, TypeOK
<1>3. phase' \in Phases /\ (file = "absent" <=> phase' = "replay")
  BY Zenon, <1>1, <1>2 DEF Phases
<1>4. Types'
  BY Zenon, <1>1, <1>2, <1>3 DEF Types, TypeOK
<1>5. CASE file = "complete"
  <2>1. SavedMaps /\ SavedRows
    BY Zenon, <1>5 DEF IInv
  <2>2. /\ SavedMaps' /\ SavedRows'
        /\ \A k \in Logical : /\ InSaved(k)' <=> InSaved(k)
                              /\ SavedAddress(k)' = SavedAddress(k)
    BY Zenon, <1>1, <2>1, SavedFrame
  <2>3. phase' = "recovering" /\ file' = "complete"
    BY Zenon, <1>1, <1>5
  <2>4. Recovers'
    <3>1. /\ remap' = NoRemap /\ dirty' = {} /\ live' = {} /\ aside' = {}
      BY Zenon, <1>1, <1>2 DEF Lost
    <3>2. ASSUME NEW l \in Logical
          PROVE  /\ l \in todo' => saved'.map[l] # None
                 /\ l \in free' <=>
                      l \in saved'.free \/ (saved'.map[l] = Deleted /\ l \notin todo')
                 /\ InSaved(l) /\ l \notin todo' => disk'[l] = disk'[SavedAddress(l)]
      BY Zenon, <1>1, <1>5, MarksAreNoPages DEF SavedAddress
    <3>3. QED
      BY Zenon, <2>2, <2>3, <3>1, <3>2 DEF Recovers
  <2>5. PhaseOK'
    BY Zenon, <2>3, <2>4 DEF PhaseOK, Working, Rewriting, Recovering
  <2>6. QED
    BY Zenon, <1>4, <2>2, <2>3, <2>5 DEF IInv
<1>6. CASE file # "complete"
  <2>1. ImageMaps' /\ ImageRows' /\ ImageAccounts'
    BY Zenon, <1>1, <1>6, ImageFrame DEF IInv
  <2>2. Fresh'
    BY Zenon, <1>1, <1>2, <1>6 DEF Fresh, Lost
  <2>3. CASE file = "absent"
    BY Zenon, <1>1, <1>3, <1>4, <1>6, <2>1, <2>2, <2>3, ReplayStarts
  <2>4. CASE file \in {"empty", "begun"}
    <3>1. phase' \in {"recovering", "renaming"}
      BY Zenon, <1>1, <2>4
    <3>2. PhaseOK'
      BY Zenon, <1>1, <1>6, <2>2, <3>1 DEF PhaseOK, Working, Rewriting, Recovering
    <3>3. QED
      BY Zenon, <1>1, <1>4, <1>6, <2>1, <3>2 DEF IInv
  <2>5. QED
    BY Zenon, <1>2, <1>6, <2>3, <2>4
<1>7. QED
  BY Zenon, <1>5, <1>6

(* Without a complete recovery file a restart goes back to the image.          *)
LEMMA NoRecoveryIInv ==
  ASSUME IInv, RecovIgnored \/ RecovNoRegistry
  PROVE  IInv'
<1>1. CASE RecovIgnored
  <2>1. /\ phase = "renaming" /\ phase' = "replay" /\ file' = "absent" /\ saved' = NoBackup
        /\ UNCHANGED <<disk, cpMap, cpFree, log, remap, cptRemap, free, dirty, buf, live,
                       aside, todo, committed, recovered>>
    BY Zenon, <1>1 DEF RecovIgnored, Goto, memory, history
  <2>2. file # "complete" /\ Fresh
    BY Zenon, <2>1 DEF IInv, PhaseOK
  <2>3. ImageMaps' /\ ImageRows' /\ ImageAccounts'
    BY Zenon, <2>1, <2>2, ImageFrame DEF IInv
  <2>4. Types'
    BY Zenon, <2>1 DEF IInv, Types, TypeOK, Phases, NoBackup, NoRemap
  <2>5. Fresh'
    BY Zenon, <2>1, <2>2 DEF Fresh
  <2>6. QED
    BY Zenon, <2>1, <2>3, <2>4, <2>5, ReplayStarts
<1>2. CASE RecovNoRegistry
  <2>1. /\ phase = "recovering" /\ phase' = "down" /\ file = "empty"
        /\ cptRemap' = NoRemap /\ free' = {}
        /\ UNCHANGED <<disk, cpMap, cpFree, file, saved, log, remap, dirty, buf, live, aside,
                       todo, committed, recovered>>
    BY Zenon, <1>2 DEF RecovNoRegistry, Goto, durable, history
  <2>2. Fresh
    BY Zenon, <2>1 DEF IInv, PhaseOK
  <2>3. ImageMaps' /\ ImageRows' /\ ImageAccounts'
    BY Zenon, <2>1, ImageFrame DEF IInv
  <2>4. Types'
    BY Zenon, <2>1 DEF IInv, Types, TypeOK, Phases, NoRemap
  <2>5. PhaseOK'
    BY Zenon, <2>1, <2>2 DEF PhaseOK, Working, Rewriting, Recovering, Lost, Fresh
  <2>6. QED
    BY Zenon, <2>1, <2>3, <2>4, <2>5 DEF IInv
<1>3. QED
  BY Zenon, <1>1, <1>2

(* What has to be shown of a step of dbs_cpt_recov. *)
LEMMA InRecovering ==
  ASSUME phase' \in Recovering, file' = "complete", Types', SavedMaps', SavedRows', Recovers'
  PROVE  IInv'
BY Zenon DEF IInv, PhaseOK, Working, Rewriting, Recovering

LEMMA RecoveringFacts ==
  ASSUME IInv, phase \in Recovering, file = "complete"
  PROVE  Types /\ SavedMaps /\ SavedRows /\ Recovers
BY Zenon DEF IInv, PhaseOK

(* dbs_cpt_recov moves a page home: the address is in no other page's entry of *)
(* the recovery file, so dying here and starting again does no harm.           *)
LEMMA RecovPageIInv ==
  ASSUME IInv, NEW l \in todo, RecovPage(l)
  PROVE  IInv'
<1> USE ExtentsApart, MarksAreNoPages DEF Page
<1>1. /\ phase = "recovering"
      /\ disk' = IF saved.map[l] \in Remap THEN [disk EXCEPT ![l] = disk[saved.map[l]]] ELSE disk
      /\ free' = free \cup (IF saved.map[l] = Deleted THEN {l} ELSE {saved.map[l]} \cap Remap)
      /\ todo' = todo \ {l}
      /\ UNCHANGED <<cpMap, cpFree, file, saved, log, phase, remap, cptRemap, dirty, buf,
                     live, aside, committed>>
  BY Zenon DEF RecovPage, history
<1>2. file = "complete"
  BY Zenon, <1>1 DEF IInv, PhaseOK, Fresh
<1>3. Types /\ SavedMaps /\ SavedRows /\ Recovers
  BY Zenon, <1>1, <1>2, RecoveringFacts DEF Recovering
<1>4. l \in Logical /\ saved.map[l] \in Remap \cup {l, Deleted}
  BY Zenon, <1>3 DEF Types, TypeOK, SavedMaps, Recovers
<1>5. Types'
  <2>1. disk' \in [Page -> SUBSET Row]
    BY Zenon, <1>1, <1>3, <1>4 DEF Types, TypeOK
  <2>2. QED
    BY Zenon, <1>1, <1>3, <1>4, <2>1 DEF Types, TypeOK
<1>6. \A k \in Logical : InSaved(k) =>
        SavedAddress(k) \in Page /\ disk'[SavedAddress(k)] = disk[SavedAddress(k)]
  <2>1. ASSUME NEW k \in Logical, InSaved(k)
        PROVE  SavedAddress(k) \in Page /\ (saved.map[l] \in Remap => SavedAddress(k) # l)
    BY Zenon, <1>3, <1>4, <2>1 DEF SavedMaps, InSaved, SavedAddress
  <2>2. QED
    BY Zenon, <1>1, <1>3, <2>1 DEF Types, TypeOK
<1>7. /\ SavedMaps' /\ SavedRows'
      /\ \A k \in Logical : /\ InSaved(k)' <=> InSaved(k)
                            /\ SavedAddress(k)' = SavedAddress(k)
  BY Zenon, <1>1, <1>3, <1>6, SavedFrame
<1>8. ASSUME NEW k \in Logical
      PROVE  /\ k \in todo' => saved.map[k] # None
             /\ k \in free' <=> k \in saved.free \/ (saved.map[k] = Deleted /\ k \notin todo')
  BY Zenon, <1>1, <1>3, <1>4 DEF Recovers, SavedMaps
<1>9. ASSUME NEW k \in Logical, InSaved(k), k \notin todo'
      PROVE  disk'[k] = disk'[SavedAddress(k)]
  <2>1. CASE k = l
    <3>1. CASE saved.map[l] \in Remap
      BY Zenon, <1>1, <1>3, <1>4, <1>6, <1>9, <2>1, <3>1 DEF SavedAddress, Types, TypeOK
    <3>2. CASE saved.map[l] = l
      BY Zenon, <1>4, <2>1, <3>2 DEF SavedAddress
    <3>3. QED
      BY Zenon, <1>4, <1>9, <2>1, <3>1, <3>2 DEF InSaved
  <2>2. CASE k # l
    <3>1. disk[k] = disk[SavedAddress(k)]
      BY Zenon, <1>1, <1>3, <1>9, <2>2 DEF Recovers
    <3>2. disk'[k] = disk[k]
      BY Zenon, <1>1, <1>3, <2>2 DEF Types, TypeOK
    <3>3. QED
      BY Zenon, <1>6, <1>9, <3>1, <3>2
  <2>3. QED
    BY Zenon, <2>1, <2>2
<1>10. Recovers'
  BY Zenon, <1>1, <1>3, <1>7, <1>8, <1>9 DEF Recovers
<1>11. QED
  BY Zenon, <1>1, <1>2, <1>5, <1>7, <1>10, InRecovering DEF Recovering

(* dbs_cpt_recov writes the page sets and the empty checkpoint remap. *)
LEMMA RecovWriteIInv ==
  ASSUME IInv, RecovWriteSets \/ RecovWriteRemap
  PROVE  IInv'
<1>1. /\ \/ /\ phase = "recovering" /\ phase' = "recovered" /\ todo = {} /\ file = "complete"
            /\ cpFree' = free /\ UNCHANGED <<cpMap, cptRemap>>
         \/ /\ phase = "recovered" /\ phase' = "remapless"
            /\ cptRemap' = NoRemap /\ cpMap' = NoRemap /\ UNCHANGED cpFree
      /\ UNCHANGED <<disk, file, saved, log, remap, free, dirty, buf, live, aside, todo,
                     committed>>
  BY Zenon DEF RecovWriteSets, RecovWriteRemap, Goto, memory, history
<1>2. file = "complete"
  BY Zenon, <1>1 DEF IInv, PhaseOK
<1>3. Types /\ SavedMaps /\ SavedRows /\ Recovers
  BY Zenon, <1>1, <1>2, RecoveringFacts DEF Recovering
<1>4. Types'
  BY Zenon, <1>1, <1>3 DEF Types, TypeOK, Phases, NoRemap
<1>5. /\ SavedMaps' /\ SavedRows'
      /\ \A k \in Logical : /\ InSaved(k)' <=> InSaved(k)
                            /\ SavedAddress(k)' = SavedAddress(k)
  BY Zenon, <1>1, <1>3, SavedFrame
<1>6. Recovers'
  BY Zenon, <1>1, <1>3, <1>5 DEF Recovers
<1>7. QED
  BY Zenon, <1>1, <1>2, <1>4, <1>5, <1>6, InRecovering DEF Recovering

(* The recovery file is moved away: every page is at home and the image, with  *)
(* an empty remap, shows what the file had.                                    *)
LEMMA RecovRenameIInv ==
  ASSUME IInv, RecovRename
  PROVE  IInv'
<1> USE ExtentsApart, MarksAreNoPages DEF Page
<1>1. /\ phase = "remapless" /\ phase' = "logged" /\ file' = "absent" /\ saved' = NoBackup
      /\ recovered' = TRUE
      /\ UNCHANGED <<disk, cpMap, cpFree, log, remap, cptRemap, free, dirty, buf, live, aside,
                     todo, committed>>
  BY Zenon DEF RecovRename, Goto, memory
<1>2. file = "complete"
  BY Zenon, <1>1 DEF IInv, PhaseOK
<1>3. Types /\ SavedMaps /\ SavedRows /\ Recovers
  BY Zenon, <1>1, <1>2, RecoveringFacts DEF Recovering
<1>4. Types'
  BY Zenon, <1>1, <1>3 DEF Types, TypeOK, Phases, NoBackup, NoRemap
<1>5. /\ \A l \in Logical : cpMap[l] = None
      /\ cptRemap = cpMap /\ cpFree = free /\ todo = {}
  BY Zenon, <1>1, <1>3 DEF Recovers, NoRemap
<1>6. \A l \in Logical :
        /\ l \notin cpFree <=> InSaved(l)
        /\ InSaved(l) => disk[ImageAddress(l)'] = disk[SavedAddress(l)]
  BY Zenon, <1>1, <1>3, <1>5 DEF Recovers, InSaved, ImageAddress
<1>7. ImageMaps' /\ ImageAccounts'
  BY ZenonT(60), <1>1, <1>5 DEF ImageMaps, ImageAccounts
<1>8. ImageRows' /\ ImageComplete'
  BY <1>1, <1>3, <1>6 DEF ImageRows, ImageComplete, SavedRows
<1>9. Fresh'
  BY Zenon, <1>1, <1>3, <1>5 DEF Fresh, Recovers
<1>10. PhaseOK'
  BY Zenon, <1>1, <1>8, <1>9 DEF PhaseOK, Working, Rewriting, Recovering
<1>11. QED
  BY Zenon, <1>1, <1>4, <1>7, <1>8, <1>10 DEF IInv

(* The log is moved away: the image has what it had. *)
LEMMA RecovRenameLogIInv ==
  ASSUME IInv, RecovRenameLog
  PROVE  IInv'
<1>1. /\ phase = "logged" /\ phase' = "replay" /\ log' = {}
      /\ UNCHANGED <<disk, cpMap, cpFree, file, saved, remap, cptRemap, free, dirty, buf, live,
                     aside, todo, committed, recovered>>
  BY Zenon DEF RecovRenameLog, Goto, memory, history
<1>2. Types /\ file # "complete" /\ Fresh /\ ImageComplete /\ ImageMaps /\ ImageRows /\ ImageAccounts
  BY Zenon, <1>1 DEF IInv, PhaseOK
<1>3. Types'
  BY Zenon, <1>1, <1>2 DEF Types, TypeOK, Phases
<1>4. ImageMaps' /\ ImageAccounts' /\ Fresh'
  BY Zenon, <1>1, <1>2 DEF ImageMaps, ImageAccounts, Fresh
<1>5. ImageRows'
  BY <1>1, <1>2 DEF ImageRows, ImageComplete, ImageAddress
<1>6. QED
  BY Zenon, <1>1, <1>2, <1>3, <1>4, <1>5, ReplayStarts

(* log_init is done when the tree shows what the log has. *)
LEMMA ReplayDoneIInv ==
  ASSUME IInv, ReplayDone
  PROVE  IInv'
<1>1. /\ phase = "replay" /\ phase' = "up" /\ log \subseteq Present
      /\ UNCHANGED <<disk, cpMap, cpFree, file, saved, log, remap, cptRemap, free, dirty, buf,
                     live, aside, todo, committed, recovered>>
  BY Zenon DEF ReplayDone, Goto, durable, memory, history
<1>2. /\ Types /\ ImageMaps /\ MemMaps /\ MemAccounts /\ MemRows /\ ImageRows
      /\ ImageAccounts /\ file # "complete"
  BY Zenon, <1>1, WorkFacts DEF Working
<1>3. Types'
  BY Zenon, <1>1, <1>2 DEF Types, TypeOK, Phases
<1>4. ImageMaps' /\ ImageRows' /\ ImageAccounts' /\ MemMaps' /\ MemAccounts'
  BY Zenon, <1>1, <1>2, MemFrame, ImageFrame
<1>5. RowsApart /\ Replaying /\ live = {} /\ aside = {}
  BY Zenon, <1>1, <1>2 DEF MemRows
<1>6. \A r \in log : \E l \in Logical : InTree(l) /\ r \in Contents(l)
  BY Zenon, <1>1 DEF Present, Tree
<1>7. \A l \in Logical : (InTree(l)' <=> InTree(l)) /\ Contents(l)' = Contents(l)
  BY Zenon, <1>1, TreeFrame
<1>8. RowsApart' /\ Shows(committed \cup (live \ aside))'
  BY <1>1, <1>5, <1>6, <1>7 DEF RowsApart, Shows, Replaying
<1>9. MemRows'
  BY Zenon, <1>1, <1>5, <1>8 DEF MemRows
<1>10. QED
  BY Zenon, <1>1, <1>2, <1>3, <1>4, <1>9, InWorking DEF Working

-----------------------------------------------------------------------------
(* The theorems *)

LEMMA FlushIInv ==
  ASSUME IInv, NEW l \in dirty, Flush(l)
  PROVE  IInv'
<1>1. phase \in Working \cup Rewriting
  <2>1. phase \in Phases /\ phase # "down" /\ dirty # {}
    BY Zenon DEF IInv, Types, Flush
  <2>2. phase # "marked"
    BY Zenon, <2>1 DEF IInv, PhaseOK, MemRows
  <2>3. phase \notin Recovering \cup {"renaming", "logged"}
    BY Zenon, <2>1 DEF IInv, PhaseOK, Recovers, Fresh, Recovering
  <2>4. QED
    BY Zenon, <2>1, <2>2, <2>3 DEF Phases, Working, Rewriting, Recovering
<1>2. QED
  BY Zenon, <1>1, FlushWorking, FlushRewriting

LEMMA StutterIInv ==
  ASSUME IInv, UNCHANGED vars
  PROVE  IInv'
<1>1. UNCHANGED <<disk, cpMap, cpFree, file, saved, log, phase, remap, cptRemap, free, dirty,
                  buf, live, aside, todo, committed, recovered>>
  BY Zenon DEF vars, durable, memory, history
<1>2. Types'
  BY Zenon, <1>1 DEF IInv, Types, TypeOK
<1>3. /\ ImageMaps => ImageMaps'
      /\ ImageRows => ImageRows'
      /\ ImageAccounts => ImageAccounts'
      /\ ImageComplete => ImageComplete'
  BY Zenon, <1>1, ImageFrame
<1>4. /\ SavedMaps => SavedMaps'
      /\ SavedRows => SavedRows'
      /\ \A l \in Logical : /\ InSaved(l)' <=> InSaved(l)
                            /\ SavedAddress(l)' = SavedAddress(l)
  BY Zenon, <1>1, SavedFrame
<1>5. \A l \in Logical : (InTree(l)' <=> InTree(l)) /\ Contents(l)' = Contents(l)
  BY Zenon, <1>1, TreeFrame
<1>6. /\ MemMaps => MemMaps'
      /\ MemAccounts => MemAccounts'
      /\ MemRows => MemRows'
      /\ Rewrites => Rewrites'
      /\ Recovers => Recovers'
  <2>1. MemMaps => MemMaps'
    BY Zenon, <1>1, MemFrame
  <2>2. MemAccounts => MemAccounts'
    BY Zenon, <1>1, MemFrame
  <2>3. MemRows => MemRows'
    BY ZenonT(60), <1>1, <1>3, <1>5, RowsFrame
  <2>4. Rewrites => Rewrites'
    BY <1>1, <1>4, <1>5, <2>2 DEF Rewrites
  <2>5. Recovers => Recovers'
    BY Zenon, <1>1, <1>4 DEF Recovers
  <2>6. QED
    BY Zenon, <2>1, <2>2, <2>3, <2>4, <2>5
<1>7. (Fresh => Fresh') /\ (Lost => Lost') /\ BackupMap' = BackupMap
  BY Zenon, <1>1 DEF Fresh, Lost, BackupMap
<1>8. PhaseOK'
  BY Zenon, <1>1, <1>3, <1>6, <1>7 DEF IInv, PhaseOK
<1>9. QED
  BY Zenon, <1>1, <1>2, <1>3, <1>4, <1>8 DEF IInv

(* Every step of the server, its checkpoint, its death and its restart keeps   *)
(* the views in order.                                                         *)
LEMMA NextIInv == IInv /\ [Next]_vars => IInv'
<1> SUFFICES ASSUME IInv, [Next]_vars PROVE IInv'
  OBVIOUS
<1>1. CASE Work
  BY Zenon, <1>1, InsertIInv, RollbackIInv, SplitIInv, MergeIInv, CommitIInv, FlushIInv DEF Work
<1>2. CASE Checkpoint
  BY Zenon, <1>2, UncommittedIInv, BackupIInv, ContentIInv, MarkIInv, NeodiskIInv, UnremapIInv,
     WriteImageIInv, UnlinkIInv, RestoreRowIInv, LogCheckpointIInv DEF Checkpoint
<1>3. CASE Crash
  BY Zenon, <1>3, CrashIInv
<1>4. CASE Restart
  BY Zenon, <1>4, StartIInv, NoRecoveryIInv, RecovPageIInv, RecovWriteIInv, RecovRenameIInv,
     RecovRenameLogIInv, ReplayRowIInv, ReplayDoneIInv DEF Restart
<1>5. CASE UNCHANGED vars
  BY Zenon, <1>5, StutterIInv
<1>6. QED
  BY Zenon, <1>1, <1>2, <1>3, <1>4, <1>5 DEF Next

LEMMA SpecIInv == Spec => []IInv
BY InitIInv, NextIInv, PTL DEF Spec

(* Whatever dies when, the tables and free sets of dbs_checkpoint,             *)
(* dbs_cpt_recov and the commit space hold page addresses of their kind.       *)
THEOREM TypeCorrect == Spec => []TypeOK
<1>1. IInv => TypeOK
  BY Zenon DEF IInv, Types
<1>2. QED
  BY <1>1, SpecIInv, PTL

(* For any pages, any rows and any number of deaths in dbs_checkpoint,         *)
(* dbs_cpt_recov or roll forward, a server that is up shows the committed and  *)
(* the live rows, each on one page.                                            *)
THEOREM RowsExactCorrect == Spec => []RowsExact
<1>1. IInv => RowsExact
  <2> SUFFICES ASSUME IInv, phase = "up" PROVE
        /\ Present = committed \cup live
        /\ \A l, m \in Tree : l # m => Contents(l) \cap Contents(m) = {}
    BY Zenon DEF RowsExact
  <2>1. RowsApart /\ aside = {} /\ Shows(committed \cup (live \ aside))
    BY Zenon, WorkFacts DEF Working, MemRows
  <2>2. Shows(committed \cup live)
    BY Zenon, <2>1 DEF Shows
  <2>3. Present = committed \cup live
    BY Zenon, <2>2 DEF Present, Tree, Shows
  <2>4. QED
    BY Zenon, <2>1, <2>3 DEF RowsApart, Tree
<1>2. QED
  BY <1>1, SpecIInv, PTL

(* For any pages: the free set offers no page that the commit space or the     *)
(* image uses, no two tree pages share a physical page, and no remap page is   *)
(* lost before dbs_cpt_recov has run.                                          *)
THEOREM PagesAccountedCorrect == Spec => []PagesAccounted
<1>1. IInv => PagesAccounted
  <2> SUFFICES ASSUME IInv, phase = "up" PROVE
        /\ free \cap (Used \cup {ImageAddress(l) : l \in Logical \ cpFree}) = {}
        /\ \A l, m \in Tree : l # m => Physical(l) # Physical(m)
        /\ ~recovered => Remap \subseteq free \cup Used
    BY Zenon DEF PagesAccounted
  <2>1. Types /\ ImageMaps /\ MemMaps /\ MemAccounts
    BY Zenon, WorkFacts DEF Working
  <2>2. \A l \in Logical : remap[l] \notin free /\ cptRemap[l] \notin free
    BY Zenon, <2>1 DEF MemMaps
  <2>3. \A l \in Logical \ cpFree : ImageAddress(l) \notin free
    BY Zenon, <2>1 DEF MemMaps, ImageAddress
  <2>4. free \cap (Used \cup {ImageAddress(l) : l \in Logical \ cpFree}) = {}
    BY Zenon, <2>2, <2>3 DEF Used
  <2>5. \A l, m \in Tree : l # m => Physical(l) # Physical(m)
    BY Zenon, <2>1, TreeFacts DEF Tree
  <2>6. ~recovered => Remap \subseteq free \cup Used
    BY Zenon, <2>1 DEF MemAccounts, Used
  <2>7. QED
    BY Zenon, <2>4, <2>5, <2>6
<1>2. QED
  BY <1>1, SpecIInv, PTL

(* What a restart brings back is exactly what was committed, in every state.   *)
LEMMA RecoverableIsCommitted == IInv => Recoverable = committed
<1> SUFFICES ASSUME IInv PROVE Recoverable = committed
  OBVIOUS
<1>1. CASE file = "complete"
  <2>1. Recoverable = UNION {disk[SavedAddress(l)] : l \in {k \in Logical : InSaved(k)}}
    BY Zenon, <1>1 DEF Recoverable, SavedAddress, InSaved
  <2>2. SavedRows
    BY Zenon, <1>1 DEF IInv
  <2>3. QED
    BY <2>1, <2>2 DEF SavedRows
<1>2. CASE file # "complete"
  <2>1. Recoverable = log \cup UNION {disk[ImageAddress(l)] : l \in Logical \ cpFree}
    BY Zenon, <1>2 DEF Recoverable
  <2>2. ImageRows
    BY Zenon, <1>2 DEF IInv
  <2>3. QED
    BY <2>1, <2>2 DEF ImageRows
<1>3. QED
  BY Zenon, <1>1, <1>2

(* Only a commit makes rows durable, all of a transaction's at once. *)
LEMMA CommittedSteps ==
  ASSUME IInv, [Next]_vars
  PROVE  \/ committed' = committed
         \/ /\ phase = "up" /\ phase' = "up"
            /\ \E rows \in SUBSET Row : /\ rows # {} /\ rows \cap committed = {}
                                        /\ committed' = committed \cup rows
<1>1. CASE \E rows \in SUBSET live \ {{}} : Commit(rows)
  <2>1. PICK rows \in SUBSET live \ {{}} : Commit(rows)
    BY Zenon, <1>1
  <2>2. phase = "up" /\ phase' = "up" /\ committed' = committed \cup rows
    BY Zenon, <2>1 DEF Commit
  <2>3. live \subseteq Row /\ live \cap committed = {}
    BY Zenon, <2>2, WorkFacts DEF Working, Types, TypeOK, MemRows
  <2>4. QED
    BY Zenon, <2>2, <2>3
<1>2. CASE Work /\ ~\E rows \in SUBSET live \ {{}} : Commit(rows)
  BY Zenon, <1>2 DEF Work, Insert, Rollback, Split, Merge, Flush, history
<1>3. CASE Checkpoint
  BY Zenon, <1>3 DEF Checkpoint, cpt_uncommitted, CptOpen, CptBegin, CptContent, CptMark,
     cpt_neodisk_page, cpt_unremap, cpt_write_remap, CptWriteSets, CptUnlink,
     CptRestoreRow, log_checkpoint, history
<1>4. CASE Restart
  BY Zenon, <1>4 DEF Restart, Start, RecovIgnored, RecovNoRegistry, RecovPage, RecovWriteSets,
     RecovWriteRemap, RecovRename, RecovRenameLog, ReplayRow, ReplayDone, history
<1>5. CASE Crash \/ UNCHANGED vars
  BY Zenon, <1>5 DEF Crash, vars, history
<1>6. QED
  BY Zenon, <1>1, <1>2, <1>3, <1>4, <1>5 DEF Next

(* The storage layer implements DurableStore for any pages, rows and number of *)
(* deaths: a checkpoint, a recovery, a roll forward or a background write is a *)
(* step that changes nothing a restart brings back.                            *)
THEOREM DurableCorrect == Spec => Durable
<1>1. Init => DS!Init
  <2> SUFFICES ASSUME Init PROVE Recoverable = {} /\ (phase = "up") = TRUE
    BY Zenon DEF DS!Init
  <2>1. Recoverable = committed
    BY Zenon, InitIInv, RecoverableIsCommitted
  <2>2. QED
    BY Zenon, <2>1 DEF Init
<1>2. IInv /\ IInv' /\ [Next]_vars => [DS!Next]_(DS!vars)
  <2> SUFFICES ASSUME IInv, IInv', [Next]_vars, ~UNCHANGED DS!vars PROVE DS!Next
    OBVIOUS
  <2>1. Recoverable = committed /\ Recoverable' = committed'
    <3>1. Recoverable = committed
      BY Zenon, RecoverableIsCommitted
    <3>2. (IInv => Recoverable = committed)'
      BY RecoverableIsCommitted, PTL
    <3>3. QED
      BY Zenon, <3>1, <3>2
  <2>2. CASE committed' = committed
    <3>1. Recoverable' = Recoverable /\ (phase = "up")' # (phase = "up")
      BY Zenon, <2>1, <2>2 DEF DS!vars
    <3>2. DS!Stop \/ DS!Resume
      BY Zenon, <3>1 DEF DS!Stop, DS!Resume
    <3>3. QED
      BY Zenon, <3>2 DEF DS!Next
  <2>3. CASE /\ phase = "up" /\ phase' = "up"
             /\ \E rows \in SUBSET Row : /\ rows # {} /\ rows \cap committed = {}
                                         /\ committed' = committed \cup rows
    <3>1. PICK rows \in SUBSET Row : /\ rows # {} /\ rows \cap committed = {}
                                     /\ committed' = committed \cup rows
      BY Zenon, <2>3
    <3>2. DS!Commit(rows)
      BY Zenon, <2>1, <2>3, <3>1 DEF DS!Commit
    <3>3. QED
      BY Zenon, <3>2 DEF DS!Next
  <2>4. QED
    BY Zenon, <2>2, <2>3, CommittedSteps
<1>3. Spec => DS!Spec
  BY <1>1, <1>2, SpecIInv, PTL DEF Spec, DS!Spec
<1>4. QED
  BY Zenon, <1>3 DEF Durable

(* The image of the last checkpoint stays as it is, page by page, until a      *)
(* complete recovery file stands in for it, for any pages and rows.            *)
THEOREM ImageStableCorrect == Spec => ImageStable
<1>1. ASSUME IInv, [Next]_vars, file # "complete", NEW l \in Logical
      PROVE  ImagePage(l)' = ImagePage(l)
  <2>1. CASE UNCHANGED <<disk, cpMap, cpFree>>
    BY Zenon, <2>1 DEF ImagePage, ImageAddress
  <2>2. CASE \E k \in dirty : Flush(k)
    <3>1. PICK k \in dirty : Flush(k)
      BY Zenon, <2>2
    <3>2. phase \in Working
      <4>1. phase \in Phases /\ phase # "down" /\ dirty # {}
        BY Zenon, <1>1, <3>1 DEF IInv, Types, Flush
      <4>2. phase \notin Recovering \cup {"renaming", "logged"}
        BY Zenon, <1>1, <4>1 DEF IInv, PhaseOK, Fresh, Recovering
      <4>3. phase \notin Rewriting \cup {"marked"}
        BY Zenon, <1>1 DEF IInv, PhaseOK
      <4>4. QED
        BY Zenon, <4>1, <4>2, <4>3 DEF Phases, Working, Rewriting, Recovering
    <3>3. Types /\ ImageMaps /\ MemMaps
      BY Zenon, <1>1, <3>2, WorkFacts
    <3>4. \A m \in Logical \ cpFree : disk'[ImageAddress(m)] = disk[ImageAddress(m)]
      BY Zenon, <3>1, <3>3, FlushFacts
    <3>5. UNCHANGED <<cpMap, cpFree>>
      BY Zenon, <3>1 DEF Flush
    <3>6. QED
      BY Zenon, <3>4, <3>5 DEF ImagePage, ImageAddress
  <2>3. CASE Work
    <3>1. UNCHANGED <<disk, cpMap, cpFree>> \/ \E k \in dirty : Flush(k)
      BY ZenonT(60), <2>3 DEF Work, Insert, Rollback, Split, Merge, Commit, durable
    <3>2. QED
      BY Zenon, <2>1, <2>2, <3>1
  <2>4. CASE Checkpoint
    <3>1. phase \notin Rewriting
      BY Zenon, <1>1 DEF IInv, PhaseOK
    <3>2. UNCHANGED <<disk, cpMap, cpFree>>
      BY Zenon, <2>4, <3>1 DEF Rewriting, Goto, Checkpoint, cpt_uncommitted, CptOpen, CptBegin,
         CptContent, CptMark, cpt_neodisk_page, cpt_unremap, cpt_write_remap, CptWriteSets,
         CptUnlink, CptRestoreRow, log_checkpoint, durable
    <3>3. QED
      BY Zenon, <2>1, <3>2
  <2>5. CASE Restart
    <3>1. phase # "recovered" /\ (phase = "recovering" => todo = {})
      BY Zenon, <1>1 DEF IInv, PhaseOK, Fresh
    <3>2. UNCHANGED <<disk, cpMap, cpFree>>
      BY Zenon, <1>1, <2>5, <3>1 DEF Goto, Restart, Start, RecovIgnored, RecovNoRegistry, RecovPage,
         RecovWriteSets, RecovWriteRemap, RecovRename, RecovRenameLog, ReplayRow, ReplayDone,
         durable
    <3>3. QED
      BY Zenon, <2>1, <3>2
  <2>6. CASE Crash \/ UNCHANGED vars
    BY Zenon, <2>1, <2>6 DEF Crash, vars, durable
  <2>7. QED
    BY Zenon, <1>1, <2>3, <2>4, <2>5, <2>6 DEF Next
<1> DEFINE Stays == file # "complete" => \A l \in Logical : ImagePage(l)' = ImagePage(l)
<1>2. IInv /\ [Next]_vars => [Stays]_vars
  BY Zenon, <1>1
<1>3. QED
  BY <1>2, SpecIInv, PTL DEF Spec, ImageStable
=============================================================================
