------------------------------ MODULE DirStore ------------------------------
(***************************************************************************)
(* DirStorage (pager/dir_btree_storage.rs): a store with a file per page,  *)
(* a file for the page count, and the log of Wal.  A page can be in six    *)
(* places: the transaction's buffer, the map of committed pages, the log,  *)
(* the node cache, the byte cache and its file.                            *)
(*                                                                         *)
(* The log's frames are those of DiskPager, which shows that one write of  *)
(* a commit frame makes a transaction durable; here logged[p] is what a    *)
(* replay would find.  fs::write cuts a file before it writes it, and the  *)
(* process may die in between.                                             *)
(***************************************************************************)
EXTENDS Naturals, FiniteSets

CONSTANTS
    NumPages,     \* bound: page ids are 0 .. NumPages - 1
    Written,      \* bound: the pages that nodes are written to
    Vals,         \* page contents
    Blank,        \* the zero page of alloc_page
    None,         \* "not there"
    Cut,          \* no bytes: of a file that was cut, or from the end of a file
    NodeRoom,     \* NODE_CACHE_MAX_SIZE
    ByteRoom      \* pages that fit the byte cache

ASSUME PageNumbers == NumPages \in Nat /\ Written \subseteq 0 .. NumPages - 1
ASSUME Sentinels == None \notin Vals \union {Blank, Cut} /\ Cut \notin Nat

Pages == 0 .. NumPages - 1
Bytes == Vals \union {Blank, Cut}

VARIABLES
    pageFile,     \* the .page files
    meta,         \* catalog.meta: the page count, or Cut
    logged,       \* what a replay of the log finds
    frames,       \* has the log any frame? (Wal.frame_count > 0)
    up, count,                           \* an open store, page_count
    committed, dirty, preImage, inTxn,   \* Wal
    nodeCache, byteCache,                \* NodeCache, PageCache
    pool,         \* pages with a handle at its file's end in FileHandleCache
    pc, todo,     \* what the call in progress has yet to write, and to which files
    current,      \* history: what the callers made of each page
    safe,         \* history: what they made of it outside a transaction
    doubtful,     \* history: pages the store changed, or rewrites, by itself
    lost,         \* history: catalog.meta was found cut
    seen,         \* history: pages whose bytes were read since the caches were cleared
    overtaken     \* history: pages whose cached node write_batch left behind

files  == <<pageFile, meta, logged, frames>>
wal    == <<committed, dirty, preImage, inTxn>>
caches == <<nodeCache, byteCache, pool>>
ghosts == <<current, safe, doubtful, lost, seen, overtaken>>
vars   == <<files, up, count, wal, caches, pc, todo, ghosts>>

NoPages    == [p \in Pages |-> None]
Held(m)    == {p \in Pages : m[p] # None}
Over(m, n) == [p \in Pages |-> IF m[p] # None THEN m[p] ELSE n[p]]

Init ==
    /\ pageFile = NoPages /\ logged = NoPages /\ frames = FALSE
    /\ meta = 0 /\ up = TRUE /\ count = 0
    /\ committed = NoPages /\ dirty = NoPages /\ preImage = NoPages /\ inTxn = FALSE
    /\ nodeCache = NoPages /\ byteCache = NoPages /\ pool = {}
    /\ pc = "idle" /\ todo = {}
    /\ current = NoPages /\ safe = NoPages /\ doubtful = {} /\ lost = FALSE /\ seen = {}
    /\ overtaken = {}

\* bound: a process that found catalog.meta cut, and hands out every page again,
\* is followed no further.
Idle == up /\ pc = "idle" /\ ~lost

---------------------------------------------------------------------------
(***************************************************************************)
(* The places a page is read from.                                         *)
(***************************************************************************)
WalPage(p) == IF dirty[p] # None THEN dirty[p] ELSE committed[p]

\* read_page_from_disk.  A handle of the pool shares its offset with the one it
\* was cloned from, so only the first read of a file gets its bytes.
FileBytes(p) == IF pageFile[p] # None /\ p \in pool THEN Cut ELSE pageFile[p]
DiskBytes(p) == IF pageFile[p] # None THEN FileBytes(p) ELSE WalPage(p)
ReadFile(p)  == pool' = IF pageFile[p] \notin {None, Cut} THEN pool \union {p} ELSE pool

\* read_page: the byte cache, then the disk.
PageBytes(p) == IF byteCache[p] # None THEN byteCache[p] ELSE DiskBytes(p)

\* What read_node returns; Cut does not decode, None is no page.
View(p) ==
    IF nodeCache[p] # None THEN nodeCache[p]
    ELSE IF WalPage(p) # None THEN WalPage(p) ELSE PageBytes(p)

\* Mutation: a cache that never makes room.
PutsBeyond(c, p, b, room) == {[c EXCEPT ![p] = b]}

\* put of a cache: at its limit the page used least recently goes, which can be
\* any; it can be the page that is put.
Puts(c, p, b, room) ==
    {[c EXCEPT ![q] = None, ![p] = b] :
        q \in IF Cardinality(Held(c)) >= room THEN Held(c) ELSE {p}}

PutNode(p, b) == /\ nodeCache' \in Puts(nodeCache, p, b, NodeRoom)
                 /\ overtaken' = overtaken \intersect Held(nodeCache')
PutBytes(p)   == byteCache' \in Puts(byteCache, p, DiskBytes(p), ByteRoom)

(***************************************************************************)
(* read_node and the reads that go round the node cache.                   *)
(***************************************************************************)
ReadNodeAbove(p) ==
    /\ Idle /\ p < count /\ nodeCache[p] = None /\ WalPage(p) # None
    /\ PutNode(p, WalPage(p))
    /\ UNCHANGED <<files, up, count, wal, byteCache, pool, pc, todo, current, safe, doubtful, lost, seen>>

ReadNodeBelow(p) ==
    /\ Idle /\ p < count /\ nodeCache[p] = None /\ WalPage(p) = None
    /\ PageBytes(p) \notin {None, Cut}
    /\ IF byteCache[p] # None THEN UNCHANGED <<byteCache, pool>> ELSE PutBytes(p) /\ ReadFile(p)
    /\ PutNode(p, PageBytes(p))
    /\ seen' = seen \union {p}
    /\ UNCHANGED <<files, up, count, wal, pc, todo, current, safe, doubtful, lost>>

\* read_pages, read_page_range, prefetch: bytes for the byte cache.
ReadPage(p) ==
    /\ Idle /\ byteCache[p] = None /\ DiskBytes(p) # None
    /\ PutBytes(p) /\ ReadFile(p)
    /\ seen' = seen \union {p}
    /\ UNCHANGED <<files, up, count, wal, nodeCache, pc, todo, current, safe, doubtful, lost, overtaken>>

ClearCache ==
    /\ Idle /\ caches # <<NoPages, NoPages, {}>>
    /\ nodeCache' = NoPages /\ byteCache' = NoPages /\ pool' = {}
    /\ seen' = {} /\ overtaken' = {}
    /\ UNCHANGED <<files, up, count, wal, pc, todo, current, safe, doubtful, lost>>

(***************************************************************************)
(* Writes.  write_node keeps an image for rollback, of the page's file if  *)
(* there is one; it drops the node, and leaves the bytes where they are.   *)
(***************************************************************************)
Keep(p) ==
    LET image == DiskBytes(p)
    IN  IF inTxn /\ image # None
        THEN /\ ReadFile(p) /\ seen' = seen \union {p}
             /\ preImage' = IF preImage[p] = None THEN [preImage EXCEPT ![p] = image] ELSE preImage
        ELSE UNCHANGED <<pool, preImage, seen>>

\* Mutation: the node of a written page stays in the cache.
KeepNode(p) == UNCHANGED nodeCache

DropNode(p) == nodeCache' = [nodeCache EXCEPT ![p] = None]

\* Wal::write_page, Wal::write_batch: into the transaction, or committed at once.
WalWrite(written) ==
    /\ IF inTxn
       THEN dirty' = Over(written, dirty) /\ UNCHANGED <<committed, logged, frames>>
       ELSE /\ committed' = Over(written, committed) /\ logged' = Over(written, logged)
            /\ frames' = TRUE /\ UNCHANGED dirty
    /\ current' = Over(written, current)
    /\ safe' = IF inTxn THEN safe ELSE Over(written, safe)
    /\ doubtful' = IF inTxn THEN doubtful ELSE doubtful \ Held(written)

WriteNode(p, b) ==
    /\ Idle /\ p < count
    /\ Keep(p) /\ DropNode(p)
    /\ WalWrite([NoPages EXCEPT ![p] = b])
    /\ overtaken' = overtaken \intersect Held(nodeCache')
    /\ UNCHANGED <<pageFile, meta, up, count, inTxn, byteCache, pc, todo, lost>>

\* write_batch (no caller in the repository): pages go to the log in one
\* transaction.  No image is kept, and no cached node is dropped.
Batches == {w \in [Pages -> Vals \union {None}] : \A p \in Held(w) : p \in Written /\ p < count}

WriteBatch(written) ==
    /\ Idle
    /\ WalWrite(written)
    /\ overtaken' = overtaken \union (Held(written) \intersect Held(nodeCache))
    /\ UNCHANGED <<pageFile, meta, up, count, preImage, inTxn, caches, pc, todo, lost, seen>>

\* Mutation: the count is left in memory until the next flush.
AllocUnsaved ==
    /\ Idle /\ count < NumPages
    /\ count' = count + 1
    /\ WalWrite([NoPages EXCEPT ![count] = Blank])
    /\ UNCHANGED <<pageFile, meta, up, preImage, inTxn, caches, pc, todo, lost, seen, overtaken>>

\* alloc_page: the page goes to the log, the count to catalog.meta, at once.
Alloc ==
    /\ Idle /\ count < NumPages
    /\ count' = count + 1
    /\ WalWrite([NoPages EXCEPT ![count] = Blank])
    /\ pc' = "meta"
    /\ UNCHANGED <<pageFile, meta, up, preImage, inTxn, caches, todo, lost, seen, overtaken>>

\* set_catalog_root.  The root has no reader (DynStorage does not pass on
\* catalog_root), so only the writing of catalog.meta is left of it.
SetCatalogRoot ==
    /\ Idle /\ pc' = "meta"
    /\ UNCHANGED <<files, up, count, wal, caches, todo, ghosts>>

Begin ==
    /\ Idle
    /\ dirty' = NoPages /\ preImage' = NoPages /\ inTxn' = TRUE
    /\ current' = safe
    /\ doubtful' = doubtful \union (Held(dirty) \intersect Held(nodeCache))
    /\ UNCHANGED <<files, up, count, committed, caches, pc, todo, safe, lost, seen,
                   overtaken>>

Commit ==
    /\ Idle /\ inTxn /\ inTxn' = FALSE
    /\ logged' = Over(dirty, logged) /\ frames' = TRUE
    /\ committed' = Over(dirty, committed) /\ dirty' = NoPages
    /\ safe' = current /\ doubtful' = doubtful \ Held(dirty)
    /\ UNCHANGED <<pageFile, meta, up, count, preImage, caches, pc, todo, current, lost, seen,
                   overtaken>>

\* Mutation: rollback that leaves the node cache alone.
ForgetBytes == byteCache' = NoPages /\ UNCHANGED <<nodeCache, pool>>

ForgetCaches == byteCache' = NoPages /\ nodeCache' = NoPages /\ UNCHANGED pool

\* rollback_txn: the images become the committed pages, and the caches go.  An
\* image can be the wrong one; and one that the log does not hold is in danger,
\* since the next flush cuts its file to write the same bytes again.
Rollback ==
    /\ Idle
    /\ committed' = Over(preImage, committed)
    /\ dirty' = NoPages /\ preImage' = NoPages /\ inTxn' = FALSE
    /\ ForgetCaches
    /\ current' = safe
    /\ doubtful' = doubtful \union {p \in Held(preImage) : preImage[p] # safe[p] \/ logged[p] = None}
    /\ seen' = pool /\ overtaken' = overtaken \intersect Held(nodeCache')
    /\ UNCHANGED <<files, up, count, pc, todo, safe, lost>>

(***************************************************************************)
(* flush: when the log has frames, Wal::checkpoint writes every committed  *)
(* page to its file, in any order, and empties the log; then catalog.meta. *)
(***************************************************************************)
Flush ==
    /\ Idle
    /\ IF frames THEN pc' = "pages" /\ todo' = Held(committed) ELSE pc' = "meta" /\ UNCHANGED todo
    /\ UNCHANGED <<files, up, count, wal, caches, ghosts>>

CutPage(p) ==
    /\ up /\ pc = "pages" /\ p \in todo
    /\ pageFile' = [pageFile EXCEPT ![p] = Cut]
    /\ UNCHANGED <<meta, logged, frames, up, count, wal, caches, pc, todo, ghosts>>

FillPage(p) ==
    /\ up /\ pc = "pages" /\ p \in todo /\ pageFile[p] = Cut
    /\ pageFile' = [pageFile EXCEPT ![p] = committed[p]]
    /\ todo' = todo \ {p}
    /\ UNCHANGED <<meta, logged, frames, up, count, wal, caches, pc, ghosts>>

\* Mutation: the log is emptied before the pages are written.
EmptyLogEarly ==
    /\ up /\ pc = "pages"
    /\ logged' = NoPages /\ frames' = FALSE /\ committed' = NoPages
    /\ pc' = "meta"
    /\ UNCHANGED <<pageFile, meta, up, count, dirty, preImage, inTxn, caches, todo, ghosts>>

EmptyLog ==
    /\ up /\ pc = "pages" /\ todo = {}
    /\ logged' = NoPages /\ frames' = FALSE /\ committed' = NoPages
    /\ pc' = "meta"
    /\ UNCHANGED <<pageFile, meta, up, count, dirty, preImage, inTxn, caches, todo, ghosts>>

\* write_catalog
CutMeta ==
    /\ up /\ pc = "meta" /\ meta' = Cut
    /\ pc' = "metaFill"
    /\ UNCHANGED <<pageFile, logged, frames, up, count, wal, caches, todo, ghosts>>

FillMeta ==
    /\ up /\ pc = "metaFill"
    /\ meta' = count
    /\ pc' = "idle"
    /\ UNCHANGED <<pageFile, logged, frames, up, count, wal, caches, todo, ghosts>>

(***************************************************************************)
(* The process ends, also by the panic of a read whose bytes do not decode.*)
(***************************************************************************)
Crash ==
    /\ up /\ ~lost /\ up' = FALSE
    /\ count' = 0
    /\ committed' = NoPages /\ dirty' = NoPages /\ preImage' = NoPages /\ inTxn' = FALSE
    /\ nodeCache' = NoPages /\ byteCache' = NoPages /\ pool' = {}
    /\ pc' = "idle" /\ todo' = {}
    /\ current' = safe /\ seen' = {} /\ overtaken' = {}
    /\ UNCHANGED <<files, safe, doubtful, lost>>

\* open: the log is replayed; a catalog.meta that was cut counts no page.
Open ==
    /\ ~up /\ up' = TRUE
    /\ committed' = logged
    /\ count' = IF meta = Cut THEN 0 ELSE meta
    /\ lost' = (lost \/ meta = Cut)
    /\ UNCHANGED <<files, dirty, preImage, inTxn, caches, pc, todo, current, safe, doubtful, seen,
                   overtaken>>

Next ==
    \/ \E p \in Pages :
          \/ ReadNodeAbove(p) \/ ReadNodeBelow(p) \/ ReadPage(p)
          \/ CutPage(p) \/ FillPage(p)
    \/ \E p \in Written, b \in Vals : WriteNode(p, b)
    \/ \E w \in Batches : WriteBatch(w)
    \/ ClearCache \/ Alloc \/ SetCatalogRoot \/ Begin \/ Commit \/ Rollback
    \/ Flush \/ EmptyLog \/ CutMeta \/ FillMeta \/ Crash \/ Open

Spec == Init /\ [][Next]_vars

---------------------------------------------------------------------------
TypeOK ==
    /\ \A m \in {pageFile, logged, committed, dirty, preImage, nodeCache, byteCache, current, safe} :
          m \in [Pages -> Bytes \union {None}]
    /\ meta \in (0 .. NumPages) \union {Cut}
    /\ count \in 0 .. NumPages
    /\ pool \subseteq {p \in Pages : pageFile[p] # None}
    /\ pc \in {"idle", "pages", "meta", "metaFill"} /\ todo \subseteq Held(committed)
    /\ Cardinality(Held(nodeCache)) <= NodeRoom /\ Cardinality(Held(byteCache)) <= ByteRoom

\* A process that has not read the bytes of a page since it cleared its caches
\* reads what was last written to it (dir_btree_storage.rs:467): no cache, buffer
\* or image hides it.  Once read, a handle or the byte cache can show older bytes;
\* and a node cached before write_batch wrote its page hides what was written, for
\* as long as it is cached (dir_btree_storage.rs:464).
ReadsCurrent ==
    Idle => \A p \in Held(current) \ (doubtful \union seen \union overtaken) : View(p) = current[p]

\* What a call committed is found by the next process wherever this one dies,
\* also between the cut and the write of a file (dir_btree_storage.rs:502).
RestartKeeps == \A p \in Pages \ doubtful : Over(logged, pageFile)[p] = safe[p]

\* alloc_page hands out no page that holds something, in this process or the
\* next (dir_btree_storage.rs:492), unless catalog.meta was found cut.
PagesCounted ==
    ~lost => \A p \in Pages : safe[p] \notin {None, Blank} =>
                 /\ up => p < count
                 /\ meta # Cut => p < meta
=============================================================================
