---------------------------- MODULE DirStore_proofs ----------------------------
(***************************************************************************)
(* The directory store keeps what its callers committed, and hands out no  *)
(* page twice, for every number of pages, every size of the caches and     *)
(* every set of contents, wherever the process dies.                       *)
(***************************************************************************)
EXTENDS DirStore, TLAPS

Maps == [Pages -> Bytes \union {None}]

MapsType ==
    /\ pageFile \in Maps /\ logged \in Maps /\ committed \in Maps /\ dirty \in Maps
    /\ preImage \in Maps /\ current \in Maps /\ safe \in Maps
    /\ inTxn \in BOOLEAN /\ up \in BOOLEAN /\ (~up => pc = "idle")

\* The committed pages are those a replay of the log finds.
LogHolds == up => \A p \in Pages \ doubtful : committed[p] = logged[p]

\* A checkpoint: the files that were written hold what was committed.
Checkpointed ==
    pc = "pages" => /\ todo \subseteq Held(committed)
                    /\ \A p \in Held(committed) \ todo : pageFile[p] = committed[p]

\* The callers' pages are the safe ones under the transaction's.
Callers == \A p \in Pages :
               current[p] = IF inTxn /\ dirty[p] # None THEN dirty[p] ELSE safe[p]

RestartInv == MapsType /\ RestartKeeps /\ LogHolds /\ Checkpointed /\ Callers

LEMMA OverFacts ==
    ASSUME NEW m \in Maps, NEW n \in Maps
    PROVE  /\ Over(m, n) \in Maps
           /\ \A p \in Pages : Over(m, n)[p] = IF m[p] # None THEN m[p] ELSE n[p]
BY DEF Over, Maps

LEMMA OneWritten ==
    ASSUME NEW p \in Pages, NEW b \in Bytes
    PROVE  /\ [NoPages EXCEPT ![p] = b] \in Maps
           /\ \A q \in Pages : [NoPages EXCEPT ![p] = b][q] = IF q = p THEN b ELSE None
           /\ b # None
BY Sentinels DEF NoPages, Maps, Bytes

LEMMA InitRestartInv == Init => RestartInv
BY DEF Init, RestartInv, MapsType, Maps, NoPages, RestartKeeps, LogHolds, Checkpointed, Callers,
       Over, Held

\* The pages as the transaction logic sees them.
kept == <<pageFile, logged, committed, dirty, preImage, inTxn, current, safe, doubtful>>

\* A step that leaves the pages alone.
LEMMA SameKept ==
    ASSUME RestartInv, UNCHANGED kept, up' = up, up \/ UNCHANGED pc,
           pc' # "pages" \/ UNCHANGED <<pc, todo>> \/ todo' = Held(committed)
    PROVE  RestartInv'
BY DEF RestartInv, kept, MapsType, RestartKeeps, LogHolds, Checkpointed, Callers, Over, Held

\* A write, in a transaction or outside.
LEMMA WalWriteKeeps ==
    ASSUME RestartInv, Idle, pc' \in {"idle", "meta"}, NEW w \in Maps, WalWrite(w),
           UNCHANGED <<pageFile, up, inTxn>>, preImage' \in Maps
    PROVE  RestartInv'
<1>1. CASE inTxn
  <2>1. /\ UNCHANGED <<committed, logged, safe, doubtful>>
        /\ dirty' = Over(w, dirty) /\ current' = Over(w, current)
    BY <1>1 DEF WalWrite
  <2>2. MapsType'
    BY <2>1, OverFacts DEF Idle, RestartInv, MapsType
  <2>3. Callers'
    BY <1>1, <2>1, OverFacts DEF RestartInv, MapsType, Callers
  <2>4. RestartKeeps' /\ LogHolds' /\ Checkpointed'
    BY <2>1 DEF RestartInv, RestartKeeps, LogHolds, Checkpointed, Over
  <2> QED
    BY <2>2, <2>3, <2>4 DEF RestartInv
<1>2. CASE ~inTxn
  <2>1. /\ UNCHANGED dirty /\ doubtful' = doubtful \ Held(w)
        /\ committed' = Over(w, committed) /\ logged' = Over(w, logged)
        /\ current' = Over(w, current) /\ safe' = Over(w, safe)
    BY <1>2 DEF WalWrite
  <2>2. MapsType'
    BY <2>1, OverFacts DEF Idle, RestartInv, MapsType
  <2>3. Callers'
    BY <1>2, <2>1, OverFacts DEF RestartInv, MapsType, Callers
  <2>4. LogHolds'
    BY <2>1, OverFacts DEF RestartInv, MapsType, LogHolds, Held
  <2>5. RestartKeeps'
    <3> SUFFICES ASSUME NEW p \in Pages \ doubtful'
                 PROVE  Over(logged', pageFile')[p] = safe'[p]
      BY DEF RestartKeeps
    <3>1. /\ Over(logged', pageFile)[p] = IF logged'[p] # None THEN logged'[p] ELSE pageFile[p]
          /\ Over(logged, pageFile)[p] = IF logged[p] # None THEN logged[p] ELSE pageFile[p]
      BY <2>2, OverFacts DEF RestartInv, MapsType
    <3>2. CASE w[p] # None
      BY <3>1, <3>2, <2>1, OverFacts DEF RestartInv, MapsType
    <3>3. CASE w[p] = None
      BY <3>1, <3>3, <2>1, OverFacts DEF RestartInv, MapsType, RestartKeeps, Held
    <3> QED
      BY <3>2, <3>3
  <2> QED
    BY <2>2, <2>3, <2>4, <2>5 DEF RestartInv, Checkpointed
<1> QED
  BY <1>1, <1>2 DEF RestartInv, MapsType

LEMMA KeepType == ASSUME RestartInv, NEW p \in Pages, Keep(p) PROVE preImage' \in Maps
<1>1. DiskBytes(p) \in Bytes \union {None}
  BY DEF RestartInv, MapsType, Maps, DiskBytes, FileBytes, WalPage, Bytes
<1> QED
  BY <1>1 DEF RestartInv, MapsType, Maps, Keep

LEMMA WriteNodeKeeps ==
    ASSUME RestartInv, NEW p \in Pages, NEW b \in Vals, WriteNode(p, b) PROVE RestartInv'
<1>1. [NoPages EXCEPT ![p] = b] \in Maps
  BY OneWritten DEF Bytes
<1> QED
  BY <1>1, KeepType, WalWriteKeeps DEF WriteNode, Idle

LEMMA WriteBatchKeeps ==
    ASSUME RestartInv, NEW w \in Batches, WriteBatch(w) PROVE RestartInv'
<1>1. w \in Maps /\ preImage' \in Maps
  BY DEF Batches, Maps, Bytes, WriteBatch, RestartInv, MapsType
<1> QED
  BY <1>1, WalWriteKeeps DEF WriteBatch, Idle

LEMMA AllocKeeps == ASSUME RestartInv, Alloc PROVE RestartInv'
<1>1. count \in Pages => [NoPages EXCEPT ![count] = Blank] \in Maps
  BY OneWritten DEF Bytes
<1>2. count \notin Pages => [NoPages EXCEPT ![count] = Blank] = NoPages
  BY DEF NoPages
<1>3. NoPages \in Maps
  BY DEF NoPages, Maps
<1>4. preImage' \in Maps
  BY DEF Alloc, RestartInv, MapsType
<1> QED
  BY <1>1, <1>2, <1>3, <1>4, WalWriteKeeps DEF Alloc, Idle

LEMMA BeginKeeps == ASSUME RestartInv, Begin PROVE RestartInv'
<1>1. NoPages \in Maps /\ \A p \in Pages : NoPages[p] = None
  BY DEF NoPages, Maps
<1> QED
  <2>1. /\ MapsType' /\ Callers' /\ Checkpointed'
    BY <1>1 DEF Begin, Idle, files, RestartInv, MapsType, Checkpointed, Callers
  <2>2. LogHolds' /\ RestartKeeps'
    BY DEF Begin, Idle, files, RestartInv, LogHolds, RestartKeeps, Over
  <2> QED
    BY <2>1, <2>2 DEF RestartInv

LEMMA CommitKeeps == ASSUME RestartInv, Commit PROVE RestartInv'
<1>1. NoPages \in Maps /\ \A p \in Pages : NoPages[p] = None
  BY DEF NoPages, Maps
<1>2. /\ MapsType' /\ Callers' /\ LogHolds' /\ Checkpointed'
  <2>1. MapsType' /\ Callers' /\ Checkpointed'
    BY <1>1, OverFacts DEF Commit, Idle, RestartInv, MapsType, Checkpointed, Callers
  <2>2. LogHolds'
    BY OverFacts DEF Commit, Idle, RestartInv, MapsType, LogHolds, Held
  <2> QED
    BY <2>1, <2>2
<1>3. RestartKeeps'
  <2> SUFFICES ASSUME NEW p \in Pages \ doubtful'
               PROVE  Over(logged', pageFile')[p] = safe'[p]
    BY DEF RestartKeeps
  <2>1. /\ Over(logged', pageFile)[p] = IF logged'[p] # None THEN logged'[p] ELSE pageFile[p]
        /\ Over(logged, pageFile)[p] = IF logged[p] # None THEN logged[p] ELSE pageFile[p]
        /\ logged'[p] = IF dirty[p] # None THEN dirty[p] ELSE logged[p]
    BY <1>2, OverFacts DEF Commit, RestartInv, MapsType
  <2>2. CASE dirty[p] # None
    BY <2>1, <2>2 DEF Commit, RestartInv, Callers
  <2>3. CASE dirty[p] = None
    BY <2>1, <2>3 DEF Commit, RestartInv, Callers, RestartKeeps, Held
  <2> QED
    BY <2>2, <2>3
<1> QED
  BY <1>2, <1>3 DEF RestartInv

\* An image that is put back, and not doubted, is what the log holds already.
LEMMA RollbackKeeps == ASSUME RestartInv, Rollback PROVE RestartInv'
<1>1. NoPages \in Maps /\ \A p \in Pages : NoPages[p] = None
  BY DEF NoPages, Maps
<1>2. /\ MapsType' /\ Callers' /\ Checkpointed' /\ RestartKeeps'
  <2>1. MapsType' /\ Callers' /\ Checkpointed'
    BY <1>1, OverFacts DEF Rollback, files, Idle, RestartInv, MapsType, Checkpointed, Callers
  <2>2. RestartKeeps'
    BY DEF Rollback, files, RestartInv, RestartKeeps, Over
  <2> QED
    BY <2>1, <2>2
<1>3. LogHolds'
  <2> SUFFICES ASSUME NEW p \in Pages \ doubtful' PROVE committed'[p] = logged[p]
    BY DEF LogHolds, Rollback, files
  <2>1. committed'[p] = IF preImage[p] # None THEN preImage[p] ELSE committed[p]
    BY OverFacts DEF Rollback, RestartInv, MapsType
  <2>2. CASE preImage[p] # None
    <3>1. preImage[p] = safe[p] /\ logged[p] # None
      BY <2>2 DEF Rollback, Held
    <3>2. safe[p] = Over(logged, pageFile)[p]
      BY DEF Rollback, RestartInv, RestartKeeps
    <3> QED
      BY <2>1, <2>2, <3>1, <3>2, OverFacts DEF RestartInv, MapsType
  <2>3. CASE preImage[p] = None
    BY <2>1, <2>3 DEF Rollback, RestartInv, LogHolds, Idle
  <2> QED
    BY <2>2, <2>3
<1> QED
  BY <1>2, <1>3 DEF RestartInv

\* The file of a page that the log holds may be cut and written.
LEMMA FilePage ==
    ASSUME RestartInv, up, pc = "pages", NEW p \in todo,
           NEW b \in Bytes, pageFile' = [pageFile EXCEPT ![p] = b],
           UNCHANGED <<logged, up, wal, pc, ghosts>>,
           todo' = todo \/ (b = committed[p] /\ todo' = todo \ {p})
    PROVE  RestartInv'
<1>1. p \in Pages /\ committed[p] # None
  BY DEF RestartInv, Checkpointed, Held
<1>2. MapsType' /\ Callers' /\ LogHolds'
  BY <1>1 DEF RestartInv, MapsType, Maps, Callers, LogHolds, wal, ghosts
<1>3. Checkpointed'
  BY <1>1 DEF RestartInv, MapsType, Maps, Checkpointed, Held, wal
<1>4. RestartKeeps'
  <2> SUFFICES ASSUME NEW q \in Pages \ doubtful
               PROVE  Over(logged, pageFile')[q] = safe[q]
    BY DEF RestartKeeps, ghosts
  <2>1. q = p => logged[q] # None
    BY <1>1 DEF RestartInv, LogHolds
  <2>2. logged[q] = None => pageFile'[q] = pageFile[q]
    BY <2>1 DEF RestartInv, MapsType, Maps
  <2>3. Over(logged, pageFile')[q] = Over(logged, pageFile)[q]
    BY <2>2 DEF Over
  <2> QED
    BY <2>3 DEF RestartInv, RestartKeeps
<1> QED
  BY <1>2, <1>3, <1>4 DEF RestartInv

LEMMA EmptyLogKeeps == ASSUME RestartInv, EmptyLog PROVE RestartInv'
<1>1. NoPages \in Maps /\ \A p \in Pages : NoPages[p] = None
  BY DEF NoPages, Maps
<1>2. /\ MapsType' /\ Callers' /\ LogHolds' /\ Checkpointed'
  BY <1>1
  DEF EmptyLog, RestartInv, MapsType, LogHolds, Checkpointed, Callers, ghosts
<1>3. RestartKeeps'
  <2> SUFFICES ASSUME NEW p \in Pages \ doubtful
               PROVE  Over(NoPages, pageFile)[p] = safe[p]
    BY DEF RestartKeeps, EmptyLog, ghosts
  <2>1. logged[p] # None => logged[p] = pageFile[p]
    BY DEF EmptyLog, RestartInv, LogHolds, Checkpointed, Held
  <2> QED
    BY <2>1, <1>1, OverFacts DEF RestartInv, MapsType, RestartKeeps
<1> QED
  BY <1>2, <1>3 DEF RestartInv

LEMMA CrashKeeps == ASSUME RestartInv, Crash PROVE RestartInv'
<1>1. NoPages \in Maps /\ \A p \in Pages : NoPages[p] = None
  BY DEF NoPages, Maps
<1> QED
  BY <1>1
  DEF Crash, files, RestartInv, MapsType, RestartKeeps, LogHolds, Checkpointed, Callers

LEMMA OpenKeeps == ASSUME RestartInv, Open PROVE RestartInv'
<1>1. MapsType' /\ LogHolds' /\ Checkpointed' /\ Callers'
  BY DEF Open, files, RestartInv, MapsType, LogHolds, Checkpointed, Callers
<1>2. RestartKeeps'
  BY DEF Open, files, RestartInv, RestartKeeps, Over
<1> QED
  BY <1>1, <1>2 DEF RestartInv

LEMMA NextRestartInv == RestartInv /\ [Next]_vars => RestartInv'
<1> SUFFICES ASSUME RestartInv, [Next]_vars PROVE RestartInv'
  OBVIOUS
<1> USE DEF kept, files, wal, caches, ghosts
<1>1. ASSUME NEW p \in Pages, ReadNodeAbove(p) \/ ReadNodeBelow(p) \/ ReadPage(p)
      PROVE  RestartInv'
  BY <1>1, SameKept DEF ReadNodeAbove, ReadNodeBelow, ReadPage
<1>2. CASE ClearCache \/ SetCatalogRoot \/ Flush
  BY <1>2, SameKept DEF ClearCache, SetCatalogRoot, Flush, Idle
<1>3. CASE CutMeta \/ FillMeta
  BY <1>3, SameKept DEF CutMeta, FillMeta
<1>4. ASSUME NEW p \in Pages, CutPage(p) PROVE RestartInv'
  BY <1>4, FilePage DEF CutPage, Bytes
<1>5. ASSUME NEW p \in Pages, FillPage(p) PROVE RestartInv'
  <2>1. committed[p] \in Bytes
    BY <1>5 DEF FillPage, RestartInv, MapsType, Maps, Checkpointed, Held
  <2> QED
    BY <1>5, <2>1, FilePage DEF FillPage
<1>6. ASSUME NEW p \in Written, NEW b \in Vals, WriteNode(p, b) PROVE RestartInv'
  BY <1>6, WriteNodeKeeps, PageNumbers DEF Pages
<1>7. CASE UNCHANGED vars
  BY <1>7, SameKept DEF vars
<1> QED
  BY <1>1, <1>2, <1>3, <1>4, <1>5, <1>6, <1>7, WriteBatchKeeps, AllocKeeps, BeginKeeps, CommitKeeps, RollbackKeeps,
     EmptyLogKeeps, CrashKeeps, OpenKeeps
  DEF Next

\* What a call committed is found by the next process, whenever this one dies
\* (dir_btree_storage.rs:502).
THEOREM RestartsKeep == Spec => []RestartKeeps
<1>1. RestartInv => RestartKeeps
  BY DEF RestartInv
<1> QED
  BY InitRestartInv, NextRestartInv, <1>1, PTL DEF Spec

---------------------------------------------------------------------------
(***************************************************************************)
(* The page count.  What a transaction wrote is counted as well, and       *)
(* between calls catalog.meta has the count of the process.                *)
(***************************************************************************)
Blanks == {None, Blank}

CountInv ==
    /\ ~up => pc = "idle"
    /\ ~lost =>
          /\ count \in Nat /\ meta \in Nat \union {Cut}
          /\ up /\ pc \in {"idle", "pages"} => meta = count
          /\ \A p \in Pages : safe[p] \notin Blanks \/ current[p] \notin Blanks =>
                 /\ up => p < count
                 /\ meta # Cut => p < meta

LEMMA InitCountInv == Init => CountInv
BY DEF Init, CountInv, Blanks, NoPages

\* A step that leaves the count alone, and gives no page new contents.
LEMMA SameCount ==
    ASSUME CountInv,
           UNCHANGED <<up, count, meta, lost>>,
           pc' = pc \/ (up /\ ~lost /\ pc = "idle" /\ pc' = "pages") \/ (up /\ pc' = "meta"),
           \A p \in Pages : /\ current'[p] \in Blanks \union {current[p], safe[p]}
                            /\ safe'[p] \in Blanks \union {current[p], safe[p]}
    PROVE  CountInv'
BY DEF CountInv

\* A write within the count.
LEMMA WriteCount ==
    ASSUME CountInv, NEW q \in Pages, NEW b \in Vals, WriteNode(q, b) PROVE CountInv'
<1> DEFINE w == [NoPages EXCEPT ![q] = b]
<1>1. \A p \in Pages : p # q => w[p] = None
  BY DEF NoPages
<1>2. \A p \in Pages : p # q => current'[p] = current[p] \/ current'[p] = None
  BY <1>1 DEF WriteNode, WalWrite, Over
<1>3. \A p \in Pages : p # q => safe'[p] = safe[p] \/ safe'[p] = None
  BY <1>1 DEF WriteNode, WalWrite, Over
<1> QED
  BY <1>2, <1>3 DEF WriteNode, CountInv, Idle, Blanks

LEMMA BatchCount ==
    ASSUME CountInv, NEW w \in Batches, WriteBatch(w) PROVE CountInv'
<1>1. up /\ ~lost /\ count \in Nat /\ meta = count /\ UNCHANGED <<up, lost, pc, meta, count>>
  BY DEF WriteBatch, CountInv, Idle
<1>2. ASSUME NEW p \in Pages, safe'[p] \notin Blanks \/ current'[p] \notin Blanks
      PROVE  p < count
  <2>1. w[p] # None => p < count
    BY DEF Batches, Held
  <2>2. CASE w[p] = None
    <3>1. /\ current'[p] = current[p] \/ current'[p] = None
          /\ safe'[p] = safe[p] \/ safe'[p] = None
      BY <2>2 DEF WriteBatch, WalWrite, Over
    <3>2. safe[p] \notin Blanks \/ current[p] \notin Blanks
      BY <1>2, <3>1 DEF Blanks
    <3> QED
      BY <1>1, <3>2 DEF CountInv
  <2> QED
    BY <2>1, <2>2
<1>3. \A p \in Pages : safe'[p] \notin Blanks \/ current'[p] \notin Blanks => p < count' /\ p < meta'
  BY <1>1, <1>2
<1> QED
  BY <1>1, <1>3 DEF CountInv

LEMMA AllocCount == ASSUME CountInv, Alloc PROVE CountInv'
<1> DEFINE w == [NoPages EXCEPT ![count] = Blank]
<1>1. \A p \in Pages : w[p] \in Blanks
  BY DEF NoPages, Blanks
<1>2. \A p \in Pages : /\ current'[p] \in Blanks \union {current[p]}
                       /\ safe'[p] \in Blanks \union {safe[p]}
  BY <1>1 DEF Alloc, WalWrite, Over
<1> QED
  BY <1>2 DEF Alloc, CountInv, Idle, Pages

LEMMA NextCountInv == CountInv /\ [Next]_vars => CountInv'
<1> SUFFICES ASSUME CountInv, [Next]_vars PROVE CountInv'
  OBVIOUS
<1> USE DEF files, wal, caches, ghosts
<1>1. ASSUME NEW p \in Pages, ReadNodeAbove(p) \/ ReadNodeBelow(p) \/ ReadPage(p)
      PROVE  CountInv'
  BY <1>1, SameCount DEF ReadNodeAbove, ReadNodeBelow, ReadPage
<1>2. CASE ClearCache \/ SetCatalogRoot \/ Flush
  BY <1>2, SameCount DEF ClearCache, SetCatalogRoot, Flush, Idle
<1>3. ASSUME NEW p \in Pages, CutPage(p) \/ FillPage(p) PROVE CountInv'
  BY <1>3, SameCount DEF CutPage, FillPage
<1>4. CASE Begin \/ Commit \/ Rollback
  BY <1>4, SameCount DEF Begin, Commit, Rollback
<1>5. CASE EmptyLog
  BY <1>5, SameCount DEF EmptyLog
<1>6. CASE CutMeta
  BY <1>6 DEF CutMeta, CountInv
<1>7. CASE FillMeta
  BY <1>7 DEF FillMeta, CountInv
<1>8. CASE Crash
  BY <1>8 DEF Crash, CountInv
<1>9. CASE Open
  BY <1>9 DEF Open, CountInv
<1>10. ASSUME NEW p \in Written, NEW b \in Vals, WriteNode(p, b) PROVE CountInv'
  BY <1>10, WriteCount, PageNumbers DEF Pages
<1>11. CASE UNCHANGED vars
  BY <1>11, SameCount DEF vars
<1> QED
  BY <1>1, <1>2, <1>3, <1>4, <1>5, <1>6, <1>7, <1>8, <1>9, <1>10, <1>11, BatchCount,
     AllocCount
  DEF Next

\* alloc_page hands out no page that holds something, in this process or the
\* next (dir_btree_storage.rs:492).
THEOREM PagesAreCounted == Spec => []PagesCounted
<1>1. CountInv => PagesCounted
  BY DEF CountInv, PagesCounted, Blanks
<1> QED
  BY InitCountInv, NextCountInv, <1>1, PTL DEF Spec


---------------------------------------------------------------------------
(***************************************************************************)
(* What a process reads.  The callers' pages are followed from the caches  *)
(* down: a cached node is what the callers made of the page, a page of the *)
(* log is what a replay finds, and a file is what the last checkpoint      *)
(* wrote.  The bytes of the byte cache and of a pooled handle may be older,*)
(* and those pages are seen; a node that write_batch left is overtaken.    *)
(***************************************************************************)

\* Bytes were read of every page with a handle at its file's end or bytes cached.
BytesSeen == pool \union Held(byteCache) \subseteq seen

\* Only pages that were counted are cached as nodes, so that alloc_page hands
\* out none of them.
NodesCounted ==
    /\ nodeCache \in Maps /\ byteCache \in Maps
    /\ count \in Nat /\ meta \in Nat \union {Cut}
    /\ \A p \in Held(nodeCache) : up /\ p < count

\* A cached node is what the transaction made of the page, and the callers.
NodesCurrent ==
    /\ ~inTxn => dirty = NoPages
    /\ \A p \in Held(nodeCache) \ (seen \union overtaken) :
          /\ dirty[p] # None => nodeCache[p] = dirty[p]
          /\ p \notin doubtful => nodeCache[p] = current[p]

ReadInv == BytesSeen /\ NodesCounted /\ NodesCurrent

LEMMA InitReadInv == Init => ReadInv
BY DEF Init, ReadInv, BytesSeen, NodesCounted, NodesCurrent, Maps, NoPages, Held

\* A step that leaves alone what the invariant speaks of.
LEMMA SameReads ==
    ASSUME ReadInv,
           UNCHANGED <<nodeCache, byteCache, pool, seen, overtaken, dirty, inTxn, current, doubtful,
                       up, count>>,
           meta' \in Nat \union {Cut}
    PROVE  ReadInv'
BY DEF ReadInv, BytesSeen, NodesCounted, NodesCurrent, Held

\* A step after which no node is cached.
LEMMA NoNodes ==
    ASSUME nodeCache' = NoPages, byteCache' = NoPages, pool' \subseteq seen',
           dirty' = NoPages \/ UNCHANGED <<dirty, inTxn>>, ReadInv,
           count' = count \/ count' = 0, UNCHANGED meta
    PROVE  ReadInv'
<1>1. NoPages \in Maps /\ Held(NoPages) = {}
  BY DEF NoPages, Maps, Held
<1> QED
  BY <1>1 DEF ReadInv, BytesSeen, NodesCounted, NodesCurrent, Held

\* put of a cache puts the page, and of the other pages drops one at most.
LEMMA PutsFacts ==
    ASSUME NEW c \in Maps, NEW p \in Pages, NEW b \in Bytes \union {None}, NEW room,
           NEW d \in Puts(c, p, b, room)
    PROVE  /\ d \in Maps /\ d[p] = b
           /\ \A q \in Pages : q # p => d[q] = c[q] \/ d[q] = None
<1>1. PICK q \in Pages : d = [c EXCEPT ![q] = None, ![p] = b]
  BY DEF Puts, Held
<1> QED
  BY <1>1 DEF Maps

\* The bytes of a page are a page's, or none.
LEMMA BytesType ==
    ASSUME RestartInv, ReadInv, NEW p \in Pages
    PROVE  DiskBytes(p) \in Bytes \union {None} /\ PageBytes(p) \in Bytes \union {None}
           /\ WalPage(p) \in Bytes \union {None}
BY DEF RestartInv, MapsType, ReadInv, NodesCounted, Maps, DiskBytes, PageBytes, FileBytes, WalPage,
       Bytes

\* A page of the buffer or of the committed pages is what the callers made of it.
LEMMA WalCurrent ==
    ASSUME RestartInv, ReadInv, up, NEW p \in Pages \ doubtful, WalPage(p) # None
    PROVE  WalPage(p) = current[p]
<1>1. CASE dirty[p] # None
  <2>1. inTxn
    BY <1>1 DEF ReadInv, NodesCurrent, NoPages
  <2> QED
    BY <1>1, <2>1 DEF WalPage, RestartInv, Callers
<1>2. CASE dirty[p] = None
  <2>1. committed[p] = logged[p] /\ logged[p] # None
    BY <1>2 DEF WalPage, RestartInv, LogHolds
  <2>2. Over(logged, pageFile)[p] = logged[p]
    BY <2>1, OverFacts DEF RestartInv, MapsType
  <2>3. safe[p] = logged[p]
    BY <2>2 DEF RestartInv, RestartKeeps
  <2> QED
    BY <1>2, <2>1, <2>3 DEF WalPage, RestartInv, Callers
<1> QED
  BY <1>1, <1>2

LEMMA AboveReads ==
    ASSUME RestartInv, ReadInv, NEW p \in Pages, ReadNodeAbove(p) PROVE ReadInv'
<1>1. /\ nodeCache' \in Maps /\ nodeCache'[p] = WalPage(p)
      /\ \A q \in Pages : q # p => nodeCache'[q] = nodeCache[q] \/ nodeCache'[q] = None
  BY BytesType, PutsFacts DEF ReadNodeAbove, PutNode, ReadInv, NodesCounted
<1>2. UNCHANGED <<byteCache, pool, seen, dirty, inTxn, current, doubtful, up, count, meta>>
      /\ up /\ p < count /\ WalPage(p) # None /\ overtaken' = overtaken \intersect Held(nodeCache')
  BY DEF ReadNodeAbove, PutNode, Idle, files, wal
<1>3. BytesSeen' /\ NodesCounted'
  BY <1>1, <1>2 DEF ReadInv, BytesSeen, NodesCounted, Held
<1>4. NodesCurrent'
  <2>1. p \notin doubtful => nodeCache'[p] = current[p]
    BY <1>1, <1>2, WalCurrent
  <2>2. dirty[p] # None => nodeCache'[p] = dirty[p]
    BY <1>1 DEF WalPage
  <2> QED
    BY <1>1, <1>2, <2>1, <2>2 DEF ReadInv, NodesCurrent, Held
<1> QED
  BY <1>3, <1>4 DEF ReadInv

\* The bytes that ReadNodeBelow and ReadPage bring into the byte cache.
LEMMA PutBytesSeen ==
    ASSUME RestartInv, ReadInv, NEW p \in Pages, PutBytes(p), ReadFile(p),
           seen' = seen \union {p}
    PROVE  BytesSeen' /\ byteCache' \in Maps
<1>1. /\ byteCache' \in Maps
      /\ \A q \in Pages : q # p => byteCache'[q] = byteCache[q] \/ byteCache'[q] = None
  BY BytesType, PutsFacts DEF PutBytes, ReadInv, NodesCounted
<1> QED
  BY <1>1 DEF ReadInv, BytesSeen, ReadFile, Held

LEMMA BelowReads ==
    ASSUME RestartInv, ReadInv, NEW p \in Pages, ReadNodeBelow(p) PROVE ReadInv'
<1>1. /\ nodeCache' \in Maps
      /\ \A q \in Pages : q # p => nodeCache'[q] = nodeCache[q] \/ nodeCache'[q] = None
  BY BytesType, PutsFacts DEF ReadNodeBelow, PutNode, ReadInv, NodesCounted
<1>2. /\ UNCHANGED <<dirty, inTxn, current, doubtful, up, count, meta>>
      /\ up /\ p < count /\ seen' = seen \union {p}
      /\ overtaken' = overtaken \intersect Held(nodeCache')
  BY DEF ReadNodeBelow, PutNode, Idle, files, wal
<1>3. BytesSeen' /\ byteCache' \in Maps
  <2>1. CASE byteCache[p] # None
    BY <1>2, <2>1 DEF ReadNodeBelow, ReadInv, BytesSeen, NodesCounted, Held
  <2>2. CASE byteCache[p] = None
    BY <1>2, <2>2, PutBytesSeen DEF ReadNodeBelow
  <2> QED
    BY <2>1, <2>2
<1>4. NodesCounted'
  BY <1>1, <1>2, <1>3 DEF ReadInv, NodesCounted, Held
<1>5. NodesCurrent'
  BY <1>1, <1>2 DEF ReadInv, NodesCurrent, Held
<1> QED
  BY <1>3, <1>4, <1>5 DEF ReadInv

LEMMA PageReads ==
    ASSUME RestartInv, ReadInv, NEW p \in Pages, ReadPage(p) PROVE ReadInv'
<1>1. UNCHANGED <<nodeCache, overtaken, dirty, inTxn, current, doubtful, up, count, meta>>
      /\ seen' = seen \union {p}
  BY DEF ReadPage, files, wal
<1>2. BytesSeen' /\ byteCache' \in Maps
  BY <1>1, PutBytesSeen DEF ReadPage
<1>3. NodesCounted' /\ NodesCurrent'
  BY <1>1, <1>2 DEF ReadInv, NodesCounted, NodesCurrent, Held
<1> QED
  BY <1>2, <1>3 DEF ReadInv

\* What a write changes of the pages that are not written.
LEMMA BatchElsewhere ==
    ASSUME RestartInv, NEW w \in Maps, WalWrite(w)
    PROVE  \A q \in Pages : w[q] = None => /\ dirty'[q] = dirty[q] /\ current'[q] = current[q]
                                           /\ q \notin doubtful' => q \notin doubtful
<1>1. \A q \in Pages : w[q] = None => Over(w, dirty)[q] = dirty[q] /\ Over(w, current)[q] = current[q]
  BY OverFacts DEF RestartInv, MapsType
<1>2. \A q \in Pages : w[q] = None => q \notin Held(w)
  BY DEF Held
<1>3. /\ dirty' = Over(w, dirty) \/ dirty' = dirty
      /\ current' = Over(w, current)
      /\ doubtful' = doubtful \/ doubtful' = doubtful \ Held(w)
  BY DEF WalWrite
<1> QED
  BY <1>1, <1>2, <1>3

LEMMA WriteElsewhere ==
    ASSUME RestartInv, NEW p \in Pages, NEW b \in Bytes, WalWrite([NoPages EXCEPT ![p] = b])
    PROVE  \A q \in Pages : q # p => /\ dirty'[q] = dirty[q] /\ current'[q] = current[q]
                                     /\ q \notin doubtful' => q \notin doubtful
<1> DEFINE w == [NoPages EXCEPT ![p] = b]
<1>1. w \in Maps /\ \A q \in Pages : q # p => w[q] = None
  BY OneWritten
<1>2. WalWrite(w)
  OBVIOUS
<1> HIDE DEF w
<1> QED
  BY <1>1, <1>2, BatchElsewhere

LEMMA WriteReads ==
    ASSUME RestartInv, ReadInv, NEW p \in Pages, NEW b \in Vals, WriteNode(p, b) PROVE ReadInv'
<1>1. /\ UNCHANGED <<byteCache, inTxn, up, count, meta>>
      /\ nodeCache' = [nodeCache EXCEPT ![p] = None]
      /\ overtaken' = overtaken \intersect Held(nodeCache')
  BY DEF WriteNode, DropNode
<1>2. /\ nodeCache' \in Maps /\ nodeCache'[p] = None
      /\ \A q \in Pages : q # p => nodeCache'[q] = nodeCache[q]
  BY <1>1 DEF ReadInv, NodesCounted, Maps
<1>3. seen \subseteq seen' /\ pool' \subseteq pool \union (seen' \ seen) \union {q \in {p} : p \in seen'}
  BY DEF WriteNode, Keep, ReadFile
<1>4. BytesSeen' /\ NodesCounted'
  BY <1>1, <1>2, <1>3 DEF ReadInv, BytesSeen, NodesCounted, Held
<1>5. NodesCurrent'
  <2>1. \A q \in Pages : q # p => /\ dirty'[q] = dirty[q] /\ current'[q] = current[q]
                                  /\ q \notin doubtful' => q \notin doubtful
    BY WriteElsewhere DEF WriteNode, Bytes
  <2>2. ~inTxn => dirty' = dirty
    BY DEF WriteNode, WalWrite
  <2> QED
    BY <1>1, <1>2, <1>3, <2>1, <2>2 DEF ReadInv, NodesCurrent, Held
<1> QED
  BY <1>4, <1>5 DEF ReadInv

\* A cached node of a page that the batch writes is overtaken.
LEMMA BatchReads ==
    ASSUME RestartInv, ReadInv, NEW w \in Batches, WriteBatch(w) PROVE ReadInv'
<1>1. /\ UNCHANGED <<nodeCache, byteCache, pool, seen, inTxn, up, count, meta>>
      /\ overtaken' = overtaken \union (Held(w) \intersect Held(nodeCache))
  BY DEF WriteBatch, caches
<1>2. BytesSeen' /\ NodesCounted'
  BY <1>1 DEF ReadInv, BytesSeen, NodesCounted
<1>3. NodesCurrent'
  <2>1. w \in Maps
    BY DEF Batches, Maps, Bytes
  <2>2. \A q \in Pages : w[q] = None => /\ dirty'[q] = dirty[q] /\ current'[q] = current[q]
                                        /\ q \notin doubtful' => q \notin doubtful
    BY <2>1, BatchElsewhere DEF WriteBatch
  <2>3. ~inTxn => dirty' = dirty
    BY DEF WriteBatch, WalWrite
  <2>4. \A q \in Held(nodeCache') \ (seen' \union overtaken') :
           w[q] = None /\ q \in Held(nodeCache) \ (seen \union overtaken)
    BY <1>1 DEF Held
  <2> QED
    BY <1>1, <2>2, <2>3, <2>4 DEF ReadInv, NodesCurrent, Held
<1> QED
  BY <1>2, <1>3 DEF ReadInv

LEMMA AllocReads == ASSUME RestartInv, ReadInv, Alloc PROVE ReadInv'
<1>1. /\ UNCHANGED <<nodeCache, byteCache, pool, seen, overtaken, inTxn, up, meta>> /\ count' = count + 1
      /\ count \in Pages /\ nodeCache[count] = None
  <2>1. count \in Pages
    BY PageNumbers DEF Alloc, ReadInv, NodesCounted, Pages
  <2>2. nodeCache[count] = None
    BY <2>1 DEF ReadInv, NodesCounted, Held
  <2> QED
    BY <2>1, <2>2 DEF Alloc, caches
<1>2. BytesSeen' /\ NodesCounted'
  BY <1>1 DEF ReadInv, BytesSeen, NodesCounted, Held, Pages
<1>3. NodesCurrent'
  <2>1. \A q \in Pages : q # count => /\ dirty'[q] = dirty[q] /\ current'[q] = current[q]
                                      /\ q \notin doubtful' => q \notin doubtful
    BY <1>1, WriteElsewhere DEF Alloc, Bytes
  <2>2. ~inTxn => dirty' = dirty
    BY DEF Alloc, WalWrite
  <2> QED
    BY <1>1, <2>1, <2>2 DEF ReadInv, NodesCurrent, Held
<1> QED
  BY <1>2, <1>3 DEF ReadInv

\* A node of the transaction that begin_txn throws away is doubted.
LEMMA BeginReads == ASSUME RestartInv, ReadInv, Begin PROVE ReadInv'
<1>1. /\ UNCHANGED <<nodeCache, byteCache, pool, seen, overtaken, up, count, meta>>
      /\ dirty' = NoPages /\ inTxn' = TRUE /\ current' = safe
      /\ doubtful' = doubtful \union (Held(dirty) \intersect Held(nodeCache))
  BY DEF Begin, caches, files
<1>2. \A p \in Pages : NoPages[p] = None
  BY DEF NoPages
<1>3. \A p \in Pages : dirty[p] = None => current[p] = safe[p]
  BY DEF RestartInv, Callers
<1> QED
  BY <1>1, <1>2, <1>3 DEF ReadInv, BytesSeen, NodesCounted, NodesCurrent, Held

\* A node of the transaction that commit_txn keeps is the callers'.
LEMMA CommitReads == ASSUME RestartInv, ReadInv, Commit PROVE ReadInv'
<1>1. /\ UNCHANGED <<nodeCache, byteCache, pool, seen, overtaken, up, count, meta, current>>
      /\ dirty' = NoPages /\ doubtful' = doubtful \ Held(dirty) /\ inTxn
  BY DEF Commit, caches
<1>2. \A p \in Pages : NoPages[p] = None
  BY DEF NoPages
<1>3. \A p \in Pages : dirty[p] # None => current[p] = dirty[p]
  BY <1>1 DEF RestartInv, Callers
<1> QED
  BY <1>1, <1>2, <1>3 DEF ReadInv, BytesSeen, NodesCounted, NodesCurrent, Held

LEMMA OpenReads == ASSUME ReadInv, Open PROVE ReadInv'
<1>1. /\ UNCHANGED <<nodeCache, byteCache, pool, seen, overtaken, dirty, inTxn, current, doubtful, meta>>
      /\ ~up /\ count' = IF meta = Cut THEN 0 ELSE meta
  BY DEF Open, caches, files
<1>2. Held(nodeCache) = {}
  BY <1>1 DEF ReadInv, NodesCounted
<1> QED
  BY <1>1, <1>2 DEF ReadInv, BytesSeen, NodesCounted, NodesCurrent, Held

LEMMA NextReadInv == RestartInv /\ ReadInv /\ [Next]_vars => ReadInv'
<1> SUFFICES ASSUME RestartInv, ReadInv, [Next]_vars PROVE ReadInv'
  OBVIOUS
<1> USE DEF files, wal, caches, ghosts
<1>1. meta \in Nat \union {Cut} /\ count \in Nat
  BY DEF ReadInv, NodesCounted
<1>2. CASE ClearCache
  BY <1>2, NoNodes DEF ClearCache
<1>3. CASE Rollback
  BY <1>3, NoNodes DEF Rollback, ForgetCaches
<1>4. CASE Crash
  BY <1>4, NoNodes DEF Crash
<1>5. CASE SetCatalogRoot \/ Flush
  BY <1>1, <1>5, SameReads DEF SetCatalogRoot, Flush
<1>6. ASSUME NEW p \in Pages, CutPage(p) \/ FillPage(p) PROVE ReadInv'
  BY <1>1, <1>6, SameReads DEF CutPage, FillPage
<1>7. CASE EmptyLog
  BY <1>1, <1>7, SameReads DEF EmptyLog
<1>8. CASE CutMeta \/ FillMeta
  BY <1>1, <1>8, SameReads DEF CutMeta, FillMeta
<1>9. ASSUME NEW p \in Written, NEW b \in Vals, WriteNode(p, b) PROVE ReadInv'
  BY <1>9, WriteReads, PageNumbers DEF Pages
<1>10. CASE UNCHANGED vars
  BY <1>1, <1>10, SameReads DEF vars
<1> QED
  BY <1>2, <1>3, <1>4, <1>5, <1>6, <1>7, <1>8, <1>9, <1>10, AboveReads, BelowReads, PageReads,
     BatchReads, AllocReads, BeginReads, CommitReads, OpenReads
  DEF Next

LEMMA InvariantReads == RestartInv /\ ReadInv => ReadsCurrent
<1> SUFFICES ASSUME RestartInv, ReadInv, Idle,
                    NEW p \in Held(current) \ (doubtful \union seen \union overtaken)
             PROVE  View(p) = current[p]
  BY DEF ReadsCurrent
<1>1. up /\ p \in Pages /\ current[p] # None /\ p \notin doubtful /\ p \notin seen /\ p \notin overtaken
  BY DEF Idle, Held
<1>2. CASE nodeCache[p] # None
  BY <1>1, <1>2 DEF View, ReadInv, NodesCurrent, Held
<1>3. CASE nodeCache[p] = None /\ WalPage(p) # None
  BY <1>1, <1>3, WalCurrent DEF View
<1>4. CASE nodeCache[p] = None /\ WalPage(p) = None
  <2>1. byteCache[p] = None /\ p \notin pool
    BY <1>1 DEF ReadInv, BytesSeen, Held
  <2>2. dirty[p] = None /\ committed[p] = None
    BY <1>4 DEF WalPage
  <2>3. current[p] = safe[p] /\ logged[p] = None
    BY <1>1, <2>2 DEF RestartInv, Callers, LogHolds
  <2>4. pageFile[p] = safe[p]
    BY <1>1, <2>3, OverFacts DEF RestartInv, MapsType, RestartKeeps
  <2> QED
    BY <1>1, <1>4, <2>1, <2>3, <2>4 DEF View, PageBytes, DiskBytes, FileBytes
<1> QED
  BY <1>2, <1>3, <1>4

\* A process that has not read the bytes of a page since it cleared its caches, and
\* holds no node of it that write_batch left behind, reads what was last written to
\* it (dir_btree_storage.rs:467).
THEOREM ReadsAreCurrent == Spec => []ReadsCurrent
BY InitRestartInv, NextRestartInv, InitReadInv, NextReadInv, InvariantReads, PTL DEF Spec

================================================================================
