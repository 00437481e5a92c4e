------------------------------ MODULE LsmStore ------------------------------
(***************************************************************************)
(* LsmStorage (pager/dir_lsmtree_storage.rs): pages are written to a table *)
(* in memory, which a flush writes to a numbered file and its index; no    *)
(* file is ever written twice.  A read asks memory, then the files level   *)
(* by level.  There is no log: what was not flushed dies with the process. *)
(***************************************************************************)
EXTENDS Naturals, Sequences, FiniteSets, SequencesExt

CONSTANTS
    PageIds,       \* page ids 0 ..
    Contents,      \* what callers write
    Zeroes, Absent,\* the blank page of alloc_page; "not there"
    MaxTables,     \* bound: files made, over all sessions
    MemThreshold,  \* mem_threshold, in pages written
    CompactAt      \* tables in level 0 that compact moves (4)

Ids      == 1 .. MaxTables
PageMap  == [PageIds -> Contents \union {Zeroes, Absent}]
NoData   == [p \in PageIds |-> Absent]
Holds(m) == {p \in PageIds : m[p] # Absent}

ASSUME AbsentAssumption == Absent \notin Contents \union {Zeroes} \union PageMap
ASSUME MaxTablesAssumption == MaxTables \in Nat

VARIABLES
    tables,        \* the files: per id what its index leads to, Absent: no file
    opened,        \* is the store open?
    mem, memSize,  \* mem_table, mem_size in pages
    l0, l1,        \* the ids of each level, in the order they are searched
    nextId,        \* next_file_id
    pageCount,
    flushing,      \* is a flush in progress?
    unindexed,     \* the pages its index has yet to list
    written,       \* history: what the callers last made of each page
    flushed        \* history: what they made of it at the last flush

lsmMemory  == <<mem, memSize, l0, l1, nextId, pageCount>>
lsmHistory == <<written, flushed>>
lsmFlush   == <<flushing, unindexed>>
lsmVars    == <<tables, opened, lsmMemory, lsmFlush, lsmHistory>>

LsmInit ==
    /\ tables = [id \in Ids |-> Absent] /\ opened = TRUE
    /\ mem = NoData /\ memSize = 0 /\ l0 = << >> /\ l1 = << >>
    /\ nextId = 1 /\ pageCount = 0 /\ flushing = FALSE /\ unindexed = {}
    /\ written = NoData /\ flushed = NoData

Files == {id \in Ids : tables[id] # Absent}
Calm  == opened /\ ~flushing
Room  == nextId \in Ids

---------------------------------------------------------------------------
\* Mutation: the older level first.
SearchedOldFirst == l1 \o l0

\* The tables in the order read_node asks them; l2 is always empty.
Searched == l0 \o l1

\* The places in a list of tables where one has the page.
With(p, ids) == {i \in DOMAIN ids : tables[ids[i]][p] # Absent}

FirstOf(places) == CHOOSE i \in places : \A j \in places : i <= j

\* read_node; Absent is the panic "page not found".
LsmView(p) ==
    IF mem[p] # Absent THEN mem[p]
    ELSE IF With(p, Searched) # {} THEN tables[Searched[FirstOf(With(p, Searched))]][p]
    ELSE Absent

\* The inherent flush: an empty table needs none.  The file comes first.
StartFlush(m) ==
    IF Holds(m) = {} THEN UNCHANGED <<tables, lsmFlush>>
    ELSE /\ tables' = [tables EXCEPT ![nextId] = NoData]
         /\ flushing' = TRUE /\ unindexed' = Holds(m)

\* write_node; the size counts every write, and at the threshold a flush starts.
LsmWrite(p, b) ==
    /\ Calm /\ Room /\ written[p] # Absent
    /\ mem' = [mem EXCEPT ![p] = b]
    /\ memSize' = memSize + 1
    /\ IF memSize' >= MemThreshold THEN StartFlush(mem') ELSE UNCHANGED <<tables, lsmFlush>>
    /\ written' = [written EXCEPT ![p] = b]
    /\ UNCHANGED <<opened, l0, l1, nextId, pageCount, flushed>>

LsmAlloc ==
    /\ Calm /\ pageCount \in PageIds
    /\ pageCount' = pageCount + 1
    /\ mem' = [mem EXCEPT ![pageCount] = Zeroes]
    /\ written' = [written EXCEPT ![pageCount] = Zeroes]
    /\ UNCHANGED <<tables, opened, memSize, l0, l1, nextId, lsmFlush, flushed>>

\* commit_txn, which flushes; begin_txn does nothing.
LsmCommit ==
    /\ Calm /\ Room /\ StartFlush(mem)
    /\ UNCHANGED <<opened, lsmMemory, lsmHistory>>

\* SSTable::create: the index is written after the data, page by page.
IndexPage ==
    /\ flushing /\ unindexed # {}
    /\ LET p == CHOOSE q \in unindexed : \A r \in unindexed : q <= r
       IN  /\ tables' = [tables EXCEPT ![nextId][p] = mem[p]]
           /\ unindexed' = unindexed \ {p}
    /\ UNCHANGED <<opened, lsmMemory, flushing, lsmHistory>>

\* Mutation: the number of the next file is not moved on.
SameId == nextId

NewId == nextId + 1

\* The new table is searched last of level 0, and the memory is free.
EndFlush ==
    /\ flushing /\ unindexed = {} /\ flushing' = FALSE
    /\ l0' = Append(l0, nextId) /\ nextId' = NewId
    /\ mem' = NoData /\ memSize' = 0
    /\ flushed' = written
    /\ UNCHANGED <<tables, opened, l1, pageCount, unindexed, written>>

\* The rest of Storage::flush: compact moves all of a long level 0.
Compact ==
    /\ Calm /\ mem = NoData /\ Len(l0) >= CompactAt
    /\ l1' = l1 \o l0 /\ l0' = << >>
    /\ UNCHANGED <<tables, opened, mem, memSize, nextId, pageCount, lsmFlush, lsmHistory>>

\* rollback_txn drops what is in memory, whoever wrote it.
LsmRollback ==
    /\ Calm /\ mem' = NoData /\ memSize' = 0
    /\ written' = flushed
    /\ UNCHANGED <<tables, opened, l0, l1, nextId, pageCount, lsmFlush, flushed>>

(***************************************************************************)
(* The process ends, perhaps in the middle of an index; open loads every   *)
(* file into level 0, in the order the directory lists them, numbers new   *)
(* files above the old ones, and counts no page.                           *)
(***************************************************************************)
Newest(p) ==
    LET ids == {id \in Files : tables[id][p] # Absent}
    IN  IF ids = {} THEN Absent ELSE tables[CHOOSE id \in ids : \A i \in ids : i <= id][p]

LsmCrash ==
    /\ opened /\ opened' = FALSE
    /\ mem' = NoData /\ memSize' = 0 /\ l0' = << >> /\ l1' = << >>
    /\ nextId' = 1 /\ pageCount' = 0 /\ flushing' = FALSE /\ unindexed' = {}
    /\ written' = [p \in PageIds |-> Newest(p)] /\ flushed' = written'
    /\ UNCHANGED tables

LsmOpen ==
    /\ ~opened /\ opened' = TRUE
    /\ \E order \in SetToSeqs(Files) : l0' = order
    /\ nextId' = 1 + CHOOSE n \in Files \union {0} : \A i \in Files : i <= n
    /\ UNCHANGED <<tables, mem, memSize, l1, pageCount, lsmFlush, lsmHistory>>

LsmNext ==
    \/ \E p \in PageIds, b \in Contents : LsmWrite(p, b)
    \/ LsmAlloc \/ LsmCommit \/ IndexPage \/ EndFlush \/ Compact \/ LsmRollback \/ LsmCrash \/ LsmOpen

LsmSpec == LsmInit /\ [][LsmNext]_lsmVars

---------------------------------------------------------------------------
LsmTypeOK ==
    /\ tables \in [Ids -> PageMap \union {Absent}]
    /\ mem \in PageMap /\ written \in PageMap /\ flushed \in PageMap
    /\ memSize \in 0 .. MemThreshold
    /\ l0 \in Seq(Files) /\ l1 \in Seq(Files)
    /\ nextId \in 1 .. MaxTables + 1 /\ pageCount \in Nat
    /\ unindexed \subseteq Holds(mem)

\* A page that each level holds at most once is read as it was last written
\* (dir_lsmtree_storage.rs:121): level 0 is newer than level 1, also after a
\* flush, a compaction, a rollback or a restart.  Within a level the oldest
\* table answers first, so a page flushed twice is read as it was.
LevelsAreNewestFirst ==
    opened => \A p \in PageIds :
        (\A ids \in {l0, l1} : \A i, j \in With(p, ids) : i = j) => LsmView(p) = written[p]

\* What a flush wrote is what the newest file of the page holds, whatever files
\* were made since and wherever a process died (dir_lsmtree_storage.rs:206):
\* no file is written over.  A flush that is under way shows its own pages.
FlushedStays ==
    \A p \in PageIds :
        \/ Newest(p) = flushed[p]
        \/ flushing /\ mem[p] # Absent /\ Newest(p) = mem[p]
=============================================================================
