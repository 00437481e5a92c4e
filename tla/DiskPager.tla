----------------------------- MODULE DiskPager -----------------------------
(***************************************************************************)
(* The single-file disk store: DiskStorage (pager/file_btree_storage.rs)   *)
(* over its write-ahead log, Wal (pager/wal.rs).                           *)
(*                                                                         *)
(* One process owns the store and calls it from one thread, so a call runs *)
(* alone; what makes it hard is that the process may die between any two   *)
(* writes to its two files.  A call that writes files is therefore split   *)
(* into one action per file write, sequenced by pc, and Crash may happen   *)
(* between any two of them.  A crash is the death of the process: what it  *)
(* wrote stays in the files (the main file is never synced, so the loss of *)
(* power is a different matter and is not modelled).                       *)
(*                                                                         *)
(* A page's bytes are a value of Vals, or Blank (the zero page that        *)
(* alloc_page writes and that a read past the end of the file returns).    *)
(***************************************************************************)
EXTENDS Integers, Sequences

CONSTANTS
    NumPages,     \* bound: page ids are 0 .. NumPages - 1
    Vals,         \* page contents
    Blank,        \* the zero page
    None,         \* "not in the map"
    InitialPages, \* pages allocated when the behaviour starts
    MaxTxns,      \* bound: transactions a session logs
    MaxSessions   \* bound: how many times the database is opened

Pages  == 0 .. NumPages - 1
Values == Vals \union {Blank}

ASSUME BoundsAssumption ==
    /\ NumPages \in Nat \ {0}
    /\ InitialPages \in 0 .. NumPages
    /\ MaxTxns \in Nat
    /\ MaxSessions \in Nat

ASSUME ValueAssumption ==
    /\ Blank \notin Vals
    /\ None \notin Values

VARIABLES
    \* The two files.
    mainFile,     \* pages of the database file
    savedCount,   \* the page count in its header page
    log,          \* frame slots of the .sql6wal file
    frameCount,   \* frame count in the log's header (Wal.frame_count equals it)
    \* The memory of the process.
    up,           \* is the database open?
    committed,    \* Wal.committed
    dirty,        \* Wal.dirty
    preImage,     \* Wal.pre_image
    inTxn,        \* Wal.in_txn
    nextTxn,      \* Wal.next_txn_id
    pageCount,    \* DiskStorage.page_count
    \* Where the call in progress is.
    pc,           \* the next file write
    call,         \* the call that is writing frames
    batch,        \* the pages it commits
    todo,         \* the pages it has yet to write
    \* History, for the properties only.
    session,      \* number of the current session
    staleImage,   \* pages whose pre-image was not taken from a committed copy
    spoiled       \* pages rollback or alloc_page changed without a commit

files  == <<mainFile, savedCount, log, frameCount>>
memory == <<committed, dirty, preImage, inTxn, nextTxn, pageCount>>
ghosts == <<staleImage, spoiled>>
vars   == <<files, up, memory, pc, call, batch, todo, session, ghosts>>

NoPages  == [p \in Pages |-> None]                 \* an empty page map
Holds(m) == {p \in Pages : m[p] # None}            \* the keys of a page map
Over(m, n) == [p \in Pages |-> IF m[p] # None THEN m[p] ELSE n[p]]

(***************************************************************************)
(* The log.  A frame carries its session for the properties: the frame on  *)
(* disk has only the transaction id.  A hole is what set_len leaves in a   *)
(* slot that no frame was written to; its frame type is 0.                 *)
(***************************************************************************)
NoPage == -1                                       \* u32::MAX in a commit frame

Frames == [kind : {"data", "commit", "hole"}, page : Pages \union {NoPage},
           txn : Nat, session : Nat, data : Values]
Hole   == [kind |-> "hole", page |-> NoPage, txn |-> 0, session |-> 0, data |-> Blank]

\* The slots replay reads: as many as the header says, as far as the file goes.
Visible == {i \in 1 .. frameCount : i <= Len(log)}

CommittedTxns == {log[i].txn : i \in {j \in Visible : log[j].kind = "commit"}}

\* Mutation: the data frames of page p, committed or not.
AllApplied(p) == {i \in Visible : log[i].kind = "data" /\ log[i].page = p}
\* The frames replay applies to page p.
Applied(p) ==
    LET done == CommittedTxns
    IN  {i \in Visible : /\ log[i].kind = "data"
                         /\ log[i].page = p
                         /\ log[i].txn \in done}

Newest(S) == CHOOSE i \in S : \A j \in S : j <= i

\* Mutation: replay that does not check for a commit frame.
ReplayedUnchecked(p) ==
    IF AllApplied(p) = {} THEN None ELSE log[Newest(AllApplied(p))].data

\* What replay puts in the committed map: it applies the frames in their order.
Replayed(p) == IF Applied(p) = {} THEN None ELSE log[Newest(Applied(p))].data

\* The page a restart would find, were the process to die now.
Recovered(p) == IF Applied(p) = {} THEN mainFile[p] ELSE log[Newest(Applied(p))].data

\* The page a read outside a transaction returns.
LiveView(p) == IF committed[p] # None THEN committed[p] ELSE mainFile[p]

\* The page a read returns: dirty, then committed, then the main file.
ReadNode(p) == IF dirty[p] # None THEN dirty[p] ELSE LiveView(p)

\* write_frame: the file is cut or extended to end with the slot after the counted ones.
WriteSlot(frame) ==
    log' = [i \in 1 .. frameCount + 1 |->
              IF i = frameCount + 1 THEN frame
              ELSE IF i <= Len(log) THEN log[i] ELSE Hole]

---------------------------------------------------------------------------
Idle == up /\ pc = "idle"

EndCall == pc' = "idle" /\ call' = "none" /\ batch' = NoPages /\ todo' = {}

(***************************************************************************)
(* Wal::begin.  A second begin drops what the open transaction wrote.      *)
(***************************************************************************)
Begin ==
    /\ Idle
    /\ dirty' = NoPages
    /\ preImage' = NoPages
    /\ inTxn' = TRUE
    /\ staleImage' = {}
    /\ UNCHANGED <<files, up, committed, nextTxn, pageCount,
                   pc, call, batch, todo, session, spoiled>>

(***************************************************************************)
(* Frames are about to be written for the pages of m, as one transaction.  *)
(***************************************************************************)
StartBatch(c, m) ==
    /\ nextTxn <= MaxTxns
    /\ nextTxn' = nextTxn + 1
    /\ call' = c
    /\ batch' = m
    /\ todo' = Holds(m)
    /\ pc' = IF Holds(m) = {} THEN "commit" ELSE "data"

(***************************************************************************)
(* write_node.  In a transaction it keeps the page's image, which          *)
(* get_committed_copy takes from dirty first, then buffers the page;       *)
(* outside, write_page commits the page at once.  The callers write pages  *)
(* they allocated and pages they reach by following pages they have read.  *)
(***************************************************************************)
CommittedCopy(p) == IF dirty[p] # None THEN dirty[p] ELSE committed[p]

Writable(p) == p < pageCount \/ ReadNode(p) # Blank

WriteInTxn(p, v) ==
    /\ Idle /\ inTxn /\ Writable(p)
    /\ preImage' = IF preImage[p] = None
                   THEN [preImage EXCEPT ![p] = CommittedCopy(p)] ELSE preImage
    /\ staleImage' = IF preImage[p] = None /\ dirty[p] # None
                     THEN staleImage \union {p} ELSE staleImage
    /\ dirty' = [dirty EXCEPT ![p] = v]
    /\ UNCHANGED <<files, up, committed, inTxn, nextTxn, pageCount,
                   pc, call, batch, todo, session, spoiled>>

WriteAuto(p, v) ==
    /\ Idle /\ ~inTxn /\ Writable(p)
    /\ committed' = [committed EXCEPT ![p] = v]
    /\ StartBatch("write", [NoPages EXCEPT ![p] = v])
    /\ UNCHANGED <<files, up, dirty, preImage, inTxn, pageCount,
                   session, ghosts>>

(***************************************************************************)
(* alloc_page.  The id is the page count; the blank page goes to the log   *)
(* like any write and to the main file directly, even in a transaction.    *)
(***************************************************************************)
AllocInTxn ==
    /\ Idle /\ inTxn /\ pageCount < NumPages
    /\ pageCount' = pageCount + 1
    /\ dirty' = [dirty EXCEPT ![pageCount] = Blank]
    /\ mainFile' = [mainFile EXCEPT ![pageCount] = Blank]
    /\ spoiled' = IF LiveView(pageCount) # Blank
                  THEN spoiled \union {pageCount} ELSE spoiled
    /\ UNCHANGED <<savedCount, log, frameCount, up, committed, preImage, inTxn, nextTxn,
                   pc, call, batch, todo, session, staleImage>>

AllocAuto ==
    /\ Idle /\ ~inTxn /\ pageCount < NumPages
    /\ pageCount' = pageCount + 1
    /\ committed' = [committed EXCEPT ![pageCount] = Blank]
    /\ StartBatch("alloc", [NoPages EXCEPT ![pageCount] = Blank])
    /\ UNCHANGED <<files, up, dirty, preImage, inTxn, session, ghosts>>

\* The blank page of alloc_page reaches the main file.
AllocBlank ==
    /\ up /\ pc = "blank"
    /\ mainFile' = [p \in Pages |-> IF p \in Holds(batch) THEN Blank ELSE mainFile[p]]
    /\ EndCall
    /\ UNCHANGED <<savedCount, log, frameCount, up, memory, session, ghosts>>

(***************************************************************************)
(* Wal::commit: the dirty pages in any order (a HashMap's), then the       *)
(* commit frame.  Outside a transaction it does nothing.                   *)
(***************************************************************************)
Commit ==
    /\ Idle /\ inTxn
    /\ StartBatch("commit", dirty)
    /\ UNCHANGED <<files, up, committed, dirty, preImage, inTxn, pageCount,
                   session, ghosts>>

\* The transaction id of the batch being written.
BatchTxn == nextTxn - 1

\* write_frame, first half: the frame is in its slot.
DataFrame(p) ==
    /\ up /\ pc = "data" /\ p \in todo
    /\ WriteSlot([kind |-> "data", page |-> p, txn |-> BatchTxn,
                  session |-> session, data |-> batch[p]])
    /\ todo' = todo \ {p}
    /\ pc' = "dataHeader"
    /\ UNCHANGED <<mainFile, savedCount, frameCount, up, memory, call, batch, session, ghosts>>

\* write_frame, second half: the header counts the slot.
DataHeader ==
    /\ up /\ pc = "dataHeader"
    /\ frameCount' = frameCount + 1
    /\ pc' = IF todo = {} THEN "commit" ELSE "data"
    /\ UNCHANGED <<mainFile, savedCount, log, up, memory, call, batch, todo, session, ghosts>>

CommitFrame ==
    /\ up /\ pc = "commit"
    /\ WriteSlot([kind |-> "commit", page |-> NoPage, txn |-> BatchTxn,
                  session |-> session, data |-> Blank])
    /\ pc' = "commitHeader"
    /\ UNCHANGED <<mainFile, savedCount, frameCount, up, memory, call, batch, todo,
                   session, ghosts>>

\* The header counts the commit frame; commit then drains dirty into committed.
CommitHeader ==
    /\ up /\ pc = "commitHeader"
    /\ frameCount' = frameCount + 1
    /\ IF call = "commit"
       THEN /\ committed' = Over(dirty, committed)
            /\ dirty' = NoPages
            /\ inTxn' = FALSE
       ELSE UNCHANGED <<committed, dirty, inTxn>>
    /\ spoiled' = spoiled \ Holds(batch)
    /\ IF call = "alloc" THEN pc' = "blank" /\ UNCHANGED <<call, batch, todo>> ELSE EndCall
    /\ UNCHANGED <<mainFile, savedCount, log, up, preImage, nextTxn, pageCount,
                   session, staleImage>>

(***************************************************************************)
(* Wal::rollback puts every image kept back into committed, whether or not *)
(* a transaction is open: commit leaves the images behind.                 *)
(***************************************************************************)
Rollback ==
    /\ Idle
    /\ committed' = Over(preImage, committed)
    /\ preImage' = NoPages
    /\ dirty' = NoPages
    /\ inTxn' = FALSE
    /\ staleImage' = {}
    /\ spoiled' = spoiled \union {p \in IF inTxn THEN staleImage ELSE Holds(preImage) :
                                 preImage[p] # LiveView(p)}
    /\ UNCHANGED <<files, up, nextTxn, pageCount,
                   pc, call, batch, todo, session>>

\* Mutation: a checkpoint that writes back pages it has no committed copy of.
FlushEveryPage ==
    /\ Idle
    /\ pc' = "pages" /\ todo' = Pages /\ call' = "flush"
    /\ UNCHANGED <<files, up, memory, batch, session, ghosts>>

(***************************************************************************)
(* flush: Wal::checkpoint when the log has frames, then the header page.   *)
(* The checkpoint writes every committed page to the main file, cuts the   *)
(* log after its header, and resets the count in that header.              *)
(***************************************************************************)
Flush ==
    /\ Idle
    /\ IF frameCount > 0 THEN pc' = "pages" /\ todo' = Holds(committed)
                         ELSE pc' = "dbHeader" /\ UNCHANGED todo
    /\ call' = "flush"
    /\ UNCHANGED <<files, up, memory, batch, session, ghosts>>

WriteBack(p) ==
    /\ up /\ pc = "pages" /\ p \in todo
    /\ mainFile' = [mainFile EXCEPT ![p] = committed[p]]
    /\ todo' = todo \ {p}
    /\ UNCHANGED <<savedCount, log, frameCount, up, memory, pc, call, batch, session, ghosts>>

\* Mutation: the log is cut while pages are still to be written back.
TruncateEarly ==
    /\ up /\ pc = "pages"
    /\ log' = << >>
    /\ pc' = "logHeader"
    /\ UNCHANGED <<mainFile, savedCount, frameCount, up, memory, call, batch, todo,
                   session, ghosts>>

TruncateLog ==
    /\ up /\ pc = "pages" /\ todo = {}
    /\ log' = << >>
    /\ pc' = "logHeader"
    /\ UNCHANGED <<mainFile, savedCount, frameCount, up, memory, call, batch, todo,
                   session, ghosts>>

ResetLogHeader ==
    /\ up /\ pc = "logHeader"
    /\ frameCount' = 0
    /\ committed' = NoPages
    /\ pc' = "dbHeader"
    /\ UNCHANGED <<mainFile, savedCount, log, up, dirty, preImage, inTxn, nextTxn, pageCount,
                   call, batch, todo, session, ghosts>>

\* write_header.
WriteDbHeader ==
    /\ up /\ pc = "dbHeader"
    /\ savedCount' = pageCount
    /\ EndCall
    /\ UNCHANGED <<mainFile, log, frameCount, up, memory, session, ghosts>>

\* set_catalog_root writes the header page too, at any moment between calls.
SetCatalogRoot ==
    /\ Idle
    /\ savedCount' = pageCount
    /\ UNCHANGED <<mainFile, log, frameCount, up, memory, pc, call, batch, todo,
                   session, ghosts>>

(***************************************************************************)
(* The process dies, or drops the store (nothing is flushed on a drop):    *)
(* the files stay as they are, whatever call was writing them.             *)
(***************************************************************************)
NoMemory ==
    /\ dirty' = NoPages /\ preImage' = NoPages /\ inTxn' = FALSE /\ nextTxn' = 1
    /\ EndCall
    /\ staleImage' = {} /\ spoiled' = {}

Crash ==
    /\ up /\ session < MaxSessions
    /\ up' = FALSE
    /\ NoMemory /\ committed' = NoPages /\ pageCount' = 0
    /\ UNCHANGED <<files, session>>

(***************************************************************************)
(* DiskStorage::open: Wal::open replays the log and numbers transactions   *)
(* from 1 again; read_header takes the page count the header has.          *)
(***************************************************************************)
Open ==
    /\ ~up
    /\ up' = TRUE
    /\ session' = session + 1
    /\ NoMemory
    /\ committed' = [p \in Pages |-> Replayed(p)]
    /\ pageCount' = savedCount
    /\ UNCHANGED files

\* A database that was just created (InitialPages = 0), or that an earlier
\* process closed after a flush.
Init ==
    /\ mainFile \in [Pages -> Values]
    /\ \A p \in Pages : p >= InitialPages => mainFile[p] = Blank
    /\ savedCount = InitialPages
    /\ log = << >>
    /\ frameCount = 0
    /\ up = TRUE
    /\ committed = NoPages /\ dirty = NoPages /\ preImage = NoPages
    /\ inTxn = FALSE
    /\ nextTxn = 1
    /\ pageCount = InitialPages
    /\ pc = "idle" /\ call = "none" /\ batch = NoPages /\ todo = {}
    /\ session = 1
    /\ staleImage = {} /\ spoiled = {}

Next ==
    \/ Begin \/ Commit \/ Rollback
    \/ \E p \in Pages, v \in Values : WriteInTxn(p, v) \/ WriteAuto(p, v)
    \/ AllocInTxn \/ AllocAuto \/ AllocBlank
    \/ \E p \in Pages : DataFrame(p) \/ WriteBack(p)
    \/ DataHeader \/ CommitFrame \/ CommitHeader
    \/ Flush \/ TruncateLog \/ ResetLogHeader \/ WriteDbHeader
    \/ SetCatalogRoot \/ Crash \/ Open

Spec == Init /\ [][Next]_vars

---------------------------------------------------------------------------
(***************************************************************************)
(* Properties.                                                             *)
(***************************************************************************)
PageMaps == [Pages -> Values \union {None}]

\* The variables stay in their sets (in particular the log's slots are frames
\* and transaction ids are positive): what every other property is read under.
TypeOK ==
    /\ mainFile \in [Pages -> Values]
    /\ savedCount \in 0 .. NumPages
    /\ log \in Seq(Frames)
    /\ frameCount \in Nat
    /\ up \in BOOLEAN
    /\ committed \in PageMaps /\ dirty \in PageMaps /\ preImage \in PageMaps
    /\ inTxn \in BOOLEAN
    /\ nextTxn \in Nat \ {0}
    /\ pageCount \in 0 .. NumPages
    /\ pc \in {"idle", "data", "dataHeader", "commit", "commitHeader", "blank",
               "pages", "logHeader", "dbHeader"}
    /\ call \in {"none", "write", "alloc", "commit", "flush"}
    /\ batch \in PageMaps
    /\ todo \in SUBSET Pages
    /\ session \in Nat \ {0}
    /\ staleImage \in SUBSET Pages /\ spoiled \in SUBSET Pages

\* What the log promises (wal.rs: only transactions that have a commit frame
\* are replayed): the transaction that wrote a replayed frame, in its session,
\* also wrote a commit frame.
ReplaysCommittedOnly ==
    \A p \in Pages : \A i \in Applied(p) :
        \E j \in Visible : /\ log[j].kind = "commit"
                           /\ log[j].txn = log[i].txn
                           /\ log[j].session = log[i].session

\* What rollback promises (it drops what the transaction wrote): it leaves what
\* a read outside a transaction returns as it was.
RollbackRestores ==
    [][Rollback => \A p \in Pages : LiveView(p)' = LiveView(p)]_vars

\* Two sessions wrote frames under one transaction id, and both are in the log.
\* Wal::open starts again from id 1 without looking at the log, so this happens
\* when a session logs anything before it has checkpointed what it replayed.
IdClash == \E i, j \in Visible : /\ log[i].txn = log[j].txn
                                 /\ log[i].session # log[j].session

\* Between calls, what a read outside the open transaction returns is what a
\* restart would find, on every page that is not spoiled: no call leaves in
\* memory a page it did not make durable, nor the other way round (write_page,
\* commit, rollback, flush and replay all maintain two copies of each page).
ViewIsDurable ==
    Idle /\ ~IdClash => \A p \in Pages \ spoiled : LiveView(p) = Recovered(p)

\* The write that makes a commit frame count.
CommitPoint == up /\ pc = "commitHeader" /\ frameCount' = frameCount + 1

\* One file write decides what a restart finds: at the write that counts a
\* commit frame all the pages of the batch change at once, and no other write,
\* no crash in the middle of a commit or of a checkpoint and no restart changes
\* any page (Wal::commit, checkpoint, replay).
AtomicDurability ==
    [][ ~IdClash /\ ~IdClash' =>
          \A p \in Pages \ (spoiled \union spoiled') :
            Recovered(p)' = IF CommitPoint /\ batch[p] # None
                            THEN batch[p] ELSE Recovered(p) ]_vars
=============================================================================
