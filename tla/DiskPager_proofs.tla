-------------------------- MODULE DiskPager_proofs --------------------------
(***************************************************************************)
(* Proofs about DiskPager and DiskPagerContract, for every number of       *)
(* pages, sessions and transactions.                                       *)
(***************************************************************************)
EXTENDS DiskPagerContract, WellFoundedInduction, SequenceTheorems, TLAPS

---------------------------------------------------------------------------
(***************************************************************************)
(* Lemmas about the log.                                                   *)
(***************************************************************************)

\* A nonempty set of slots has a last one.
LEMMA LastSlot ==
    ASSUME NEW n \in Nat, NEW S \in SUBSET (1 .. n), S # {}
    PROVE  \E i \in S : \A j \in S : j <= i
<1> DEFINE D == {n - i : i \in S}
           R == OpToRel(<, Nat)
<1>1. D \subseteq Nat
  <2>1. \A i \in S : i \in 1 .. n
    OBVIOUS
  <2> QED
    BY <2>1
<1>2. D # {}
  OBVIOUS
<1>3. PICK d \in D : \A e \in D : ~ (<<e, d>> \in R)
  <2>1. IsWellFoundedOn(R, Nat)
    BY NatLessThanWellFounded
  <2> HIDE DEF D, R
  <2> QED
    BY <1>1, <1>2, <2>1, WFMin, Zenon
<1>4. \A e \in D : d <= e
  <2> SUFFICES ASSUME NEW e \in D, ~ (d <= e) PROVE FALSE
    OBVIOUS
  <2>1. d \in Nat /\ e \in Nat
    <3> HIDE DEF D, R
    <3> QED
      BY <1>1, <1>3
  <2>2. e < d
    <3> HIDE DEF D, R
    <3> QED
      BY <2>1
  <2>3. <<e, d>> \in R
    BY <2>1, <2>2 DEF OpToRel
  <2> HIDE DEF D, R
  <2> QED
    BY <1>3, <2>3
<1>5. PICK i \in S : d = n - i
  BY <1>3
<1>6. ASSUME NEW j \in S PROVE j <= i
  <2>1. n - j \in D
    OBVIOUS
  <2>2. d <= n - j
    BY <1>4, <2>1
  <2> QED
    BY <2>2, <1>5
<1> QED
  BY <1>6

\* Newest returns it.
LEMMA NewestIsLast ==
    ASSUME NEW n \in Nat, NEW S \in SUBSET (1 .. n), S # {}
    PROVE  Newest(S) \in S /\ \A j \in S : j <= Newest(S)
BY LastSlot DEF Newest

\* A slot that is last in its set is the newest one.
LEMMA LastIsNewest ==
    ASSUME NEW n \in Nat, NEW S \in SUBSET (1 .. n), NEW i \in S,
           \A j \in S : j <= i
    PROVE  Newest(S) = i
<1>1. PICK k : k = Newest(S)
  OBVIOUS
<1>2. k \in S /\ \A j \in S : j <= k
  BY <1>1, NewestIsLast
<1>3. k \in 1 .. n /\ i \in 1 .. n
  BY <1>2
<1>4. k = i
  BY <1>2, <1>3
<1> QED
  BY <1>1, <1>4


\* write_frame leaves a log that ends with the frame it wrote.
LEMMA WriteSlotType ==
    ASSUME log \in Seq(Frames), frameCount \in Nat, NEW f \in Frames, WriteSlot(f)
    PROVE  /\ log' \in Seq(Frames)
           /\ Len(log') = frameCount + 1
           /\ log'[frameCount + 1] = f
           /\ \A i \in 1 .. frameCount :
                 log'[i] = IF i <= Len(log) THEN log[i] ELSE Hole
<1> DEFINE slot(i) == IF i = frameCount + 1 THEN f
                      ELSE IF i <= Len(log) THEN log[i] ELSE Hole
<1>1. log' = [i \in 1 .. frameCount + 1 |-> slot(i)]
  BY DEF WriteSlot
<1>2. Hole \in Frames
  BY DEF Hole, Frames, NoPage, Values
<1>3. \A i \in 1 .. frameCount + 1 : slot(i) \in Frames
  <2> TAKE i \in 1 .. frameCount + 1
  <2>1. CASE i = frameCount + 1
    BY <2>1
  <2>2. CASE i # frameCount + 1 /\ i <= Len(log)
    <3>1. i \in 1 .. Len(log)
      BY <2>2
    <3>2. log[i] \in Frames
      BY <3>1, ElementOfSeq
    <3> QED
      BY <2>2, <3>2
  <2>3. CASE i # frameCount + 1 /\ ~ (i <= Len(log))
    BY <2>3, <1>2
  <2> QED
    BY <2>1, <2>2, <2>3
<1>4. log' \in [1 .. frameCount + 1 -> Frames]
  BY <1>1, <1>3
<1>5. log' \in Seq(Frames) /\ Len(log') = frameCount + 1
  BY <1>4, SeqDef, LenProperties
<1>6. \A i \in 1 .. frameCount + 1 : log'[i] = slot(i)
  BY <1>1
<1>7. \A i \in 1 .. frameCount : i \in 1 .. frameCount + 1 /\ i # frameCount + 1
  OBVIOUS
<1>8. frameCount + 1 \in 1 .. frameCount + 1
  OBVIOUS
<1> QED
  BY <1>5, <1>6, <1>7, <1>8

\* What replay reads are slots of the log.
LEMMA AppliedSlots ==
    ASSUME frameCount \in Nat, NEW p \in Pages
    PROVE  /\ Applied(p) \in SUBSET (1 .. frameCount)
           /\ Applied(p) # {} => /\ Newest(Applied(p)) \in Applied(p)
                                 /\ \A j \in Applied(p) : j <= Newest(Applied(p))
<1>1. Applied(p) \in SUBSET (1 .. frameCount)
  BY DEF Applied, Visible
<1>2. ASSUME Applied(p) # {}
      PROVE  /\ Newest(Applied(p)) \in Applied(p)
             /\ \A j \in Applied(p) : j <= Newest(Applied(p))
  BY <1>1, <1>2, NewestIsLast
<1> QED
  BY <1>1, <1>2

\* Replay and a restart find page contents.
LEMMA ReplayType ==
    ASSUME mainFile \in [Pages -> Values], log \in Seq(Frames), frameCount \in Nat,
           NEW p \in Pages
    PROVE  Replayed(p) \in Values \union {None} /\ Recovered(p) \in Values
<1>1. CASE Applied(p) = {}
  BY <1>1 DEF Replayed, Recovered
<1>2. CASE Applied(p) # {}
  <2>1. PICK k : k = Newest(Applied(p))
    OBVIOUS
  <2>2. k \in Visible
    BY <1>2, <2>1, AppliedSlots DEF Applied
  <2>3. k \in 1 .. Len(log)
    BY <2>2, LenProperties DEF Visible
  <2>4. log[k] \in Frames
    BY <2>3, ElementOfSeq
  <2>5. log[k].data \in Values
    BY <2>4 DEF Frames
  <2> QED
    BY <1>2, <2>1, <2>5 DEF Replayed, Recovered
<1> QED
  BY <1>1, <1>2

---------------------------------------------------------------------------
(***************************************************************************)
(* Type correctness.  It is inductive together with the pages a call has   *)
(* yet to write being pages it has something to write for.                 *)
(***************************************************************************)
TodoHeld ==
    /\ pc \in {"data", "dataHeader"} => todo \subseteq Holds(batch)
    /\ pc = "pages" => todo \subseteq Holds(committed)

TypeInv == TypeOK /\ TodoHeld

LEMMA InitTypeInv == Init => TypeInv
<1> SUFFICES ASSUME Init PROVE TypeInv
  OBVIOUS
<1>1. NoPages \in PageMaps
  BY DEF NoPages, PageMaps
<1>2. InitialPages \in 0 .. NumPages
  BY BoundsAssumption
<1>3. log \in Seq(Frames)
  BY DEF Init
<1>4. 1 \in Nat \ {0} /\ {} \in SUBSET Pages
  OBVIOUS
<1> QED
  BY <1>1, <1>2, <1>3, <1>4 DEF Init, TypeInv, TypeOK, TodoHeld

LEMMA NextTypeInv == TypeInv /\ [Next]_vars => TypeInv'
<1> SUFFICES ASSUME TypeInv, [Next]_vars PROVE TypeInv'
  OBVIOUS
<1> USE DEF TypeInv
<1>1. NoPages \in PageMaps /\ Blank \in Values /\ 1 \in Nat \ {0} /\ {} \in SUBSET Pages
  BY DEF NoPages, PageMaps, Values
<1>2. ASSUME NEW m \in PageMaps, NEW n \in PageMaps
      PROVE  Over(m, n) \in PageMaps
  BY <1>2 DEF Over, PageMaps
<1>3. ASSUME NEW m \in PageMaps, NEW p \in Pages, NEW v \in Values \union {None}
      PROVE  [m EXCEPT ![p] = v] \in PageMaps
  BY <1>3 DEF PageMaps
<1>4. pageCount < NumPages => /\ pageCount \in Pages
                              /\ pageCount + 1 \in 0 .. NumPages
  BY BoundsAssumption DEF TypeOK, Pages
<1>5. nextTxn + 1 \in Nat \ {0} /\ BatchTxn \in Nat
  BY DEF TypeOK, BatchTxn
<1>6. CASE Begin
  BY <1>6, <1>1 DEF Begin, Idle, TypeOK, TodoHeld, files
<1>7. CASE Commit
  BY <1>7, <1>5 DEF Commit, Idle, StartBatch, TypeOK, TodoHeld, files, ghosts, PageMaps, Holds
<1>8. CASE Rollback
  <2>1. Over(preImage, committed) \in PageMaps
    BY <1>2 DEF TypeOK
  <2>2. spoiled' \in SUBSET Pages
    BY <1>8 DEF Rollback, TypeOK, Holds
  <2> QED
    BY <1>8, <1>1, <2>1, <2>2 DEF Rollback, Idle, TypeOK, TodoHeld, files
<1>9. ASSUME NEW p \in Pages, NEW v \in Values, WriteInTxn(p, v) PROVE TypeInv'
  <2>1. CommittedCopy(p) \in Values \union {None}
    BY DEF CommittedCopy, TypeOK, PageMaps
  <2>2. preImage' \in PageMaps
    BY <1>9, <1>3, <2>1 DEF WriteInTxn, TypeOK
  <2>3. dirty' \in PageMaps
    BY <1>9, <1>3 DEF WriteInTxn, TypeOK
  <2> QED
    BY <1>9, <2>2, <2>3 DEF WriteInTxn, Idle, TypeOK, TodoHeld, files
<1>10. ASSUME NEW p \in Pages, NEW v \in Values, WriteAuto(p, v) PROVE TypeInv'
  <2>1. committed' \in PageMaps /\ batch' \in PageMaps
    BY <1>10, <1>1, <1>3 DEF WriteAuto, StartBatch, TypeOK
  <2> QED
    BY <1>10, <1>5, <2>1 DEF WriteAuto, Idle, StartBatch, TypeOK, TodoHeld, files, ghosts, Holds
<1>11. CASE AllocInTxn
  <2>1. dirty' \in PageMaps
    BY <1>11, <1>1, <1>3, <1>4 DEF AllocInTxn, TypeOK
  <2>2. mainFile' \in [Pages -> Values]
    BY <1>11, <1>1, <1>4 DEF AllocInTxn, TypeOK
  <2>3. spoiled' \in SUBSET Pages
    BY <1>11, <1>4 DEF AllocInTxn, TypeOK
  <2> QED
    BY <1>11, <1>4, <2>1, <2>2, <2>3 DEF AllocInTxn, Idle, TypeOK, TodoHeld
<1>12. CASE AllocAuto
  <2>1. committed' \in PageMaps /\ batch' \in PageMaps
    BY <1>12, <1>1, <1>3, <1>4 DEF AllocAuto, StartBatch, TypeOK
  <2> QED
    BY <1>12, <1>4, <1>5, <2>1 DEF AllocAuto, Idle, StartBatch, TypeOK, TodoHeld, files, ghosts, Holds
<1>13. CASE AllocBlank
  <2>1. mainFile' \in [Pages -> Values]
    BY <1>13, <1>1 DEF AllocBlank, TypeOK
  <2> QED
    BY <1>13, <1>1, <2>1 DEF AllocBlank, EndCall, TypeOK, TodoHeld, memory, ghosts
<1>14. ASSUME NEW p \in Pages, DataFrame(p) PROVE TypeInv'
  <2> DEFINE f == [kind |-> "data", page |-> p, txn |-> BatchTxn,
                   session |-> session, data |-> batch[p]]
  <2>1. p \in Holds(batch)
    BY <1>14 DEF DataFrame, TodoHeld
  <2>2. batch[p] \in Values
    BY <2>1 DEF Holds, TypeOK, PageMaps
  <2>3. f \in Frames
    BY <1>5, <2>2 DEF Frames, TypeOK
  <2>4. log' \in Seq(Frames)
    BY <1>14, <2>3, WriteSlotType DEF DataFrame, TypeOK
  <2> QED
    BY <1>14, <2>4 DEF DataFrame, TypeOK, TodoHeld, memory, ghosts, Holds
<1>15. CASE DataHeader
  BY <1>15 DEF DataHeader, TypeOK, TodoHeld, memory, ghosts, Holds
<1>16. CASE CommitFrame
  <2> DEFINE f == [kind |-> "commit", page |-> NoPage, txn |-> BatchTxn,
                   session |-> session, data |-> Blank]
  <2>1. f \in Frames
    BY <1>1, <1>5 DEF Frames, TypeOK
  <2>2. log' \in Seq(Frames)
    BY <1>16, <2>1, WriteSlotType DEF CommitFrame, TypeOK
  <2> QED
    BY <1>16, <2>2 DEF CommitFrame, TypeOK, TodoHeld, memory, ghosts
<1>17. CASE CommitHeader
  <2>1. Over(dirty, committed) \in PageMaps
    BY <1>2 DEF TypeOK
  <2>2. committed' \in PageMaps /\ dirty' \in PageMaps /\ inTxn' \in BOOLEAN
    BY <1>17, <1>1, <2>1 DEF CommitHeader, TypeOK
  <2>3. /\ pc' \in {"idle", "blank"}
        /\ call' \in {"none", "write", "alloc", "commit", "flush"}
        /\ batch' \in PageMaps /\ todo' \in SUBSET Pages
    BY <1>17, <1>1 DEF CommitHeader, EndCall, TypeOK
  <2> QED
    BY <1>17, <2>2, <2>3 DEF CommitHeader, TypeOK, TodoHeld
<1>18. CASE Flush
  BY <1>18 DEF Flush, Idle, TypeOK, TodoHeld, files, memory, ghosts, Holds
<1>19. ASSUME NEW p \in Pages, WriteBack(p) PROVE TypeInv'
  <2>1. p \in Holds(committed)
    BY <1>19 DEF WriteBack, TodoHeld
  <2>2. mainFile' \in [Pages -> Values]
    BY <1>19, <2>1 DEF WriteBack, TypeOK, PageMaps, Holds
  <2> QED
    BY <1>19, <2>2 DEF WriteBack, TypeOK, TodoHeld, memory, ghosts, Holds
<1>20. CASE TruncateLog
  <2>1. log' \in Seq(Frames)
    BY <1>20 DEF TruncateLog
  <2> QED
    BY <1>20, <2>1 DEF TruncateLog, TypeOK, TodoHeld, memory, ghosts
<1>21. CASE ResetLogHeader
  BY <1>21, <1>1 DEF ResetLogHeader, TypeOK, TodoHeld, ghosts
<1>22. CASE WriteDbHeader
  BY <1>22, <1>1 DEF WriteDbHeader, EndCall, TypeOK, TodoHeld, memory, ghosts
<1>23. CASE SetCatalogRoot
  BY <1>23 DEF SetCatalogRoot, Idle, TypeOK, TodoHeld, memory, ghosts
<1>24. CASE Crash
  <2>1. pageCount' \in 0 .. NumPages
    BY <1>24, BoundsAssumption DEF Crash
  <2> QED
    BY <1>24, <1>1, <2>1 DEF Crash, NoMemory, EndCall, TypeOK, TodoHeld, files
<1>25. CASE Open
  <2>1. committed' \in PageMaps
    BY <1>25, ReplayType DEF Open, TypeOK, PageMaps
  <2>2. session + 1 \in Nat \ {0}
    BY DEF TypeOK
  <2> QED
    BY <1>25, <1>1, <2>1, <2>2 DEF Open, NoMemory, EndCall, TypeOK, TodoHeld, files
<1>26. CASE UNCHANGED vars
  BY <1>26 DEF vars, files, memory, ghosts, TypeOK, TodoHeld, Holds
<1> QED
  BY <1>6, <1>7, <1>8, <1>9, <1>10, <1>11, <1>12, <1>13, <1>14, <1>15, <1>16, <1>17,
     <1>18, <1>19, <1>20, <1>21, <1>22, <1>23, <1>24, <1>25, <1>26 DEF Next

\* The variables of the store keep their types, in every behaviour: in
\* particular no call ever writes a page it holds nothing for.
THEOREM TypeCorrect == Spec => []TypeOK
<1>1. TypeInv => TypeOK
  BY DEF TypeInv
<1> QED
  BY InitTypeInv, NextTypeInv, <1>1, PTL DEF Spec

---------------------------------------------------------------------------
(***************************************************************************)
(* Durability.  The two properties follow from an inductive invariant that *)
(* says what the log holds while a batch of frames is being written.       *)
(***************************************************************************)

\* A log shorter than its header says is empty (TruncateLog, then a crash); no
\* frame is of a later session, and the session's own ids are below nextTxn.
LogInv ==
    /\ Len(log) < frameCount => log = << >>
    /\ \A i \in Visible : /\ log[i].session <= session
                          /\ up /\ log[i].session = session => log[i].txn < nextTxn

Writing == pc \in {"data", "dataHeader", "commit", "commitHeader"}

\* The counted frames of the batch being written.
Own == {i \in Visible : log[i].session = session /\ log[i].txn = BatchTxn}

\* A frame of the batch, for a page that is done.
IsBatchFrame(f) ==
    /\ f.kind = "data" /\ f.txn = BatchTxn /\ f.session = session
    /\ f.page \in Holds(batch) \ todo
    /\ f.data = batch[f.page]

\* The slot that is written and not counted yet.
Pending == frameCount + 1

\* The batch's frames follow all others, and each page that is done has one.
BatchInv ==
    Writing =>
      /\ \A i \in Own : IsBatchFrame(log[i])
      /\ \A i \in Own, j \in Visible \ Own : j < i
      /\ \A q \in Holds(batch) \ todo :
            \/ \E i \in Own : log[i].page = q
            \/ pc = "dataHeader" /\ log[Pending].page = q
      /\ pc \in {"commit", "commitHeader"} => todo = {}
      /\ pc = "dataHeader" => Len(log) = Pending /\ IsBatchFrame(log[Pending])
      /\ pc = "commitHeader" => /\ Len(log) = Pending
                                /\ log[Pending].kind = "commit"
                                /\ log[Pending].txn = BatchTxn
                                /\ log[Pending].session = session

\* What memory holds of the batch: a commit's pages are still in dirty, those
\* of a single write are already in committed.
CallInv ==
    /\ ~up => pc = "idle"
    /\ Writing => /\ call \in {"write", "alloc", "commit"}
                  /\ call = "commit" => batch = dirty
                  /\ call # "commit" => /\ ~inTxn
                                        /\ \A p \in Holds(batch) : committed[p] = batch[p]
                  /\ call = "alloc" => \A p \in Holds(batch) : batch[p] = Blank
    /\ pc = "blank" => \A p \in Holds(batch) : committed[p] = Blank

\* A checkpoint cuts the log when the main file has every committed page.
FlushInv ==
    /\ pc = "pages" => \A p \in Holds(committed) \ todo : mainFile[p] = committed[p]
    /\ pc = "logHeader" => /\ log = << >>
                           /\ \A p \in Holds(committed) : mainFile[p] = committed[p]

\* The pages that memory has and the log has not committed yet.
Ahead == IF Writing /\ call # "commit" THEN Holds(batch) ELSE {}

ViewInv ==
    up /\ ~IdClash => \A p \in Pages \ (spoiled \union Ahead) : LiveView(p) = Recovered(p)

\* Rollback puts back what a read outside the transaction returns already.
PreInv ==
    inTxn => \A p \in Pages \ (staleImage \union spoiled) :
                preImage[p] # None => preImage[p] = LiveView(p)

IInv == LogInv /\ BatchInv /\ CallInv /\ FlushInv /\ ViewInv /\ PreInv

---------------------------------------------------------------------------
(***************************************************************************)
(* What the file writes do to the frames replay reads.                     *)
(***************************************************************************)

\* The frames replay reads stay what they are; slots that come into view are
\* holes.
SameFrames ==
    /\ Visible \subseteq Visible'
    /\ \A i \in Visible : log'[i] = log[i]
    /\ \A i \in Visible' \ Visible : log'[i] = Hole
    /\ Visible # {} => Visible' = Visible

\* A frame that is written and not counted changes nothing that replay reads.
LEMMA SlotSameFrames ==
    ASSUME TypeOK, LogInv, NEW f \in Frames, WriteSlot(f), frameCount' = frameCount
    PROVE  SameFrames
<1>1. /\ log \in Seq(Frames) /\ frameCount \in Nat
      /\ Len(log') = frameCount + 1
      /\ \A i \in 1 .. frameCount :
            log'[i] = IF i <= Len(log) THEN log[i] ELSE Hole
  BY WriteSlotType DEF TypeOK
<1>2. Visible' = 1 .. frameCount
  BY <1>1 DEF Visible
<1>3. Visible \subseteq 1 .. frameCount /\ \A i \in 1 .. frameCount : i \in Visible <=> i <= Len(log)
  BY DEF Visible
<1>4. ASSUME Visible # {} PROVE Visible = 1 .. frameCount
  <2>1. log # << >>
    BY <1>4 DEF Visible
  <2>2. Len(log) \in Nat /\ ~ (Len(log) < frameCount)
    BY <1>1, <2>1, LenProperties DEF LogInv
  <2>3. \A i \in 1 .. frameCount : i <= Len(log)
    BY <1>1, <2>2
  <2> QED
    BY <1>3, <2>3
<1> QED
  BY <1>1, <1>2, <1>3, <1>4 DEF SameFrames

\* The header counts the slot that was written.
LEMMA CountedSlot ==
    ASSUME TypeOK, Len(log) = Pending, frameCount' = frameCount + 1, log' = log
    PROVE  /\ Visible = 1 .. frameCount
           /\ Visible' = Visible \union {Pending}
           /\ Pending \notin Visible
           /\ \A i \in Visible : i < Pending
<1>1. frameCount \in Nat
  BY DEF TypeOK
<1>2. Visible = 1 .. frameCount
  BY <1>1 DEF Visible, Pending
<1>3. Visible' = 1 .. frameCount + 1
  BY <1>1 DEF Visible, Pending
<1> QED
  BY <1>1, <1>2, <1>3 DEF Pending

\* Holes carry no page and belong to no session.
LEMMA SameFramesKeep ==
    ASSUME TypeOK, TypeOK', SameFrames
    PROVE  /\ \A p \in Pages : Applied(p)' = Applied(p)
           /\ IdClash => IdClash'
           /\ session' = session /\ nextTxn' = nextTxn => Own' = Own
           /\ mainFile' = mainFile => \A p \in Pages : Recovered(p)' = Recovered(p)
<1>1. CommittedTxns' = CommittedTxns
  BY DEF SameFrames, CommittedTxns, Hole
<1>2. ASSUME NEW p \in Pages PROVE Applied(p)' = Applied(p)
  BY <1>1 DEF SameFrames, Applied, Hole
<1>3. IdClash => IdClash'
  BY DEF SameFrames, IdClash
<1>4. ASSUME session' = session, nextTxn' = nextTxn PROVE Own' = Own
  <2>1. session # 0
    BY DEF TypeOK
  <2> QED
    BY <1>4, <2>1 DEF SameFrames, Own, Hole, BatchTxn
<1>5. ASSUME mainFile' = mainFile, NEW p \in Pages PROVE Recovered(p)' = Recovered(p)
  <2>1. CASE Applied(p) = {}
    BY <1>2, <1>5, <2>1 DEF Recovered
  <2>2. CASE Applied(p) # {}
    <3>1. PICK k : k = Newest(Applied(p))
      OBVIOUS
    <3>2. k \in Visible
      BY <2>2, <3>1, AppliedSlots DEF Applied, TypeOK
    <3>3. log'[k] = log[k]
      BY <3>2 DEF SameFrames
    <3>4. Recovered(p) = log[k].data
      BY <2>2, <3>1 DEF Recovered
    <3>5. Recovered(p)' = log'[k].data
      BY <1>2, <2>2, <3>1 DEF Recovered
    <3> QED
      BY <3>3, <3>4, <3>5
  <2> QED
    BY <2>1, <2>2
<1> QED
  BY <1>2, <1>3, <1>4, <1>5

LEMMA UntouchedFiles ==
    ASSUME UNCHANGED <<log, frameCount>>
    PROVE  SameFrames
BY DEF SameFrames, Visible

\* The steps that touch the log.
LogStep ==
    \/ \E p \in Pages : DataFrame(p)
    \/ CommitFrame \/ DataHeader \/ CommitHeader \/ TruncateLog \/ ResetLogHeader

LEMMA StepKinds ==
    ASSUME TypeOK, [Next]_vars
    PROVE  \/ LogStep
           \/ Open
           \/ /\ UNCHANGED <<log, frameCount, session>>
              /\ up' => up /\ nextTxn' >= nextTxn
<1>1. nextTxn >= nextTxn /\ nextTxn + 1 >= nextTxn
  BY DEF TypeOK
<1>2. CASE Begin \/ Rollback \/ AllocInTxn \/ AllocBlank \/ Flush \/ WriteDbHeader \/ SetCatalogRoot
  BY <1>1, <1>2 DEF Begin, Rollback, AllocInTxn, AllocBlank, Flush, WriteDbHeader,
                    SetCatalogRoot, Idle, files, memory
<1>3. CASE Commit \/ AllocAuto
  BY <1>1, <1>3 DEF Commit, AllocAuto, StartBatch, Idle, files
<1>4. ASSUME NEW p \in Pages, NEW v \in Values, WriteInTxn(p, v) \/ WriteAuto(p, v)
      PROVE  UNCHANGED <<log, frameCount, session>> /\ (up' => up /\ nextTxn' >= nextTxn)
  BY <1>1, <1>4 DEF WriteInTxn, WriteAuto, StartBatch, Idle, files
<1>5. ASSUME NEW p \in Pages, WriteBack(p)
      PROVE  UNCHANGED <<log, frameCount, session>> /\ (up' => up /\ nextTxn' >= nextTxn)
  BY <1>1, <1>5 DEF WriteBack, memory
<1>6. CASE Crash
  BY <1>6 DEF Crash, files
<1>7. CASE UNCHANGED vars
  BY <1>1, <1>7 DEF vars, files, memory
<1> QED
  BY <1>2, <1>3, <1>4, <1>5, <1>6, <1>7 DEF Next, LogStep

\* Writing a frame brings nothing into view.
LEMMA FrameStep ==
    ASSUME TypeInv, IInv, (\E p \in Pages : DataFrame(p)) \/ CommitFrame
    PROVE  /\ SameFrames
           /\ Len(log') = Pending
           /\ frameCount' = frameCount
<1> USE DEF TypeInv, IInv
<1>1. BatchTxn \in Nat /\ session \in Nat /\ Blank \in Values
  BY DEF TypeOK, BatchTxn, Values
<1>2. ASSUME NEW p \in Pages, DataFrame(p)
      PROVE  SameFrames /\ Len(log') = Pending /\ frameCount' = frameCount
  <2> DEFINE f == [kind |-> "data", page |-> p, txn |-> BatchTxn,
                   session |-> session, data |-> batch[p]]
  <2>1. batch[p] \in Values
    BY <1>2 DEF DataFrame, TodoHeld, Holds, TypeOK, PageMaps
  <2>2. f \in Frames
    BY <1>1, <2>1 DEF Frames
  <2>3. WriteSlot(f) /\ frameCount' = frameCount
    BY <1>2 DEF DataFrame
  <2>4. Len(log') = frameCount + 1
    BY <2>2, <2>3, WriteSlotType DEF TypeOK
  <2> HIDE DEF f
  <2> QED
    BY <2>2, <2>3, <2>4, SlotSameFrames DEF Pending
<1>3. ASSUME CommitFrame
      PROVE  SameFrames /\ Len(log') = Pending /\ frameCount' = frameCount
  <2> DEFINE f == [kind |-> "commit", page |-> NoPage, txn |-> BatchTxn,
                   session |-> session, data |-> Blank]
  <2>1. f \in Frames
    BY <1>1 DEF Frames
  <2>2. WriteSlot(f) /\ frameCount' = frameCount
    BY <1>3 DEF CommitFrame
  <2>3. Len(log') = frameCount + 1
    BY <2>1, <2>2, WriteSlotType DEF TypeOK
  <2> HIDE DEF f
  <2> QED
    BY <2>1, <2>2, <2>3, SlotSameFrames DEF Pending
<1> QED
  BY <1>2, <1>3

\* Counting a frame brings that frame, of the batch, into view.
LEMMA HeaderStep ==
    ASSUME TypeInv, IInv, DataHeader \/ CommitHeader
    PROVE  /\ Visible = 1 .. frameCount
           /\ Visible' = Visible \union {Pending}
           /\ Pending \notin Visible /\ \A i \in Visible : i < Pending
           /\ log' = log /\ session' = session /\ nextTxn' = nextTxn /\ up /\ up'
           /\ log[Pending].session = session /\ log[Pending].txn = BatchTxn
           /\ Len(log) = Pending /\ frameCount' = frameCount + 1
<1> USE DEF TypeInv, IInv
<1>1. /\ pc \in {"dataHeader", "commitHeader"}
      /\ frameCount' = frameCount + 1 /\ log' = log
      /\ session' = session /\ nextTxn' = nextTxn /\ up /\ up'
  BY DEF DataHeader, CommitHeader, memory
<1>2. /\ Len(log) = Pending
      /\ log[Pending].session = session /\ log[Pending].txn = BatchTxn
  BY <1>1 DEF BatchInv, Writing, IsBatchFrame
<1> QED
  BY <1>1, <1>2, CountedSlot

LEMMA NextLogInv == TypeInv /\ TypeInv' /\ IInv /\ [Next]_vars => LogInv'
<1> SUFFICES ASSUME TypeInv, TypeInv', IInv, [Next]_vars PROVE LogInv'
  OBVIOUS
<1> USE DEF TypeInv, IInv
<1>1. session \in Nat \ {0} /\ nextTxn \in Nat /\ nextTxn' \in Nat /\ frameCount \in Nat
  BY DEF TypeOK
<1>2. \A i \in Visible : log[i].txn \in Nat /\ log[i].session \in Nat
  <2> TAKE i \in Visible
  <2>1. i \in 1 .. Len(log) /\ log \in Seq(Frames)
    BY LenProperties DEF Visible, TypeOK
  <2>2. log[i] \in Frames
    BY <2>1, ElementOfSeq
  <2> QED
    BY <2>2 DEF Frames
<1>3. ASSUME SameFrames, session' = session, up' => up /\ nextTxn' >= nextTxn
      PROVE  \A i \in Visible' : /\ log'[i].session <= session'
                                 /\ up' /\ log'[i].session = session' => log'[i].txn < nextTxn'
  <2> TAKE i \in Visible'
  <2>1. CASE i \in Visible
    <3>1. log'[i] = log[i]
      BY <1>3, <2>1 DEF SameFrames
    <3> QED
      BY <1>1, <1>2, <1>3, <2>1, <3>1 DEF LogInv
  <2>2. CASE i \notin Visible
    <3>1. log'[i].session = 0
      BY <1>3, <2>2 DEF SameFrames, Hole
    <3> QED
      BY <1>1, <1>3, <3>1
  <2> QED
    BY <2>1, <2>2
<1>4. CASE UNCHANGED <<log, frameCount, session>> /\ (up' => up /\ nextTxn' >= nextTxn)
  BY <1>3, <1>4, UntouchedFiles DEF LogInv
<1>5. CASE Open
  <2>1. session' = session + 1 /\ log' = log /\ frameCount' = frameCount /\ Visible' = Visible
    BY <1>5 DEF Open, files, Visible
  <2> QED
    BY <1>1, <1>2, <2>1 DEF LogInv
<1>6. CASE (\E p \in Pages : DataFrame(p)) \/ CommitFrame
  <2>1. session' = session /\ nextTxn' = nextTxn /\ up' = up
    BY <1>6 DEF DataFrame, CommitFrame, memory
  <2>2. SameFrames /\ ~ (Len(log') < frameCount')
    BY <1>1, <1>6, FrameStep DEF Pending
  <2> QED
    BY <1>1, <1>3, <2>1, <2>2 DEF LogInv
<1>7. CASE DataHeader \/ CommitHeader
  <2>1. /\ Visible' = Visible \union {Pending} /\ log' = log /\ session' = session
        /\ nextTxn' = nextTxn /\ up
        /\ log[Pending].session = session /\ log[Pending].txn = BatchTxn
        /\ Len(log) = Pending /\ frameCount' = frameCount + 1
    BY <1>7, HeaderStep
  <2>2. BatchTxn < nextTxn /\ session <= session
    BY <1>1 DEF BatchTxn
  <2>3. ~ (Len(log') < frameCount')
    BY <1>1, <2>1 DEF Pending
  <2> QED
    BY <2>1, <2>2, <2>3 DEF LogInv
<1>8. CASE TruncateLog \/ ResetLogHeader
  <2>1. log' = << >> \/ frameCount' = 0
    BY <1>8 DEF TruncateLog, ResetLogHeader
  <2>2. Len(log') \in Nat
    BY LenProperties DEF TypeOK
  <2>3. Visible' = {}
    BY <2>1 DEF Visible
  <2>4. Len(log') < frameCount' => log' = << >>
    BY <2>1, <2>2
  <2> QED
    BY <2>3, <2>4 DEF LogInv
<1> QED
  BY <1>4, <1>5, <1>6, <1>7, <1>8, StepKinds DEF LogStep

LEMMA NextCallInv == TypeInv /\ TypeInv' /\ IInv /\ [Next]_vars => CallInv'
<1> SUFFICES ASSUME TypeInv, TypeInv', IInv, [Next]_vars PROVE CallInv'
  OBVIOUS
<1> USE DEF TypeInv, IInv
<1>1. ASSUME pc' \in {"idle", "pages", "logHeader", "dbHeader"}, up' \/ pc' = "idle"
      PROVE  CallInv'
  BY <1>1 DEF CallInv, Writing
<1>2. Holds(NoPages) = {}
  BY DEF Holds, NoPages
<1>3. CASE Begin \/ Rollback \/ AllocInTxn \/ AllocBlank \/ Flush \/ WriteDbHeader \/ SetCatalogRoot
           \/ TruncateLog \/ ResetLogHeader \/ Crash \/ Open
  <2>1. pc' \in {"idle", "pages", "logHeader", "dbHeader"} /\ (up' \/ pc' = "idle")
    BY <1>3 DEF Begin, Rollback, AllocInTxn, AllocBlank, Flush, WriteDbHeader, SetCatalogRoot,
                TruncateLog, ResetLogHeader, Crash, Open, NoMemory, EndCall, Idle
  <2> QED
    BY <1>1, <2>1
<1>4. ASSUME NEW p \in Pages, NEW v \in Values, WriteInTxn(p, v) PROVE CallInv'
  BY <1>1, <1>4 DEF WriteInTxn, Idle
<1>5. ASSUME NEW p \in Pages, WriteBack(p) PROVE CallInv'
  BY <1>1, <1>5 DEF WriteBack
<1>6. ASSUME NEW p \in Pages, NEW v \in Values, WriteAuto(p, v) PROVE CallInv'
  <2>1. \A q \in Holds(batch)' : q = p
    BY <1>6 DEF WriteAuto, StartBatch, Holds, NoPages
  <2>2. committed'[p] = v /\ batch'[p] = v
    BY <1>6 DEF WriteAuto, StartBatch, NoPages, TypeOK, PageMaps
  <2>3. call' = "write" /\ inTxn' = FALSE /\ up' /\ pc' # "blank"
    BY <1>6 DEF WriteAuto, StartBatch, Idle, TypeOK
  <2> QED
    BY <2>1, <2>2, <2>3 DEF CallInv
<1>7. CASE AllocAuto
  <2>0. pageCount \in Pages
    BY <1>7, BoundsAssumption DEF AllocAuto, TypeOK, Pages
  <2>1. \A q \in Holds(batch)' : q = pageCount
    BY <1>7 DEF AllocAuto, StartBatch, Holds, NoPages
  <2>2. committed'[pageCount] = Blank /\ batch'[pageCount] = Blank
    BY <1>7, <2>0 DEF AllocAuto, StartBatch, NoPages, TypeOK, PageMaps
  <2>3. call' = "alloc" /\ inTxn' = FALSE /\ up' /\ pc' # "blank"
    BY <1>7 DEF AllocAuto, StartBatch, Idle, TypeOK
  <2> QED
    BY <2>1, <2>2, <2>3 DEF CallInv
<1>8. CASE Commit
  <2>1. call' = "commit" /\ batch' = dirty /\ dirty' = dirty /\ up' /\ pc' # "blank"
    BY <1>8 DEF Commit, StartBatch, Idle
  <2> QED
    BY <2>1 DEF CallInv
<1>9. CASE (\E p \in Pages : DataFrame(p)) \/ DataHeader \/ CommitFrame
  <2>1. UNCHANGED <<call, batch, dirty, inTxn, committed>> /\ up' /\ Writing
    <3>1. CASE \E p \in Pages : DataFrame(p)
      BY <3>1 DEF DataFrame, Writing, memory
    <3>2. CASE DataHeader \/ CommitFrame
      BY <3>2 DEF DataHeader, CommitFrame, Writing, memory
    <3> QED
      BY <1>9, <3>1, <3>2
  <2>2. pc' # "blank"
    BY <1>9 DEF DataFrame, DataHeader, CommitFrame
  <2>3. Holds(batch)' = Holds(batch)
    BY <2>1 DEF Holds
  <2> QED
    BY <2>1, <2>2, <2>3 DEF CallInv
<1>10. CASE CommitHeader
  <2>1. Writing /\ up' /\ ~ Writing'
    BY <1>10 DEF CommitHeader, Writing, EndCall
  <2>2. CASE call = "alloc"
    <3>1. committed' = committed /\ batch' = batch
      BY <1>10, <2>2 DEF CommitHeader
    <3>2. \A p \in Holds(batch) : committed[p] = Blank
      BY <2>1, <2>2 DEF CallInv
    <3>3. Holds(batch)' = Holds(batch)
      BY <3>1 DEF Holds
    <3> QED
      BY <2>1, <3>1, <3>2, <3>3 DEF CallInv
  <2>3. CASE call # "alloc"
    <3>1. pc' = "idle"
      BY <1>10, <2>3 DEF CommitHeader, EndCall
    <3> QED
      BY <1>1, <3>1
  <2> QED
    BY <2>2, <2>3
<1>11. CASE UNCHANGED vars
  BY <1>11 DEF vars, files, memory, CallInv, Writing, Holds
<1> QED
  BY <1>3, <1>4, <1>5, <1>6, <1>7, <1>8, <1>9, <1>10, <1>11 DEF Next

LEMMA NextFlushInv == TypeInv /\ IInv /\ [Next]_vars => FlushInv'
<1> SUFFICES ASSUME TypeInv, IInv, [Next]_vars PROVE FlushInv'
  OBVIOUS
<1> USE DEF TypeInv, IInv
<1>1. ASSUME pc' \notin {"pages", "logHeader"} PROVE FlushInv'
  BY <1>1 DEF FlushInv
<1>2. CASE Begin \/ Rollback \/ AllocInTxn \/ AllocBlank \/ WriteDbHeader \/ SetCatalogRoot
           \/ ResetLogHeader \/ Crash \/ Open \/ Commit \/ AllocAuto
           \/ DataHeader \/ CommitFrame \/ CommitHeader
  <2>1. pc' \notin {"pages", "logHeader"}
    BY <1>2 DEF Begin, Rollback, AllocInTxn, AllocBlank, WriteDbHeader, SetCatalogRoot,
                ResetLogHeader, Crash, Open, Commit, AllocAuto, StartBatch,
                DataHeader, CommitFrame, CommitHeader, NoMemory, EndCall, Idle
  <2> QED
    BY <1>1, <2>1
<1>3. ASSUME NEW p \in Pages, NEW v \in Values, WriteInTxn(p, v) \/ WriteAuto(p, v)
      PROVE  FlushInv'
  BY <1>1, <1>3 DEF WriteInTxn, WriteAuto, StartBatch, Idle
<1>4. ASSUME NEW p \in Pages, DataFrame(p) PROVE FlushInv'
  BY <1>1, <1>4 DEF DataFrame
<1>5. CASE Flush
  <2>1. committed' = committed /\ pc' # "logHeader"
    BY <1>5 DEF Flush, memory
  <2>2. pc' = "pages" => todo' = Holds(committed)
    BY <1>5 DEF Flush
  <2>3. Holds(committed)' = Holds(committed)
    BY <2>1 DEF Holds
  <2> QED
    BY <2>1, <2>2, <2>3 DEF FlushInv
<1>6. ASSUME NEW p \in Pages, WriteBack(p) PROVE FlushInv'
  <2>1. /\ pc = "pages" /\ pc' = "pages" /\ todo' = todo \ {p} /\ committed' = committed
        /\ mainFile' = [mainFile EXCEPT ![p] = committed[p]]
    BY <1>6 DEF WriteBack, memory
  <2>2. \A q \in Pages : mainFile'[q] = IF q = p THEN committed[p] ELSE mainFile[q]
    BY <2>1 DEF TypeOK
  <2> QED
    BY <2>1, <2>2 DEF FlushInv, Holds
<1>7. CASE TruncateLog
  BY <1>7 DEF TruncateLog, FlushInv, memory, Holds
<1>8. CASE UNCHANGED vars
  BY <1>8 DEF vars, files, memory, FlushInv, Holds
<1> QED
  BY <1>2, <1>3, <1>4, <1>5, <1>6, <1>7, <1>8 DEF Next

\* A checkpoint, and the blank page of alloc_page, change the main file under
\* a committed copy; dropping the copies then changes no view.
LEMMA MainFileUnderCopy ==
    ASSUME TypeInv, IInv,
           AllocBlank \/ (\E p \in Pages : WriteBack(p)) \/ ResetLogHeader
    PROVE  \A q \in Pages : LiveView(q)' = LiveView(q)
<1> USE DEF TypeInv, IInv
<1>1. CASE AllocBlank
  <2> SUFFICES ASSUME NEW q \in Pages PROVE LiveView(q)' = LiveView(q)
    OBVIOUS
  <2>1. q \in Holds(batch) => committed[q] # None
    BY <1>1, ValueAssumption DEF AllocBlank, CallInv, Values
  <2>2. committed' = committed /\ (q \notin Holds(batch) => mainFile'[q] = mainFile[q])
    BY <1>1 DEF AllocBlank, memory
  <2> QED
    BY <2>1, <2>2 DEF LiveView
<1>2. ASSUME NEW p \in Pages, WriteBack(p)
      PROVE  \A q \in Pages : LiveView(q)' = LiveView(q)
  <2>1. committed' = committed /\ committed[p] # None
        /\ mainFile' = [mainFile EXCEPT ![p] = committed[p]]
    BY <1>2 DEF WriteBack, memory, TodoHeld, Holds
  <2>2. \A q \in Pages : q # p => mainFile'[q] = mainFile[q]
    BY <2>1 DEF TypeOK
  <2> QED
    BY <2>1, <2>2 DEF LiveView
<1>3. CASE ResetLogHeader
  <2>1. committed' = NoPages /\ mainFile' = mainFile
    BY <1>3 DEF ResetLogHeader
  <2>2. \A q \in Pages : committed[q] # None => mainFile[q] = committed[q]
    BY <1>3 DEF ResetLogHeader, FlushInv, Holds
  <2> QED
    BY <2>1, <2>2 DEF LiveView, NoPages
<1> QED
  BY <1>1, <1>2, <1>3

LEMMA NextPreInv == TypeInv /\ IInv /\ [Next]_vars => PreInv'
<1> SUFFICES ASSUME TypeInv, IInv, [Next]_vars PROVE PreInv'
  OBVIOUS
<1> USE DEF TypeInv, IInv
<1>1. ASSUME ~ inTxn' PROVE PreInv'
  BY <1>1 DEF PreInv
<1>2. ASSUME UNCHANGED <<preImage, inTxn, staleImage, spoiled>>,
             \A q \in Pages : LiveView(q)' = LiveView(q)
      PROVE  PreInv'
  BY <1>2 DEF PreInv
<1>3. ASSUME UNCHANGED <<mainFile, committed>>
      PROVE  \A q \in Pages : LiveView(q)' = LiveView(q)
  BY <1>3 DEF LiveView
<1>4. CASE Begin
  BY <1>4 DEF Begin, PreInv, NoPages
<1>5. CASE Rollback \/ Crash \/ Open
  BY <1>1, <1>5 DEF Rollback, Crash, Open, NoMemory
<1>6. CASE AllocAuto
  BY <1>1, <1>6 DEF AllocAuto, TypeOK
<1>7. ASSUME NEW p \in Pages, NEW v \in Values, WriteAuto(p, v) PROVE PreInv'
  BY <1>1, <1>7 DEF WriteAuto, TypeOK
<1>8. ASSUME NEW p \in Pages, NEW v \in Values, WriteInTxn(p, v) PROVE PreInv'
  <2>1. inTxn /\ UNCHANGED <<mainFile, committed, spoiled>> /\ staleImage \subseteq staleImage'
    BY <1>8 DEF WriteInTxn, files
  <2>2. \A q \in Pages : LiveView(q)' = LiveView(q)
    BY <1>3, <2>1
  <2>3. ASSUME NEW q \in Pages, q \notin staleImage', q \notin spoiled', preImage'[q] # None
        PROVE  preImage'[q] = LiveView(q)
    <3>1. CASE preImage'[q] = preImage[q]
      BY <2>1, <2>3, <3>1 DEF PreInv
    <3>2. CASE preImage'[q] # preImage[q]
      <4>1. preImage[p] = None /\ preImage' = [preImage EXCEPT ![p] = CommittedCopy(p)] /\ q = p
        BY <1>8, <3>2 DEF WriteInTxn, TypeOK, PageMaps
      <4>2. dirty[p] = None
        BY <1>8, <2>3, <4>1 DEF WriteInTxn
      <4>3. preImage'[q] = committed[q]
        BY <4>1, <4>2 DEF CommittedCopy, TypeOK, PageMaps
      <4> QED
        BY <2>3, <4>3 DEF LiveView
    <3> QED
      BY <3>1, <3>2
  <2> QED
    BY <2>2, <2>3 DEF PreInv
<1>9. CASE AllocInTxn
  <2>1. /\ inTxn /\ UNCHANGED <<committed, preImage, staleImage>>
        /\ mainFile' = [mainFile EXCEPT ![pageCount] = Blank]
        /\ spoiled' = IF LiveView(pageCount) # Blank
                      THEN spoiled \union {pageCount} ELSE spoiled
    BY <1>9 DEF AllocInTxn
  <2>2. ASSUME NEW q \in Pages, q \notin spoiled' PROVE LiveView(q)' = LiveView(q)
    <3>1. CASE q = pageCount
      <4>1. LiveView(q) = Blank
        BY <2>1, <2>2, <3>1
      <4>2. mainFile'[q] = Blank
        BY <2>1, <3>1 DEF TypeOK
      <4> QED
        BY <2>1, <4>1, <4>2 DEF LiveView
    <3>2. CASE q # pageCount
      BY <2>1, <3>2 DEF LiveView, TypeOK
    <3> QED
      BY <3>1, <3>2
  <2>3. spoiled \subseteq spoiled'
    BY <2>1
  <2> QED
    BY <2>1, <2>2, <2>3 DEF PreInv
<1>10. CASE Commit
  BY <1>2, <1>3, <1>10 DEF Commit, files, ghosts
<1>11. CASE (\E p \in Pages : DataFrame(p)) \/ DataHeader \/ CommitFrame \/ Flush
            \/ TruncateLog \/ WriteDbHeader \/ SetCatalogRoot
  <2>1. UNCHANGED <<mainFile, committed, preImage, inTxn, staleImage, spoiled>>
    BY <1>11 DEF DataFrame, DataHeader, CommitFrame, Flush, TruncateLog, WriteDbHeader,
                 SetCatalogRoot, files, memory, ghosts
  <2> QED
    BY <1>2, <1>3, <2>1
<1>12. CASE CommitHeader
  <2>1. ~ inTxn'
    BY <1>12 DEF CommitHeader, CallInv, Writing
  <2> QED
    BY <1>1, <2>1
<1>13. CASE AllocBlank \/ (\E p \in Pages : WriteBack(p)) \/ ResetLogHeader
  <2>1. UNCHANGED <<preImage, inTxn, staleImage, spoiled>>
    BY <1>13 DEF AllocBlank, WriteBack, ResetLogHeader, memory, ghosts
  <2> QED
    BY <1>2, <1>13, <2>1, MainFileUnderCopy
<1>14. CASE UNCHANGED vars
  BY <1>2, <1>3, <1>14 DEF vars, files, memory, ghosts
<1> QED
  BY <1>4, <1>5, <1>6, <1>7, <1>8, <1>9, <1>10, <1>11, <1>12, <1>13, <1>14 DEF Next

\* A batch starts with no frame of its own: its id is a new one.
LEMMA FreshBatch ==
    ASSUME TypeInv, IInv, TypeOK', NEW c, NEW m \in PageMaps, StartBatch(c, m), up,
           UNCHANGED <<log, frameCount, session>>
    PROVE  BatchInv'
<1> USE DEF TypeInv, IInv
<1>1. nextTxn' = nextTxn + 1 /\ BatchTxn' = nextTxn
  BY DEF StartBatch, BatchTxn, TypeOK
<1>2. Visible' = Visible
  BY DEF Visible
<1>3. \A i \in Visible : ~ (log[i].session = session /\ log[i].txn = nextTxn)
  <2> TAKE i \in Visible
  <2>1. i \in 1 .. Len(log) /\ log \in Seq(Frames)
    BY LenProperties DEF Visible, TypeOK
  <2>2. log[i] \in Frames
    BY <2>1, ElementOfSeq
  <2>3. log[i].txn \in Nat /\ nextTxn \in Nat
    BY <2>2 DEF Frames, TypeOK
  <2> QED
    BY <2>3 DEF LogInv
<1>4. Own' = {}
  BY <1>1, <1>2, <1>3 DEF Own
<1>5. (Holds(batch) \ todo)' = {}
  BY DEF StartBatch, Holds
<1>6. pc' \in {"data", "commit"} /\ (pc' = "commit" => todo' = {})
  BY DEF StartBatch
<1> QED
  BY <1>4, <1>5, <1>6 DEF BatchInv

LEMMA NextBatchInv == TypeInv /\ TypeInv' /\ IInv /\ [Next]_vars => BatchInv'
<1> SUFFICES ASSUME TypeInv, TypeInv', IInv, [Next]_vars PROVE BatchInv'
  OBVIOUS
<1> USE DEF TypeInv, IInv
<1>1. ASSUME pc' \in {"idle", "blank", "pages", "logHeader", "dbHeader"} PROVE BatchInv'
  BY <1>1 DEF BatchInv, Writing
<1>2. NoPages \in PageMaps /\ Blank \in Values
  BY DEF NoPages, PageMaps, Values
<1>3. CASE Begin \/ Rollback \/ AllocInTxn \/ AllocBlank \/ Flush \/ WriteDbHeader \/ SetCatalogRoot
           \/ TruncateLog \/ ResetLogHeader \/ Crash \/ Open \/ CommitHeader
  <2>1. pc' \in {"idle", "blank", "pages", "logHeader", "dbHeader"}
    BY <1>3 DEF Begin, Rollback, AllocInTxn, AllocBlank, Flush, WriteDbHeader, SetCatalogRoot,
                TruncateLog, ResetLogHeader, Crash, Open, CommitHeader, NoMemory, EndCall, Idle
  <2> QED
    BY <1>1, <2>1
<1>4. ASSUME NEW p \in Pages, NEW v \in Values, WriteInTxn(p, v) PROVE BatchInv'
  BY <1>1, <1>4 DEF WriteInTxn, Idle
<1>5. ASSUME NEW p \in Pages, WriteBack(p) PROVE BatchInv'
  BY <1>1, <1>5 DEF WriteBack
<1>6. CASE Commit
  <2>1. StartBatch("commit", dirty) /\ up /\ UNCHANGED <<log, frameCount, session>>
    BY <1>6 DEF Commit, Idle, files
  <2> QED
    BY <2>1, FreshBatch DEF TypeOK
<1>7. CASE AllocAuto
  <2>1. StartBatch("alloc", [NoPages EXCEPT ![pageCount] = Blank]) /\ up
        /\ UNCHANGED <<log, frameCount, session>>
    BY <1>7 DEF AllocAuto, Idle, files
  <2>2. [NoPages EXCEPT ![pageCount] = Blank] \in PageMaps
    BY <1>2 DEF PageMaps
  <2> QED
    BY <2>1, <2>2, FreshBatch
<1>8. ASSUME NEW p \in Pages, NEW v \in Values, WriteAuto(p, v) PROVE BatchInv'
  <2>1. StartBatch("write", [NoPages EXCEPT ![p] = v]) /\ up
        /\ UNCHANGED <<log, frameCount, session>>
    BY <1>8 DEF WriteAuto, Idle, files
  <2>2. [NoPages EXCEPT ![p] = v] \in PageMaps
    BY <1>2 DEF PageMaps
  <2> QED
    BY <2>1, <2>2, FreshBatch
<1>9. ASSUME SameFrames, UNCHANGED <<batch, session, nextTxn>>, Writing, todo' \subseteq todo
      PROVE  /\ BatchTxn' = BatchTxn /\ Holds(batch)' = Holds(batch) /\ Own' = Own
             /\ \A i \in Own : log'[i] = log[i] /\ IsBatchFrame(log[i])'
             /\ \A i \in Own, j \in Visible' \ Own : j < i
  <2>1. BatchTxn' = BatchTxn /\ Holds(batch)' = Holds(batch)
    BY <1>9 DEF BatchTxn, Holds
  <2>2. Own' = Own
    BY <1>9, SameFramesKeep
  <2>3. ASSUME NEW i \in Own PROVE log'[i] = log[i] /\ IsBatchFrame(log[i])'
    <3>1. log'[i] = log[i]
      BY <1>9 DEF SameFrames, Own
    <3>2. IsBatchFrame(log[i])
      BY <1>9 DEF BatchInv
    <3> QED
      BY <1>9, <2>1, <3>1, <3>2 DEF IsBatchFrame
  <2>4. ASSUME NEW i \in Own, NEW j \in Visible' \ Own PROVE j < i
    <3>1. Visible' = Visible
      BY <1>9 DEF SameFrames, Own
    <3> QED
      BY <1>9, <3>1 DEF BatchInv
  <2> QED
    BY <2>1, <2>2, <2>3, <2>4
<1>10. ASSUME NEW p \in Pages, DataFrame(p) PROVE BatchInv'
  <2> DEFINE f == [kind |-> "data", page |-> p, txn |-> BatchTxn,
                   session |-> session, data |-> batch[p]]
  <2>1. /\ pc = "data" /\ pc' = "dataHeader" /\ p \in todo /\ todo' = todo \ {p}
        /\ UNCHANGED <<batch, session, nextTxn, frameCount>> /\ Writing /\ Writing'
        /\ WriteSlot(f)
    BY <1>10 DEF DataFrame, memory, Writing
  <2>2. SameFrames /\ Len(log') = Pending
    BY <1>10, FrameStep
  <2>3. p \in Holds(batch) /\ batch[p] \in Values
    BY <2>1 DEF TodoHeld, Holds, TypeOK, PageMaps
  <2>4. f \in Frames
    BY <2>3 DEF Frames, TypeOK, BatchTxn
  <2>5. log'[Pending] = f /\ Pending' = Pending
    BY <2>1, <2>4, WriteSlotType DEF TypeOK, Pending
  <2>6. /\ BatchTxn' = BatchTxn /\ Holds(batch)' = Holds(batch) /\ Own' = Own
        /\ \A i \in Own : log'[i] = log[i] /\ IsBatchFrame(log[i])'
        /\ \A i \in Own, j \in Visible' \ Own : j < i
    BY <1>9, <2>1, <2>2
  <2>7. IsBatchFrame(log[Pending])'
    BY <2>1, <2>3, <2>5, <2>6 DEF IsBatchFrame
  <2>8. \A q \in (Holds(batch) \ todo)' :
           \/ \E i \in Own' : log'[i].page = q
           \/ log'[Pending].page = q
    <3> TAKE q \in (Holds(batch) \ todo)'
    <3>1. CASE q = p
      BY <2>5, <3>1
    <3>2. CASE q # p
      <4>1. q \in Holds(batch) \ todo
        BY <2>1, <2>6, <3>2
      <4>2. PICK i \in Own : log[i].page = q
        BY <2>1, <4>1 DEF BatchInv
      <4> QED
        BY <2>6, <4>2
    <3> QED
      BY <3>1, <3>2
  <2> HIDE DEF f
  <2> QED
    BY <2>1, <2>2, <2>5, <2>6, <2>7, <2>8 DEF BatchInv
<1>11. CASE CommitFrame
  <2> DEFINE f == [kind |-> "commit", page |-> NoPage, txn |-> BatchTxn,
                   session |-> session, data |-> Blank]
  <2>1. /\ pc = "commit" /\ pc' = "commitHeader" /\ todo' = todo
        /\ UNCHANGED <<batch, session, nextTxn, frameCount>> /\ Writing /\ Writing'
        /\ WriteSlot(f)
    BY <1>11 DEF CommitFrame, memory, Writing
  <2>2. SameFrames /\ Len(log') = Pending
    BY <1>11, FrameStep
  <2>3. f \in Frames
    BY <1>2 DEF Frames, TypeOK, BatchTxn
  <2>4. log'[Pending] = f /\ Pending' = Pending
    BY <2>1, <2>3, WriteSlotType DEF TypeOK, Pending
  <2>5. /\ BatchTxn' = BatchTxn /\ Holds(batch)' = Holds(batch) /\ Own' = Own
        /\ \A i \in Own : log'[i] = log[i] /\ IsBatchFrame(log[i])'
        /\ \A i \in Own, j \in Visible' \ Own : j < i
    BY <1>9, <2>1, <2>2
  <2>6. todo = {} /\ \A q \in Holds(batch) \ todo : \E i \in Own : log[i].page = q
    BY <2>1 DEF BatchInv
  <2>7. /\ log'[Pending].kind = "commit" /\ log'[Pending].txn = BatchTxn
        /\ log'[Pending].session = session
    BY <2>4
  <2> HIDE DEF f
  <2> QED
    BY <2>1, <2>2, <2>4, <2>5, <2>6, <2>7 DEF BatchInv
<1>12. CASE DataHeader
  <2>1. /\ Visible' = Visible \union {Pending} /\ Pending \notin Visible
        /\ \A i \in Visible : i < Pending
        /\ log' = log /\ session' = session /\ nextTxn' = nextTxn
    BY <1>12, HeaderStep
  <2>2. /\ pc = "dataHeader" /\ Writing /\ UNCHANGED <<batch, todo>>
        /\ pc' \in {"data", "commit"} /\ (pc' = "commit" => todo' = {})
    BY <1>12 DEF DataHeader, Writing
  <2>3. IsBatchFrame(log[Pending])
    BY <2>2 DEF BatchInv
  <2>4. BatchTxn' = BatchTxn /\ Holds(batch)' = Holds(batch)
    BY <2>1, <2>2 DEF BatchTxn, Holds
  <2>5. Own' = Own \union {Pending}
    BY <2>1, <2>3, <2>4 DEF Own, IsBatchFrame
  <2>6. \A i \in Own' : IsBatchFrame(log[i])'
    BY <2>1, <2>2, <2>3, <2>4, <2>5 DEF BatchInv, IsBatchFrame
  <2>7. \A i \in Own', j \in Visible' \ Own' : j < i
    BY <2>1, <2>2, <2>5 DEF BatchInv
  <2>8. \A q \in (Holds(batch) \ todo)' : \E i \in Own' : log'[i].page = q
    BY <2>1, <2>2, <2>4, <2>5 DEF BatchInv
  <2> QED
    BY <2>2, <2>6, <2>7, <2>8 DEF BatchInv
<1>13. CASE UNCHANGED vars
  BY <1>13 DEF vars, files, memory, BatchInv, Writing, Own, Visible, IsBatchFrame, BatchTxn,
               Holds, Pending
<1> QED
  BY <1>3, <1>4, <1>5, <1>6, <1>7, <1>8, <1>10, <1>11, <1>12, <1>13 DEF Next

---------------------------------------------------------------------------
(***************************************************************************)
(* What a restart finds, step by step.                                     *)
(***************************************************************************)

\* Only cutting the log ends a clash of transaction ids.
LEMMA ClashStays ==
    ASSUME TypeInv, TypeInv', IInv, [Next]_vars, ~ TruncateLog, IdClash
    PROVE  IdClash'
<1> USE DEF TypeInv, IInv
<1>1. ASSUME SameFrames PROVE IdClash'
  BY <1>1, SameFramesKeep
<1>2. CASE (\E p \in Pages : DataFrame(p)) \/ CommitFrame
  BY <1>1, <1>2, FrameStep
<1>3. CASE DataHeader \/ CommitHeader
  <2>1. Visible' = Visible \union {Pending} /\ log' = log
    BY <1>3, HeaderStep
  <2> QED
    BY <2>1 DEF IdClash
<1>4. CASE ResetLogHeader
  BY <1>4 DEF ResetLogHeader, FlushInv, IdClash, Visible
<1>5. CASE Open
  BY <1>1, <1>5, UntouchedFiles DEF Open, files
<1>6. CASE UNCHANGED <<log, frameCount>>
  BY <1>1, <1>6, UntouchedFiles
<1> QED
  BY <1>2, <1>3, <1>4, <1>5, <1>6, StepKinds DEF LogStep

\* A write to the main file that replay covers, or that repeats what a restart
\* finds anyway, does not show.
LEMMA MainFileWrite ==
    ASSUME UNCHANGED <<log, frameCount>>, NEW p \in Pages,
           mainFile'[p] \in {mainFile[p], Recovered(p)}
    PROVE  Recovered(p)' = Recovered(p)
<1>1. Applied(p)' = Applied(p)
  BY DEF Applied, CommittedTxns, Visible
<1>2. CASE Applied(p) = {}
  BY <1>1, <1>2 DEF Recovered
<1>3. CASE Applied(p) # {}
  BY <1>1, <1>3 DEF Recovered
<1> QED
  BY <1>2, <1>3

\* A data frame that comes into view waits for its commit frame.
LEMMA DataHeaderHides ==
    ASSUME TypeInv, TypeInv', IInv, DataHeader, ~ IdClash', NEW p \in Pages
    PROVE  Recovered(p)' = Recovered(p)
<1> USE DEF TypeInv, IInv
<1>1. /\ Visible' = Visible \union {Pending} /\ Pending \notin Visible
      /\ log' = log /\ mainFile' = mainFile
      /\ log[Pending].session = session /\ log[Pending].txn = BatchTxn
  BY HeaderStep DEF DataHeader
<1>2. Writing /\ log[Pending].kind = "data"
  BY DEF DataHeader, Writing, BatchInv, IsBatchFrame
<1>3. CommittedTxns' = CommittedTxns
  BY <1>1, <1>2 DEF CommittedTxns
<1>4. BatchTxn \notin CommittedTxns
  <2> SUFFICES ASSUME NEW j \in Visible, log[j].kind = "commit", log[j].txn = BatchTxn
               PROVE  FALSE
    BY DEF CommittedTxns
  <2>1. log[j].session = session
    BY <1>1 DEF IdClash
  <2>2. j \in Own
    BY <2>1 DEF Own
  <2> QED
    BY <1>2, <2>2 DEF BatchInv, IsBatchFrame
<1>5. Applied(p)' = Applied(p)
  BY <1>1, <1>3, <1>4 DEF Applied
<1> QED
  BY <1>1, <1>5 DEF Recovered

\* The commit frame that comes into view brings in the batch and nothing else.
LEMMA CommitHeaderShows ==
    ASSUME TypeInv, TypeInv', IInv, CommitHeader, ~ IdClash', NEW p \in Pages
    PROVE  Recovered(p)' = IF batch[p] # None THEN batch[p] ELSE Recovered(p)
<1> USE DEF TypeInv, IInv
<1>1. /\ Visible' = Visible \union {Pending} /\ Pending \notin Visible
      /\ log' = log /\ mainFile' = mainFile
      /\ log[Pending].session = session /\ log[Pending].txn = BatchTxn
  BY HeaderStep DEF CommitHeader
<1>2. Writing /\ pc = "commitHeader" /\ todo = {} /\ log[Pending].kind = "commit"
  BY DEF CommitHeader, Writing, BatchInv
<1>3. CommittedTxns' = CommittedTxns \union {BatchTxn}
  BY <1>1, <1>2 DEF CommittedTxns
<1>4. Applied(p)' = Applied(p) \union {i \in Visible : /\ log[i].kind = "data" /\ log[i].page = p
                                                      /\ log[i].txn = BatchTxn}
  BY <1>1, <1>2, <1>3 DEF Applied
<1>5. ASSUME NEW i \in Visible, log[i].txn = BatchTxn PROVE i \in Own
  BY <1>1, <1>5 DEF IdClash, Own
<1>6. CASE batch[p] = None
  <2>1. Applied(p)' = Applied(p)
    <3>1. ASSUME NEW i \in Visible, log[i].txn = BatchTxn PROVE log[i].page # p
      BY <1>2, <1>5, <1>6, <3>1 DEF BatchInv, IsBatchFrame, Holds
    <3> QED
      BY <1>4, <3>1
  <2> QED
    BY <1>1, <1>6, <2>1 DEF Recovered
<1>7. CASE batch[p] # None
  <2>1. PICK i \in Own : log[i].page = p
    BY <1>2, <1>7 DEF BatchInv, Holds
  <2>2. i \in Applied(p)'
    BY <1>2, <1>4, <2>1 DEF Own, BatchInv, IsBatchFrame
  <2>3. PICK k : k = Newest(Applied(p)')
    OBVIOUS
  <2>4. k \in Applied(p)' /\ \A j \in Applied(p)' : j <= k
    <3>1. Applied(p)' \in SUBSET (1 .. frameCount') /\ frameCount' \in Nat
      BY DEF Applied, Visible, TypeOK
    <3> QED
      BY <2>2, <2>3, <3>1, NewestIsLast
  <2>5. k \in Visible /\ log[k].page = p
    BY <1>1, <1>2, <1>4, <2>4 DEF Applied
  <2>6. k \in Own
    <3>1. i <= k
      BY <2>2, <2>4
    <3>2. k \notin Own => k < i
      BY <1>2, <2>1, <2>5 DEF BatchInv
    <3>3. k \in Int /\ i \in Int
      BY <2>1, <2>5 DEF Visible, Own
    <3> QED
      BY <3>1, <3>2, <3>3
  <2>7. log[k].data = batch[p]
    BY <1>2, <2>5, <2>6 DEF BatchInv, IsBatchFrame
  <2> QED
    BY <1>1, <1>7, <2>2, <2>3, <2>7 DEF Recovered
<1> QED
  BY <1>6, <1>7

\* Cutting the log leaves what memory has: the checkpoint wrote all of it back.
LEMMA TruncateShows ==
    ASSUME TypeInv, IInv, TruncateLog, NEW p \in Pages
    PROVE  Recovered(p)' = LiveView(p) /\ LiveView(p)' = LiveView(p)
<1> USE DEF TypeInv, IInv
<1>1. /\ log' = << >> /\ mainFile' = mainFile /\ committed' = committed
      /\ \A q \in Pages : committed[q] # None => mainFile[q] = committed[q]
  BY DEF TruncateLog, memory, FlushInv, Holds
<1>2. Visible' = {}
  BY <1>1 DEF Visible
<1>3. Applied(p)' = {}
  BY <1>2 DEF Applied
<1> QED
  BY <1>1, <1>3 DEF Recovered, LiveView

\* No other step shows.
LEMMA OtherStepsHide ==
    ASSUME TypeInv, TypeInv', IInv, [Next]_vars, ~ TruncateLog, ~ CommitHeader, ~ IdClash',
           NEW p \in Pages, p \notin spoiled, p \notin spoiled'
    PROVE  Recovered(p)' = Recovered(p)
<1> USE DEF TypeInv, IInv
<1>1. ~ IdClash
  BY ClashStays
<1>2. CASE (\E q \in Pages : DataFrame(q)) \/ CommitFrame
  <2>1. mainFile' = mainFile
    BY <1>2 DEF DataFrame, CommitFrame
  <2> QED
    BY <1>2, <2>1, FrameStep, SameFramesKeep
<1>3. CASE DataHeader
  BY <1>3, DataHeaderHides
<1>4. CASE ResetLogHeader
  <2>1. mainFile' = mainFile /\ Visible = {} /\ Visible' = {}
    BY <1>4 DEF ResetLogHeader, FlushInv, Visible
  <2>2. Applied(p) = {} /\ Applied(p)' = {}
    BY <2>1 DEF Applied
  <2> QED
    BY <2>1, <2>2 DEF Recovered
<1>5. ASSUME UNCHANGED <<log, frameCount, mainFile>> PROVE Recovered(p)' = Recovered(p)
  BY <1>5, MainFileWrite
<1>6. CASE Begin \/ Commit \/ Rollback \/ AllocAuto \/ Flush \/ WriteDbHeader
           \/ SetCatalogRoot \/ Crash \/ Open
  <2>1. UNCHANGED <<log, frameCount, mainFile>>
    BY <1>6 DEF Begin, Commit, Rollback, AllocAuto, Flush, WriteDbHeader, SetCatalogRoot,
                Crash, Open, files
  <2> QED
    BY <1>5, <2>1
<1>7. ASSUME NEW q \in Pages, NEW v \in Values, WriteInTxn(q, v) \/ WriteAuto(q, v)
      PROVE  Recovered(p)' = Recovered(p)
  BY <1>5, <1>7 DEF WriteInTxn, WriteAuto, files
<1>8. ASSUME up, pc \in {"idle", "blank", "pages"} PROVE LiveView(p) = Recovered(p)
  BY <1>1, <1>8 DEF ViewInv, Ahead, Writing
<1>9. CASE AllocInTxn
  <2>1. /\ UNCHANGED <<log, frameCount>> /\ up /\ pc = "idle"
        /\ mainFile' = [mainFile EXCEPT ![pageCount] = Blank]
        /\ LiveView(pageCount) # Blank => pageCount \in spoiled'
    BY <1>9 DEF AllocInTxn, Idle
  <2>2. mainFile'[p] \in {mainFile[p], Recovered(p)}
    BY <1>8, <2>1 DEF TypeOK
  <2> QED
    BY <2>1, <2>2, MainFileWrite
<1>10. CASE AllocBlank
  <2>1. /\ UNCHANGED <<log, frameCount>> /\ up /\ pc = "blank"
        /\ mainFile'[p] = IF p \in Holds(batch) THEN Blank ELSE mainFile[p]
    BY <1>10 DEF AllocBlank
  <2>2. p \in Holds(batch) => LiveView(p) = Blank
    BY <2>1, ValueAssumption DEF CallInv, LiveView, Values
  <2> QED
    BY <1>8, <2>1, <2>2, MainFileWrite
<1>11. ASSUME NEW q \in Pages, WriteBack(q) PROVE Recovered(p)' = Recovered(p)
  <2>1. /\ UNCHANGED <<log, frameCount>> /\ up /\ pc = "pages"
        /\ mainFile' = [mainFile EXCEPT ![q] = committed[q]]
        /\ LiveView(q) = committed[q]
    BY <1>11 DEF WriteBack, TodoHeld, Holds, LiveView
  <2>2. mainFile'[p] \in {mainFile[p], Recovered(p)}
    BY <1>8, <2>1 DEF TypeOK
  <2> QED
    BY <2>1, <2>2, MainFileWrite
<1>12. CASE UNCHANGED vars
  BY <1>5, <1>12 DEF vars, files
<1> QED
  BY <1>2, <1>3, <1>4, <1>6, <1>7, <1>9, <1>10, <1>11, <1>12 DEF Next

\* Memory follows the files.
LEMMA NextViewInv == TypeInv /\ TypeInv' /\ IInv /\ [Next]_vars => ViewInv'
<1> SUFFICES ASSUME TypeInv, TypeInv', IInv, [Next]_vars,
                    up', ~ IdClash', NEW p \in Pages, p \notin spoiled', p \notin Ahead'
             PROVE  LiveView(p)' = Recovered(p)'
  BY DEF ViewInv
<1> USE DEF TypeInv, IInv
<1>1. ASSUME up, ~ TruncateLog, ~ CommitHeader, p \notin spoiled, p \notin Ahead,
             LiveView(p)' = LiveView(p)
      PROVE  LiveView(p)' = Recovered(p)'
  <2>1. LiveView(p) = Recovered(p)
    BY <1>1, ClashStays DEF ViewInv
  <2> QED
    BY <1>1, <2>1, OtherStepsHide
<1>2. ASSUME UNCHANGED <<mainFile, committed>> PROVE LiveView(p)' = LiveView(p)
  BY <1>2 DEF LiveView
<1>3. pc \in {"idle", "blank", "pages", "logHeader", "dbHeader"} => Ahead = {}
  BY DEF Ahead, Writing
<1>4. CASE TruncateLog
  BY <1>4, TruncateShows
<1>5. CASE CommitHeader
  <2>1. Recovered(p)' = IF batch[p] # None THEN batch[p] ELSE Recovered(p)
    BY <1>5, CommitHeaderShows
  <2>2. Writing /\ up /\ mainFile' = mainFile /\ spoiled' = spoiled \ Holds(batch)
    BY <1>5 DEF CommitHeader, Writing
  <2>3. ASSUME batch[p] = None PROVE LiveView(p) = Recovered(p)
    <3>1. ~ IdClash
      BY <1>5, ClashStays DEF TruncateLog, CommitHeader
    <3>2. p \notin spoiled /\ p \notin Ahead
      BY <2>2, <2>3 DEF Ahead, Holds
    <3> QED
      BY <2>2, <3>1, <3>2 DEF ViewInv
  <2>4. CASE call = "commit"
    <3>1. committed'[p] = IF dirty[p] # None THEN dirty[p] ELSE committed[p]
      BY <1>5, <2>4 DEF CommitHeader, Over
    <3>2. batch = dirty
      BY <2>2, <2>4 DEF CallInv
    <3> QED
      BY <2>1, <2>2, <2>3, <3>1, <3>2 DEF LiveView
  <2>5. CASE call # "commit"
    <3>1. committed' = committed
      BY <1>5, <2>5 DEF CommitHeader
    <3>2. batch[p] # None => committed[p] = batch[p]
      BY <2>2, <2>5 DEF CallInv, Holds
    <3> QED
      BY <2>1, <2>2, <2>3, <3>1, <3>2 DEF LiveView
  <2> QED
    BY <2>4, <2>5
<1>6. CASE Begin \/ Commit \/ Flush \/ WriteDbHeader \/ SetCatalogRoot
  <2>1. UNCHANGED <<mainFile, committed, spoiled>> /\ up
    BY <1>6 DEF Begin, Commit, Flush, WriteDbHeader, SetCatalogRoot, Idle, files, memory, ghosts
  <2>2. pc \in {"idle", "dbHeader"}
    BY <1>6 DEF Begin, Commit, Flush, WriteDbHeader, SetCatalogRoot, Idle
  <2>3. ~ TruncateLog /\ ~ CommitHeader
    BY <2>2 DEF TruncateLog, CommitHeader
  <2> QED
    BY <1>1, <1>2, <1>3, <2>1, <2>2, <2>3
<1>7. ASSUME NEW q \in Pages, NEW v \in Values, WriteInTxn(q, v) PROVE LiveView(p)' = Recovered(p)'
  <2>1. UNCHANGED <<mainFile, committed, spoiled>> /\ up /\ pc = "idle"
    BY <1>7 DEF WriteInTxn, Idle, files
  <2>2. ~ TruncateLog /\ ~ CommitHeader
    BY <2>1 DEF TruncateLog, CommitHeader
  <2> QED
    BY <1>1, <1>2, <1>3, <2>1, <2>2
<1>8. ASSUME NEW q \in Pages, NEW v \in Values, NEW c \in {"write", "alloc"}, c = call',
             up, pc = "idle", mainFile' = mainFile, spoiled' = spoiled,
             committed' = [committed EXCEPT ![q] = v],
             StartBatch(c, [NoPages EXCEPT ![q] = v])
      PROVE  LiveView(p)' = Recovered(p)'
  <2>1. q \in Ahead'
    <3>1. Writing' /\ call' # "commit"
      BY <1>8 DEF StartBatch, Writing
    <3>2. batch'[q] = v /\ v # None
      BY <1>8, ValueAssumption DEF StartBatch, NoPages
    <3> QED
      BY <3>1, <3>2 DEF Ahead, Holds
  <2>2. committed'[p] = committed[p]
    BY <1>8, <2>1 DEF TypeOK, PageMaps
  <2>3. LiveView(p)' = LiveView(p)
    BY <1>8, <2>2 DEF LiveView
  <2>4. ~ TruncateLog /\ ~ CommitHeader
    BY <1>8 DEF TruncateLog, CommitHeader
  <2> QED
    BY <1>1, <1>3, <1>8, <2>3, <2>4
<1>9. ASSUME NEW q \in Pages, NEW v \in Values, WriteAuto(q, v) PROVE LiveView(p)' = Recovered(p)'
  <2>1. StartBatch("write", [NoPages EXCEPT ![q] = v]) /\ call' = "write"
    BY <1>9 DEF WriteAuto, StartBatch
  <2>2. /\ up /\ pc = "idle" /\ mainFile' = mainFile /\ spoiled' = spoiled
        /\ committed' = [committed EXCEPT ![q] = v]
    BY <1>9 DEF WriteAuto, Idle, files, ghosts
  <2> QED
    BY <1>8, <2>1, <2>2
<1>10. CASE AllocAuto
  <2>1. StartBatch("alloc", [NoPages EXCEPT ![pageCount] = Blank]) /\ call' = "alloc"
    BY <1>10 DEF AllocAuto, StartBatch
  <2>2. /\ up /\ pc = "idle" /\ mainFile' = mainFile /\ spoiled' = spoiled
        /\ committed' = [committed EXCEPT ![pageCount] = Blank]
    BY <1>10 DEF AllocAuto, Idle, files, ghosts
  <2>3. pageCount \in Pages /\ Blank \in Values
    BY <1>10, BoundsAssumption DEF AllocAuto, TypeOK, Pages, Values
  <2> QED
    BY <1>8, <2>1, <2>2, <2>3
<1>11. CASE AllocInTxn
  <2>1. /\ up /\ pc = "idle" /\ committed' = committed
        /\ mainFile' = [mainFile EXCEPT ![pageCount] = Blank]
        /\ spoiled' = IF LiveView(pageCount) # Blank
                      THEN spoiled \union {pageCount} ELSE spoiled
    BY <1>11 DEF AllocInTxn, Idle
  <2>2. LiveView(p)' = LiveView(p)
    <3>1. mainFile'[p] = IF p = pageCount THEN Blank ELSE mainFile[p]
      BY <2>1 DEF TypeOK
    <3>2. p = pageCount => LiveView(p) = Blank
      BY <2>1
    <3> QED
      BY <2>1, <3>1, <3>2 DEF LiveView
  <2>3. p \notin spoiled /\ ~ TruncateLog /\ ~ CommitHeader
    BY <2>1 DEF TruncateLog, CommitHeader
  <2> QED
    BY <1>1, <1>3, <2>1, <2>2, <2>3
<1>12. CASE AllocBlank \/ (\E q \in Pages : WriteBack(q)) \/ ResetLogHeader
  <2>1. up /\ pc \in {"blank", "pages", "logHeader"} /\ spoiled' = spoiled
    BY <1>12 DEF AllocBlank, WriteBack, ResetLogHeader, ghosts
  <2>2. pc' # "commitHeader" /\ ~ CommitHeader
    BY <1>12 DEF AllocBlank, WriteBack, ResetLogHeader, CommitHeader, EndCall
  <2>3. CASE TruncateLog
    BY <2>3, <1>4
  <2>4. CASE ~ TruncateLog
    BY <1>1, <1>3, <1>12, <2>1, <2>2, <2>4, MainFileUnderCopy
  <2> QED
    BY <2>3, <2>4
<1>13. CASE (\E q \in Pages : DataFrame(q)) \/ CommitFrame \/ DataHeader
  <2>1. UNCHANGED <<mainFile, committed, spoiled, call, batch>> /\ up
    BY <1>13 DEF DataFrame, CommitFrame, DataHeader, memory, ghosts
  <2>2. pc \in {"data", "commit", "dataHeader"} /\ Writing /\ Writing'
    BY <1>13 DEF DataFrame, CommitFrame, DataHeader, Writing
  <2>3. Ahead' = Ahead /\ ~ TruncateLog /\ ~ CommitHeader
    BY <2>1, <2>2 DEF Ahead, Holds, TruncateLog, CommitHeader
  <2> QED
    BY <1>1, <1>2, <2>1, <2>3
<1>14. CASE Rollback
  <2>1. /\ up /\ pc = "idle" /\ UNCHANGED <<mainFile, log, frameCount>>
        /\ committed' = Over(preImage, committed)
        /\ spoiled' = spoiled \union {q \in IF inTxn THEN staleImage ELSE Holds(preImage) :
                                        preImage[q] # LiveView(q)}
    BY <1>14 DEF Rollback, Idle, files
  <2>2. committed'[p] = IF preImage[p] # None THEN preImage[p] ELSE committed[p]
    BY <2>1 DEF Over
  <2>3. preImage[p] # None => preImage[p] = LiveView(p)
    BY <2>1 DEF PreInv, Holds
  <2>4. LiveView(p)' = LiveView(p)
    BY <2>1, <2>2, <2>3 DEF LiveView
  <2>5. p \notin spoiled /\ ~ TruncateLog /\ ~ CommitHeader
    BY <2>1 DEF TruncateLog, CommitHeader
  <2> QED
    BY <1>1, <1>3, <2>1, <2>4, <2>5
<1>15. CASE Crash
  BY <1>15 DEF Crash
<1>16. CASE Open
  <2>1. /\ committed' = [q \in Pages |-> Replayed(q)]
        /\ UNCHANGED <<mainFile, log, frameCount>>
    BY <1>16 DEF Open, files
  <2>2. Recovered(p)' = Recovered(p)
    BY <2>1, MainFileWrite
  <2>3. Applied(p) # {} => Replayed(p) = Recovered(p)
    BY DEF Replayed, Recovered
  <2>4. Applied(p) = {} => Replayed(p) = None /\ Recovered(p) = mainFile[p]
    BY DEF Replayed, Recovered
  <2>5. Recovered(p) # None
    BY ReplayType, ValueAssumption DEF TypeOK
  <2> QED
    BY <2>1, <2>2, <2>3, <2>4, <2>5 DEF LiveView
<1>17. CASE UNCHANGED vars
  <2>1. UNCHANGED <<mainFile, committed, spoiled, up, log, frameCount>> /\ Ahead' = Ahead
    BY <1>17 DEF vars, files, memory, ghosts, Ahead, Writing, Holds
  <2>2. Recovered(p)' = Recovered(p) /\ LiveView(p)' = LiveView(p) /\ IdClash' = IdClash
    BY <2>1, MainFileWrite DEF LiveView, IdClash, Visible
  <2> QED
    BY <2>1, <2>2 DEF ViewInv
<1> QED
  BY <1>4, <1>5, <1>6, <1>7, <1>9, <1>10, <1>11, <1>12, <1>13, <1>14, <1>15, <1>16, <1>17
     DEF Next

---------------------------------------------------------------------------
LEMMA InitIInv == Init => IInv
<1> SUFFICES ASSUME Init PROVE IInv
  OBVIOUS
<1>1. Visible = {}
  BY DEF Init, Visible
<1>2. LogInv /\ BatchInv /\ CallInv /\ FlushInv /\ PreInv
  BY <1>1 DEF Init, LogInv, BatchInv, CallInv, FlushInv, PreInv, Writing
<1>3. ASSUME NEW p \in Pages PROVE LiveView(p) = mainFile[p] /\ Recovered(p) = mainFile[p]
  BY <1>1, <1>3 DEF Init, LiveView, Recovered, Applied, NoPages
<1> QED
  BY <1>2, <1>3 DEF IInv, ViewInv

LEMMA NextIInv == TypeInv /\ TypeInv' /\ IInv /\ [Next]_vars => IInv'
BY NextLogInv, NextBatchInv, NextCallInv, NextFlushInv, NextViewInv, NextPreInv DEF IInv

LEMMA Invariance == Spec => [](TypeInv /\ IInv)
<1>1. Init => TypeInv /\ IInv
  BY InitTypeInv, InitIInv
<1>2. TypeInv /\ IInv /\ [Next]_vars => (TypeInv /\ IInv)'
  BY NextTypeInv, NextIInv
<1> QED
  BY <1>1, <1>2, PTL DEF Spec

\* Between calls memory shows what a restart would find, in every behaviour of
\* the store, on every page that rollback or alloc_page did not spoil and as
\* long as no two sessions logged under one transaction id.
THEOREM ViewDurable == Spec => []ViewIsDurable
<1>1. TypeInv /\ IInv => ViewIsDurable
  BY DEF IInv, ViewInv, ViewIsDurable, Ahead, Writing, Idle
<1> QED
  BY <1>1, Invariance, PTL

\* A restart finds all of a batch or none of it, whenever the process dies: the
\* write that counts the commit frame is the only one that shows.
THEOREM DurablyAtomic == Spec => AtomicDurability
<1>1. TypeInv /\ IInv /\ (TypeInv /\ IInv)' /\ [Next]_vars =>
        [ ~IdClash /\ ~IdClash' =>
          \A p \in Pages \ (spoiled \union spoiled') :
            Recovered(p)' = IF CommitPoint /\ batch[p] # None
                            THEN batch[p] ELSE Recovered(p) ]_vars
  <2> SUFFICES ASSUME TypeInv, TypeInv', IInv, [Next]_vars, ~ IdClash, ~ IdClash',
                      NEW p \in Pages, p \notin spoiled, p \notin spoiled'
               PROVE  Recovered(p)' = IF CommitPoint /\ batch[p] # None
                                      THEN batch[p] ELSE Recovered(p)
    OBVIOUS
  <2>1. CASE CommitHeader
    <3>1. CommitPoint
      BY <2>1 DEF CommitPoint, CommitHeader
    <3> QED
      BY <2>1, <3>1, CommitHeaderShows
  <2>2. CASE TruncateLog
    <3>1. ~ CommitPoint /\ up /\ p \notin Ahead
      BY <2>2 DEF CommitPoint, TruncateLog, Ahead, Writing
    <3>2. LiveView(p) = Recovered(p)
      BY <3>1 DEF IInv, ViewInv
    <3> QED
      BY <2>2, <3>1, <3>2, TruncateShows
  <2>3. CASE ~ CommitHeader /\ ~ TruncateLog
    <3>1. ~ CommitPoint
      <4> SUFFICES ASSUME CommitPoint PROVE FALSE
        OBVIOUS
      <4>1. pc = "commitHeader" /\ up /\ frameCount' = frameCount + 1 /\ frameCount \in Nat
        BY DEF CommitPoint, TypeInv, TypeOK
      <4>2. CASE Next
        BY <2>3, <4>1, <4>2 DEF Next, Begin, Commit, Rollback, WriteInTxn, WriteAuto,
             AllocInTxn, AllocAuto, AllocBlank, DataFrame, WriteBack, DataHeader, CommitFrame,
             Flush, TruncateLog, ResetLogHeader, WriteDbHeader, SetCatalogRoot, Crash, Open,
             Idle, files
      <4>3. CASE UNCHANGED vars
        BY <4>1, <4>3 DEF vars, files
      <4> QED
        BY <4>2, <4>3
    <3> QED
      BY <2>3, <3>1, OtherStepsHide
  <2> QED
    BY <2>1, <2>2, <2>3
<1> QED
  BY <1>1, Invariance, PTL DEF Spec, AtomicDurability

---------------------------------------------------------------------------
(***************************************************************************)
(* The disk store implements AtomicStore.  The invariant above says what   *)
(* each file write shows; what remains is that callers within the contract *)
(* never make two sessions' frames meet under one id.                      *)
(***************************************************************************)

IsFrame(i) == log[i].kind # "hole"

\* All the frames in view are of one session, of the current one while frames
\* are being written; a batch outside a transaction has one page.
ContractInv ==
    /\ spoiled = {}
    /\ \A i \in Visible : IF IsFrame(i) THEN log[i].txn # 0 ELSE log[i] = Hole
    /\ \A i, j \in Visible : IsFrame(i) /\ IsFrame(j) => log[i].session = log[j].session
    /\ Writing => /\ BatchTxn # 0
                  /\ \A i \in Visible : IsFrame(i) => log[i].session = session
                  /\ IF call = "commit" THEN inTxn
                                        ELSE \E p \in Pages : Holds(batch) = {p}

LEMMA NoClash == ContractInv => ~ IdClash
BY DEF ContractInv, IdClash, IsFrame, Hole

LEMMA InitContractInv == Init => ContractInv
BY DEF Init, ContractInv, Writing, Visible

\* A step that changes no frame in view keeps them of one session.
LEMMA SameFramesContract ==
    ASSUME TypeOK, ContractInv, SameFrames
    PROVE  /\ \A i \in Visible' : IF IsFrame(i)' THEN log'[i].txn # 0 ELSE log'[i] = Hole
           /\ \A i, j \in Visible' : IsFrame(i)' /\ IsFrame(j)' =>
                                       log'[i].session = log'[j].session
           /\ \A i \in Visible' : IsFrame(i)' => i \in Visible /\ log'[i] = log[i]
<1>1. ASSUME NEW i \in Visible', IsFrame(i)' PROVE i \in Visible /\ log'[i] = log[i] /\ IsFrame(i)
  BY <1>1 DEF SameFrames, IsFrame, Hole
<1>2. ASSUME NEW i \in Visible', ~ IsFrame(i)' PROVE log'[i] = Hole
  BY <1>2 DEF SameFrames, IsFrame, ContractInv
<1> QED
  BY <1>1, <1>2 DEF ContractInv

LEMMA NextContractInv ==
    TypeInv /\ TypeInv' /\ IInv /\ ContractInv /\ [Next /\ CallInContract]_vars => ContractInv'
<1> SUFFICES ASSUME TypeInv, TypeInv', IInv, ContractInv, [Next /\ CallInContract]_vars
             PROVE  ContractInv'
  OBVIOUS
<1> USE DEF TypeInv, IInv
<1>1. [Next]_vars /\ spoiled' = {}
  BY DEF CallInContract, ContractInv, vars, ghosts
<1>2. ASSUME SameFrames, ~ Writing' PROVE ContractInv'
  BY <1>1, <1>2, SameFramesContract DEF ContractInv
<1>3. ASSUME SameFrames, Writing, Writing',
             UNCHANGED <<session, nextTxn, call, batch, inTxn>>
      PROVE  ContractInv'
  <2>1. \A i \in Visible' : IsFrame(i)' => log'[i].session = session'
    BY <1>3, SameFramesContract DEF ContractInv, IsFrame
  <2>2. BatchTxn' # 0
    BY <1>3 DEF ContractInv, BatchTxn
  <2>3. IF call' = "commit" THEN inTxn' ELSE \E p \in Pages : Holds(batch)' = {p}
    BY <1>3 DEF ContractInv, Holds
  <2> QED
    BY <1>1, <1>3, <2>1, <2>2, <2>3, SameFramesContract DEF ContractInv
<1>4. ASSUME NEW c, NEW m, StartBatch(c, m), Idle, CallInContract,
             UNCHANGED <<log, frameCount, session>>,
             IF c = "commit" THEN inTxn' ELSE \E p \in Pages : Holds(m) = {p}
      PROVE  ContractInv'
  <2>1. \A i \in Visible : IsFrame(i) => log[i].session = session
    BY <1>4 DEF CallInContract, StartBatch, IsFrame
  <2>2. SameFrames /\ Visible' = Visible
    BY <1>4, UntouchedFiles DEF Visible
  <2>3. BatchTxn' # 0
    BY <1>4 DEF StartBatch, BatchTxn, TypeOK
  <2>4. IF call' = "commit" THEN inTxn' ELSE \E p \in Pages : Holds(batch)' = {p}
    BY <1>4 DEF StartBatch, Holds
  <2>5. \A i \in Visible' : IsFrame(i)' => log'[i].session = session'
    BY <1>4, <2>1, <2>2 DEF IsFrame
  <2> QED
    BY <1>1, <2>2, <2>3, <2>4, <2>5, SameFramesContract DEF ContractInv
<1>5. CASE CallInContract /\ Commit
  <2>1. StartBatch("commit", dirty) /\ Idle /\ inTxn' /\ UNCHANGED <<log, frameCount, session>>
    BY <1>5 DEF Commit, files
  <2> QED
    BY <1>4, <1>5, <2>1
<1>6. CASE CallInContract /\ AllocAuto
  <2>1. /\ StartBatch("alloc", [NoPages EXCEPT ![pageCount] = Blank]) /\ Idle
        /\ UNCHANGED <<log, frameCount, session>>
    BY <1>6 DEF AllocAuto, files
  <2>2. pageCount \in Pages /\ Blank # None
    BY <1>6, BoundsAssumption, ValueAssumption DEF AllocAuto, TypeOK, Pages, Values
  <2>3. Holds([NoPages EXCEPT ![pageCount] = Blank]) = {pageCount}
    BY <2>2 DEF Holds, NoPages
  <2> QED
    BY <1>4, <1>6, <2>1, <2>2, <2>3
<1>7. ASSUME CallInContract, NEW p \in Pages, NEW v \in Values, WriteAuto(p, v)
      PROVE  ContractInv'
  <2>1. StartBatch("write", [NoPages EXCEPT ![p] = v]) /\ Idle /\ UNCHANGED <<log, frameCount, session>>
    BY <1>7 DEF WriteAuto, files
  <2>2. Holds([NoPages EXCEPT ![p] = v]) = {p}
    BY ValueAssumption DEF Holds, NoPages
  <2> QED
    BY <1>4, <1>7, <2>1, <2>2
<1>8. CASE (\E p \in Pages : DataFrame(p)) \/ CommitFrame
  <2>1. Writing /\ Writing'
    BY <1>8 DEF DataFrame, CommitFrame, Writing
  <2>2. UNCHANGED <<session, nextTxn, call, batch, inTxn>>
    BY <1>8 DEF DataFrame, CommitFrame, memory
  <2> QED
    BY <1>3, <1>8, <2>1, <2>2, FrameStep
<1>9. CASE DataHeader \/ CommitHeader
  <2>1. /\ Visible' = Visible \union {Pending}
        /\ log' = log /\ session' = session /\ nextTxn' = nextTxn
        /\ log[Pending].session = session /\ log[Pending].txn = BatchTxn
    BY <1>9, HeaderStep
  <2>2. Writing /\ log[Pending].kind # "hole"
    BY <1>9 DEF DataHeader, CommitHeader, Writing, BatchInv, IsBatchFrame
  <2>3. BatchTxn' = BatchTxn /\ BatchTxn # 0
    BY <2>1, <2>2 DEF BatchTxn, ContractInv
  <2>4. \A i \in Visible' : /\ IF IsFrame(i)' THEN log'[i].txn # 0 ELSE log'[i] = Hole
                            /\ IsFrame(i)' => log'[i].session = session'
    BY <2>1, <2>2, <2>3 DEF ContractInv, IsFrame
  <2>5. Writing' => IF call' = "commit" THEN inTxn' ELSE \E p \in Pages : Holds(batch)' = {p}
    <3>1. CASE DataHeader
      BY <2>2, <3>1 DEF DataHeader, memory, ContractInv, Holds
    <3>2. CASE CommitHeader
      BY <3>2 DEF CommitHeader, Writing, EndCall
    <3> QED
      BY <1>9, <3>1, <3>2
  <2> QED
    BY <1>1, <2>3, <2>4, <2>5 DEF ContractInv
<1>10. CASE TruncateLog \/ ResetLogHeader
  <2>1. Visible' = {} /\ ~ Writing'
    BY <1>10 DEF TruncateLog, ResetLogHeader, Visible, Writing
  <2> QED
    BY <1>1, <2>1 DEF ContractInv
<1>11. CASE Begin \/ Rollback \/ AllocInTxn \/ AllocBlank \/ Flush \/ WriteDbHeader
            \/ SetCatalogRoot \/ Crash \/ Open
  <2>1. UNCHANGED <<log, frameCount>>
    BY <1>11 DEF Begin, Rollback, AllocInTxn, AllocBlank, Flush, WriteDbHeader,
                 SetCatalogRoot, Crash, Open, files
  <2>2. ~ Writing'
    BY <1>11 DEF Begin, Rollback, AllocInTxn, AllocBlank, Flush, WriteDbHeader,
                 SetCatalogRoot, Crash, Open, NoMemory, EndCall, Idle, Writing
  <2> QED
    BY <1>2, <2>1, <2>2, UntouchedFiles
<1>12. ASSUME NEW p \in Pages, NEW v \in Values, WriteInTxn(p, v) PROVE ContractInv'
  BY <1>2, <1>12, UntouchedFiles DEF WriteInTxn, Idle, Writing, files
<1>13. ASSUME NEW p \in Pages, WriteBack(p) PROVE ContractInv'
  BY <1>2, <1>13, UntouchedFiles DEF WriteBack, Writing
<1>14. CASE UNCHANGED vars
  BY <1>1, <1>14 DEF vars, files, memory, ContractInv, Writing, Visible, IsFrame, BatchTxn, Holds
<1> QED
  BY <1>5, <1>6, <1>7, <1>8, <1>9, <1>10, <1>11, <1>12, <1>13, <1>14 DEF Next

---------------------------------------------------------------------------
(***************************************************************************)
(* The refinement, step by step.                                           *)
(***************************************************************************)
Store == [p \in Pages |-> Recovered(p)]

\* Every step but the one that counts a commit frame leaves the store alone.
LEMMA StoreStays ==
    ASSUME TypeInv, TypeInv', IInv, ContractInv, ContractInv', [Next]_vars, ~ CommitHeader
    PROVE  Store' = Store
<1> SUFFICES ASSUME NEW p \in Pages PROVE Recovered(p)' = Recovered(p)
  BY DEF Store
<1>1. ~ IdClash /\ ~ IdClash' /\ p \notin spoiled /\ p \notin spoiled'
  BY NoClash DEF ContractInv, IdClash, IsFrame, Hole
<1>2. CASE TruncateLog
  <2>1. up /\ p \notin Ahead
    BY <1>2 DEF TruncateLog, Ahead, Writing
  <2>2. LiveView(p) = Recovered(p)
    BY <1>1, <2>1 DEF IInv, ViewInv
  <2> QED
    BY <1>2, <2>2, TruncateShows
<1>3. CASE ~ TruncateLog
  BY <1>1, <1>3, OtherStepsHide
<1> QED
  BY <1>2, <1>3

\* Counting a commit frame is the abstract commit, or the abstract write.
LEMMA CommitHeaderRefines ==
    ASSUME TypeInv, TypeInv', IInv, ContractInv, ContractInv', CommitHeader
    PROVE  Promise!Next
<1> USE DEF TypeInv, IInv
<1>1. ~ IdClash'
  BY DEF ContractInv, IdClash, IsFrame, Hole
<1>2. Store' = [p \in Pages |-> IF batch[p] # None THEN batch[p] ELSE Store[p]]
  BY <1>1, CommitHeaderShows DEF Store
<1>3. Writing
  BY DEF CommitHeader, Writing
<1>4. CASE call = "commit"
  <2>1. inTxn /\ batch = dirty
    BY <1>3, <1>4 DEF ContractInv, CallInv
  <2>2. inTxn' = FALSE /\ dirty' = NoPages
    BY <1>4 DEF CommitHeader
  <2>3. Promise!Commit
    BY <1>2, <2>1, <2>2 DEF Promise!Commit, Promise!Nothing, NoPages, Store
  <2> QED
    BY <2>3 DEF Promise!Next
<1>5. CASE call # "commit"
  <2>1. PICK q \in Pages : Holds(batch) = {q}
    BY <1>3, <1>5 DEF ContractInv
  <2>2. ~ inTxn /\ UNCHANGED <<inTxn, dirty>>
    BY <1>3, <1>5 DEF CallInv, CommitHeader
  <2>3. batch[q] \in Values /\ \A p \in Pages : batch[p] # None <=> p = q
    BY <2>1 DEF Holds, TypeOK, PageMaps
  <2>4. Store' = [Store EXCEPT ![q] = batch[q]]
    <3>1. \A p \in Pages : Store'[p] = IF p = q THEN batch[q] ELSE Store[p]
      BY <1>2, <2>3
    <3> QED
      BY <3>1 DEF Store
  <2>5. Promise!Put(q, batch[q])
    BY <2>2, <2>4 DEF Promise!Put, Store
  <2> QED
    BY <2>3, <2>5 DEF Promise!Next
<1> QED
  BY <1>4, <1>5

LEMMA NextRefines ==
    ASSUME TypeInv, TypeInv', IInv, ContractInv, ContractInv', [Next]_vars
    PROVE  [Promise!Next]_(Promise!vars)
<1> USE DEF TypeInv
<1>1. ASSUME Store' = Store, UNCHANGED <<inTxn, dirty>> PROVE UNCHANGED Promise!vars
  BY <1>1 DEF Promise!vars, Store
<1>2. ASSUME NEW p \in Pages, NEW v \in Values, Store' = Store, inTxn, inTxn' = inTxn,
             dirty' = [dirty EXCEPT ![p] = v]
      PROVE  Promise!Next
  BY <1>2 DEF Promise!Next, Promise!Put, Store
<1>3. CASE CommitHeader
  BY <1>3, CommitHeaderRefines
<1>4. ASSUME ~ CommitHeader PROVE Store' = Store
  BY <1>4, StoreStays
<1>5. ASSUME pc # "commitHeader" PROVE Store' = Store
  BY <1>4, <1>5 DEF CommitHeader
<1>6. CASE Begin
  <2>1. Store' = Store /\ inTxn' = TRUE /\ dirty' = NoPages
    BY <1>5, <1>6 DEF Begin, Idle
  <2> QED
    BY <2>1 DEF Promise!Next, Promise!Begin, Promise!Nothing, NoPages, Store
<1>7. CASE Rollback \/ Crash \/ Open
  <2>1. Store' = Store
    <3>1. CASE CommitHeader
      BY <1>7, <3>1 DEF Rollback, Crash, Open, CommitHeader, Idle
    <3> QED
      BY <1>4, <3>1
  <2>2. inTxn' = FALSE /\ dirty' = NoPages
    BY <1>7 DEF Rollback, Crash, Open, NoMemory
  <2> QED
    BY <2>1, <2>2 DEF Promise!Next, Promise!Abandon, Promise!Nothing, NoPages, Store
<1>8. ASSUME NEW p \in Pages, NEW v \in Values, WriteInTxn(p, v) PROVE Promise!Next
  BY <1>2, <1>5, <1>8 DEF WriteInTxn, Idle
<1>9. CASE AllocInTxn
  <2>1. pageCount \in Pages /\ Blank \in Values
    BY <1>9, BoundsAssumption DEF AllocInTxn, TypeOK, Pages, Values
  <2> QED
    BY <1>2, <1>5, <1>9, <2>1 DEF AllocInTxn, Idle
<1>10. CASE Commit \/ AllocAuto \/ AllocBlank \/ DataHeader \/ CommitFrame \/ Flush \/ TruncateLog
            \/ ResetLogHeader \/ WriteDbHeader \/ SetCatalogRoot
  <2>1. pc # "commitHeader"
    BY <1>10 DEF Commit, AllocAuto, AllocBlank, DataHeader, CommitFrame, Flush, TruncateLog,
                 ResetLogHeader, WriteDbHeader, SetCatalogRoot, Idle
  <2>2. UNCHANGED <<inTxn, dirty>>
    BY <1>10 DEF Commit, AllocAuto, AllocBlank, DataHeader, CommitFrame, Flush, TruncateLog,
                 ResetLogHeader, WriteDbHeader, SetCatalogRoot, memory
  <2> QED
    BY <1>1, <1>5, <2>1, <2>2
<1>11. ASSUME NEW p \in Pages, NEW v \in Values, WriteAuto(p, v) PROVE UNCHANGED Promise!vars
  BY <1>1, <1>5, <1>11 DEF WriteAuto, Idle
<1>12. ASSUME NEW p \in Pages, DataFrame(p) \/ WriteBack(p) PROVE UNCHANGED Promise!vars
  BY <1>1, <1>5, <1>12 DEF DataFrame, WriteBack, memory
<1>13. CASE UNCHANGED vars
  <2>1. ~ CommitHeader \/ Store' = Store
    BY <1>13 DEF vars, files, CommitHeader, TypeOK
  <2> QED
    BY <1>1, <1>4, <1>13, <2>1 DEF vars, memory
<1> QED
  BY <1>3, <1>6, <1>7, <1>8, <1>9, <1>10, <1>11, <1>12, <1>13 DEF Next

\* The store implements its promise: under the contract, and whatever file
\* writes a crash cuts off, it behaves as pages that a commit changes all at
\* once and nothing else changes.
THEOREM Refinement == ContractSpec => ImplementsAtomicStore
<1>1. Init => TypeInv /\ IInv /\ ContractInv
  BY InitTypeInv, InitIInv, InitContractInv
<1>2. TypeInv /\ IInv /\ ContractInv /\ [Next /\ CallInContract]_vars
        => (TypeInv /\ IInv /\ ContractInv)'
  BY NextTypeInv, NextIInv, NextContractInv
<1>3. Init => Promise!Init
  <2> SUFFICES ASSUME Init PROVE Promise!Init
    OBVIOUS
  <2>1. \A p \in Pages : Recovered(p) \in Values
    BY InitTypeInv, ReplayType DEF TypeInv, TypeOK
  <2> QED
    BY <2>1 DEF Init, Promise!Init, Promise!Nothing, NoPages
<1>4. TypeInv /\ IInv /\ ContractInv /\ (TypeInv /\ IInv /\ ContractInv)'
        /\ [Next /\ CallInContract]_vars => [Promise!Next]_(Promise!vars)
  BY NextRefines
<1> QED
  BY <1>1, <1>2, <1>3, <1>4, PTL DEF ContractSpec, ImplementsAtomicStore, Promise!Spec

=============================================================================
