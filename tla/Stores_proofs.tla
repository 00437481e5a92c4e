---------------------------- MODULE Stores_proofs ----------------------------
(***************************************************************************)
(* A node that LruCacheStorage gives from its cache is the node the store  *)
(* below would have given, for any pages, values and capacity: a write     *)
(* changes store and cache alike, an eviction only takes nodes away, and a *)
(* commit makes of what the transaction sees what everyone sees.  Its      *)
(* order is a queue of the cached pages without duplicates, so its length  *)
(* is their number, and eviction makes room.                               *)
(*                                                                         *)
(* The files of LsmStorage keep what the last flush left of every page,    *)
(* for any pages, contents, thresholds and number of files, and what the   *)
(* levels show is the newest file.                                         *)
(***************************************************************************)
EXTENDS LruCache, LsmStore, Queues_proofs


\* The parts of the types the argument needs.
LruTyped ==
    /\ store \in [NodePages -> NodeValues] /\ pending \in [NodePages -> NodeValues \union {NoNode}]
    /\ active \in BOOLEAN
    /\ cache \in [NodePages -> NodeValues \union {NoNode}]

\* The order is a queue of the cached pages, and has room for them.
Queue ==
    /\ order \in Seq(NodePages) /\ IsInjective(order)
    /\ ToSet(order) = HeldNodes(cache) /\ Len(order) <= Capacity

LruInv == LruTyped /\ CacheCurrent /\ Queue

\* What the store below returns after one of its writes.
LEMMA StoredAfterPut ==
    ASSUME LruTyped, NEW p \in NodePages, NEW v \in NodeValues, Inner!Put(p, v),
           NEW q \in NodePages
    PROVE  Stored(q)' = IF q = p THEN v ELSE Stored(q)
BY NodesAssumption DEF LruTyped, Inner!Put, Stored

\* Eviction keeps the other nodes as they are.
LEMMA RoomKeeps ==
    ASSUME LruTyped
    PROVE  /\ RoomCache \in [NodePages -> NodeValues \union {NoNode}]
           /\ \A q \in NodePages : RoomCache[q] # NoNode => RoomCache[q] = cache[q]
<1>1. CASE Full
  BY <1>1 DEF LruTyped, RoomCache
<1>2. CASE ~Full
  BY <1>2 DEF LruTyped, RoomCache
<1> QED
  BY <1>1, <1>2

LEMMA InitLruInv == LruInit => LruInv
<1> SUFFICES ASSUME LruInit PROVE LruInv
  OBVIOUS
<1>1. LruTyped /\ CacheCurrent /\ HeldNodes(cache) = {}
  BY DEF LruInit, Inner!Init, Inner!Nothing, LruTyped, CacheCurrent, NoNodes, HeldNodes
<1>2. << >> \in Seq(NodePages) /\ IsInjective(<< >>) /\ ToSet(<< >>) = {} /\ Len(<< >>) = 0
  BY DEF IsInjective, ToSet
<1>3. Queue
  BY <1>1, <1>2, CapacityAssumption DEF LruInit, Queue
<1> QED
  BY <1>1, <1>3 DEF LruInv

LEMMA LruTypedStep ==
    ASSUME LruTyped, [LruNext]_lruVars
    PROVE  LruTyped'
<1>1. ASSUME NEW p \in NodePages, NEW v \in NodeValues, Inner!Put(p, v)
      PROVE  /\ store' \in [NodePages -> NodeValues] /\ active' \in BOOLEAN
             /\ pending' \in [NodePages -> NodeValues \union {NoNode}]
  BY <1>1 DEF LruTyped, Inner!Put
<1>2. ASSUME NEW p \in NodePages, Read(p) PROVE LruTyped'
  <2>1. Stored(p) \in NodeValues
    BY DEF LruTyped, Stored
  <2>2. CASE ReadHit(p)
    BY <2>2 DEF ReadHit, LruTyped
  <2>3. CASE ReadMiss(p)
    BY <2>1, <2>3, RoomKeeps, NodesAssumption DEF ReadMiss, LruTyped
  <2> QED
    BY <1>2, <2>2, <2>3 DEF Read
<1>3. ASSUME NEW p \in NodePages, LruAlloc(p) PROVE LruTyped'
  BY <1>1, <1>3, NodesAssumption DEF LruAlloc, LruTyped
<1>4. ASSUME NEW p \in NodePages, NEW v \in NodeValues, Write(p, v) PROVE LruTyped'
  BY <1>1, <1>4, RoomKeeps, NodesAssumption DEF Write, LruTyped
<1>5. CASE LruBegin
  BY <1>5 DEF LruBegin, Forget, Inner!Begin, Inner!Nothing, LruTyped
<1>6. CASE LruCommit
  BY <1>6 DEF LruCommit, Inner!Commit, Inner!Nothing, nodeVars, LruTyped
<1>7. CASE LruRollback
  BY <1>7 DEF LruRollback, Forget, Inner!Abandon, Inner!Nothing, LruTyped
<1>8. CASE LruFlush
  BY <1>8 DEF LruFlush, Empty, NoNodes, LruTyped
<1>9. CASE LruCrash
  BY <1>9 DEF LruCrash, Empty, NoNodes, Inner!Abandon, Inner!Nothing, LruTyped
<1>10. CASE UNCHANGED lruVars
  BY <1>10 DEF lruVars, nodeVars, LruTyped
<1> QED
  BY <1>2, <1>3, <1>4, <1>5, <1>6, <1>7, <1>8, <1>9, <1>10 DEF LruNext

LEMMA LruCurrentStep ==
    ASSUME LruInv, [LruNext]_lruVars
    PROVE  CacheCurrent'
<1> USE DEF LruInv
<1> SUFFICES ASSUME NEW q \in NodePages, cache'[q] # NoNode, q \notin outdated'
             PROVE  cache'[q] = Stored(q)'
  BY DEF CacheCurrent, HeldNodes
<1>1. cache[q] # NoNode /\ q \notin outdated => cache[q] = Stored(q)
  BY DEF CacheCurrent, HeldNodes
<1>2. ASSUME NEW p \in NodePages, Read(p) PROVE cache'[q] = Stored(q)'
  <2>1. Stored(q)' = Stored(q)
    BY <1>2 DEF Read, ReadHit, ReadMiss, Stored
  <2>2. CASE ReadHit(p)
    BY <1>1, <2>1, <2>2 DEF ReadHit
  <2>3. CASE ReadMiss(p)
    BY <1>1, <2>1, <2>3, RoomKeeps, NodesAssumption DEF ReadMiss, HeldNodes
  <2> QED
    BY <1>2, <2>2, <2>3 DEF Read
<1>3. ASSUME NEW p \in NodePages, LruAlloc(p) PROVE cache'[q] = Stored(q)'
  <2>1. q # p
    BY <1>3 DEF LruAlloc, HeldNodes
  <2>2. Stored(q)' = Stored(q)
    BY <1>3, <2>1, StoredAfterPut, NodesAssumption DEF LruAlloc
  <2> QED
    BY <1>1, <1>3, <2>2 DEF LruAlloc
<1>4. ASSUME NEW p \in NodePages, NEW v \in NodeValues, Write(p, v) PROVE cache'[q] = Stored(q)'
  <2>1. Stored(q)' = IF q = p THEN v ELSE Stored(q)
    BY <1>4, StoredAfterPut DEF Write
  <2>2. CASE q = p
    BY <1>4, <2>1, <2>2, RoomKeeps, NodesAssumption DEF Write
  <2>3. CASE q # p
    <3>1. cache'[q] = RoomCache[q] /\ q \notin outdated
      BY <1>4, <2>3, RoomKeeps, NodesAssumption DEF Write, HeldNodes
    <3> QED
      BY <1>1, <2>1, <2>3, <3>1, RoomKeeps
  <2> QED
    BY <2>2, <2>3
<1>5. CASE LruBegin \/ LruRollback
  <2>1. /\ cache' = cache /\ store' = store
        /\ outdated' = outdated \union (HeldNodes(cache) \intersect HeldNodes(pending))
        /\ pending' = Inner!Nothing
    BY <1>5 DEF LruBegin, LruRollback, Forget, Inner!Begin, Inner!Abandon
  <2>2. pending[q] = NoNode
    BY <2>1 DEF HeldNodes
  <2>3. Stored(q) = store[q] /\ Stored(q)' = store[q]
    BY <2>1, <2>2 DEF Stored, Inner!Nothing
  <2> QED
    BY <1>1, <2>1, <2>3
<1>6. CASE LruCommit
  <2>1. Stored(q)' = Stored(q)
    BY <1>6 DEF LruCommit, Inner!Commit, Inner!Nothing, Stored
  <2> QED
    BY <1>1, <1>6, <2>1 DEF LruCommit, nodeVars
<1>7. CASE LruFlush \/ LruCrash
  BY <1>7 DEF LruFlush, LruCrash, Empty, NoNodes
<1>8. CASE UNCHANGED lruVars
  BY <1>1, <1>8 DEF lruVars, nodeVars, Stored
<1> QED
  BY <1>2, <1>3, <1>4, <1>5, <1>6, <1>7, <1>8 DEF LruNext


\* The queue after touch.
LEMMA TouchedFacts ==
    ASSUME NEW s \in Seq(NodePages), IsInjective(s), NEW p \in NodePages
    PROVE  /\ Touched(s, p) \in Seq(NodePages) /\ IsInjective(Touched(s, p))
           /\ ToSet(Touched(s, p)) = ToSet(s) \union {p}
           /\ Len(Touched(s, p)) = IF p \in ToSet(s) THEN Len(s) ELSE Len(s) + 1
<1> DEFINE rest == WithoutFirst(s, p)
<1>1. /\ rest \in Seq(NodePages) /\ IsInjective(rest)
      /\ ToSet(rest) = ToSet(s) \ {p}
      /\ Len(rest) = IF p \in ToSet(s) THEN Len(s) - 1 ELSE Len(s)
  BY WithoutFirstFacts
<1>2. Len(s) \in Nat
  OBVIOUS
<1> HIDE DEF rest
<1>3. /\ Append(rest, p) \in Seq(NodePages) /\ IsInjective(Append(rest, p))
      /\ ToSet(Append(rest, p)) = ToSet(rest) \union {p}
      /\ Len(Append(rest, p)) = Len(rest) + 1
  BY <1>1, AppendFacts
<1>4. Touched(s, p) = Append(rest, p)
  BY DEF Touched, rest
<1>5. Len(Append(rest, p)) = IF p \in ToSet(s) THEN Len(s) ELSE Len(s) + 1
  BY <1>1, <1>2, <1>3
<1> QED
  BY <1>1, <1>3, <1>4, <1>5

\* Eviction leaves a place, in the order as in the cache.
LEMMA RoomQueue ==
    ASSUME LruTyped, Queue
    PROVE  /\ RoomOrder \in Seq(NodePages) /\ IsInjective(RoomOrder)
           /\ ToSet(RoomOrder) = HeldNodes(RoomCache)
           /\ Len(RoomOrder) + 1 <= Capacity
<1>1. order \in Seq(NodePages) /\ IsInjective(order) /\ ToSet(order) = HeldNodes(cache) /\ Len(order) <= Capacity
  BY DEF Queue
<1>2. Len(order) \in Nat /\ Capacity \in Nat /\ Capacity # 0
  BY <1>1, CapacityAssumption
<1>3. Cardinality(HeldNodes(cache)) = Len(order)
  BY <1>1, QueueCardinality
<1>4. CASE Full
  <2>1. order # << >>
    BY <1>4 DEF Full
  <2>2. /\ Tail(order) \in Seq(NodePages) /\ Len(Tail(order)) = Len(order) - 1
        /\ IsInjective(Tail(order)) /\ ToSet(Tail(order)) = ToSet(order) \ {Head(order)}
        /\ Head(order) \in NodePages
    BY <1>1, <2>1, TailFacts
  <2>3. RoomOrder = Tail(order) /\ RoomCache = [cache EXCEPT ![Head(order)] = NoNode]
    BY <1>4 DEF RoomOrder, RoomCache
  <2>4. HeldNodes(RoomCache) = HeldNodes(cache) \ {Head(order)}
    BY <2>2, <2>3 DEF HeldNodes, LruTyped
  <2>5. Len(RoomOrder) + 1 <= Capacity
    BY <1>1, <1>2, <2>2, <2>3
  <2> QED
    BY <1>1, <2>2, <2>3, <2>4, <2>5
<1>5. CASE ~Full
  <2>1. RoomOrder = order /\ RoomCache = cache
    BY <1>5 DEF RoomOrder, RoomCache
  <2>2. CASE order = << >>
    BY <1>1, <1>2, <2>1, <2>2
  <2>3. CASE order # << >>
    <3>1. ~(Len(order) >= Capacity)
      BY <1>3, <1>5, <2>3 DEF Full
    <3> QED
      BY <1>1, <1>2, <2>1, <3>1
  <2> QED
    BY <2>2, <2>3
<1> QED
  BY <1>4, <1>5

LEMMA LruQueueStep ==
    ASSUME LruTyped, Queue, [LruNext]_lruVars
    PROVE  Queue'
<1>1. order \in Seq(NodePages) /\ IsInjective(order) /\ ToSet(order) = HeldNodes(cache) /\ Len(order) <= Capacity
  BY DEF Queue
<1>2. /\ RoomOrder \in Seq(NodePages) /\ IsInjective(RoomOrder)
      /\ ToSet(RoomOrder) = HeldNodes(RoomCache) /\ Len(RoomOrder) + 1 <= Capacity
      /\ RoomCache \in [NodePages -> NodeValues \union {NoNode}]
  BY RoomQueue, RoomKeeps
<1>3. Len(RoomOrder) \in Nat /\ Len(order) \in Nat /\ Capacity \in Nat
  BY <1>1, <1>2, CapacityAssumption
<1>4. ASSUME NEW p \in NodePages, ReadHit(p) PROVE Queue'
  <2>1. p \in ToSet(order) /\ cache' = cache /\ order' = Touched(order, p)
    BY <1>1, <1>4 DEF ReadHit, HeldNodes
  <2>2. /\ order' \in Seq(NodePages) /\ IsInjective(order')
        /\ ToSet(order') = ToSet(order) \union {p}
        /\ Len(order') = IF p \in ToSet(order) THEN Len(order) ELSE Len(order) + 1
    <3>1. order \in Seq(NodePages) /\ IsInjective(order)
      BY <1>1
    <3> QED
      BY <2>1, <3>1, TouchedFacts
  <2>3. ToSet(order') = ToSet(order) /\ Len(order') = Len(order)
    BY <2>1, <2>2
  <2> QED
    BY <1>1, <2>1, <2>2, <2>3 DEF Queue
<1>5. ASSUME NEW p \in NodePages, ReadMiss(p) PROVE Queue'
  <2>1. cache' = [RoomCache EXCEPT ![p] = Stored(p)] /\ order' = Append(RoomOrder, p)
    BY <1>5 DEF ReadMiss
  <2>2. Stored(p) # NoNode
    BY NodesAssumption DEF LruTyped, Stored
  <2>3. p \notin ToSet(RoomOrder)
    BY <1>2, <1>5, RoomKeeps DEF ReadMiss, HeldNodes
  <2>4. HeldNodes(cache') = HeldNodes(RoomCache) \union {p}
    <3>1. \A q \in NodePages : cache'[q] = IF q = p THEN Stored(p) ELSE RoomCache[q]
      BY <1>2, <2>1
    <3> QED
      BY <2>2, <3>1 DEF HeldNodes
  <2>5. /\ order' \in Seq(NodePages) /\ IsInjective(order')
        /\ ToSet(order') = ToSet(RoomOrder) \union {p} /\ Len(order') = Len(RoomOrder) + 1
    BY <1>2, <2>1, <2>3, AppendFacts
  <2> QED
    BY <1>2, <2>4, <2>5 DEF Queue
<1>6. ASSUME NEW p \in NodePages, NEW v \in NodeValues, Write(p, v) PROVE Queue'
  <2>1. cache' = [RoomCache EXCEPT ![p] = v] /\ order' = Touched(RoomOrder, p)
    BY <1>6 DEF Write
  <2>2. HeldNodes(cache') = HeldNodes(RoomCache) \union {p}
    BY <1>2, <2>1, NodesAssumption DEF HeldNodes
  <2>3. /\ order' \in Seq(NodePages) /\ IsInjective(order')
        /\ ToSet(order') = ToSet(RoomOrder) \union {p}
        /\ Len(order') \in {Len(RoomOrder), Len(RoomOrder) + 1}
    BY <1>2, <2>1, TouchedFacts
  <2>4. Len(order') <= Capacity
    BY <1>2, <1>3, <2>3
  <2> QED
    BY <1>2, <2>2, <2>3, <2>4 DEF Queue
<1>7. CASE LruFlush \/ LruCrash
  <2>1. order' = << >> /\ HeldNodes(cache') = {}
    BY <1>7 DEF LruFlush, LruCrash, Empty, NoNodes, HeldNodes
  <2>2. << >> \in Seq(NodePages) /\ IsInjective(<< >>) /\ ToSet(<< >>) = {} /\ Len(<< >>) = 0
    BY DEF IsInjective, ToSet
  <2> QED
    BY <1>3, <2>1, <2>2 DEF Queue
<1>8. CASE \/ \E p \in NodePages : LruAlloc(p)
           \/ LruBegin \/ LruCommit \/ LruRollback \/ UNCHANGED lruVars
  <2>1. cache' = cache /\ order' = order
    BY <1>8 DEF LruAlloc, LruBegin, LruCommit, LruRollback, Forget, lruVars, nodeVars
  <2> QED
    BY <1>1, <2>1 DEF Queue
<1> QED
  BY <1>4, <1>5, <1>6, <1>7, <1>8 DEF LruNext, Read

LEMMA LruInvHolds == LruSpec => []LruInv
<1>1. LruInv /\ [LruNext]_lruVars => LruInv'
  BY LruTypedStep, LruCurrentStep, LruQueueStep DEF LruInv
<1> QED
  BY InitLruInv, <1>1, PTL DEF LruSpec

\* What a read returns from the cache is what the store has (storage.rs:145),
\* but for pages a rollback, a second begin or alloc_page changed below.
THEOREM CacheFollowsStore == LruSpec => []CacheCurrent
<1>1. LruInv => CacheCurrent
  BY DEF LruInv
<1> QED
  BY LruInvHolds, <1>1, PTL

\* The order queues exactly the cached pages, each once, and no more than fit
\* (storage.rs:128): eviction always has a page to take and makes room by it.
THEOREM OrderFollowsCache == LruSpec => []OrderMatches
<1>1. LruInv => OrderMatches
  BY DEF LruInv, Queue, OrderMatches, ToSet, IsInjective
<1> QED
  BY LruInvHolds, <1>1, PTL

---------------------------------------------------------------------------
\* The files whose flush is over.
Done == IF flushing THEN Files \ {nextId} ELSE Files

\* The newest of some files that has the page has it as v; Absent, if none has.
IsNewest(files, p, v) ==
    \/ v = Absent /\ \A id \in files : tables[id][p] = Absent
    \/ v # Absent /\ \E id \in files : /\ tables[id][p] = v
                                       /\ \A i \in files : tables[i][p] # Absent => i <= id

LsmTyped ==
    /\ tables \in [Ids -> PageMap \union {Absent}]
    /\ mem \in PageMap /\ written \in PageMap /\ flushed \in PageMap
    /\ l0 \in Seq(Ids) /\ l1 \in Seq(Ids) /\ nextId \in Nat \ {0}
    /\ opened \in BOOLEAN /\ flushing \in BOOLEAN /\ unindexed \subseteq Holds(mem)
    /\ ~flushing => unindexed = {}

\* A file gets a number above all others, and what its flush has come to.
Numbered ==
    /\ opened => \A id \in Done : id < nextId
    /\ flushing => /\ opened /\ nextId \in Files
                   /\ tables[nextId] = [p \in PageIds |-> IF p \in unindexed THEN Absent ELSE mem[p]]

\* The files keep what the last flush left, and memory what was written since.
Kept ==
    /\ \A p \in PageIds : IsNewest(Done, p, flushed[p])
    /\ written = [p \in PageIds |-> IF mem[p] # Absent THEN mem[p] ELSE flushed[p]]

\* The levels are the files, the newer ones in level 0.
Levelled ==
    /\ opened => /\ ToSet(l0) \union ToSet(l1) = Done
                 /\ \A i \in ToSet(l0), j \in ToSet(l1) : j < i
    /\ ~opened => l1 = << >>

LsmInv == LsmTyped /\ Numbered /\ Kept /\ Levelled

LEMMA Maps ==
    /\ NoData \in PageMap /\ Holds(NoData) = {} /\ Absent \notin PageMap
    /\ Absent \notin Contents /\ Absent # Zeroes
BY AbsentAssumption DEF NoData, PageMap, Holds

\* Some numbers with a bound have a greatest.
LEMMA GreatestElement ==
    ASSUME NEW S, S \subseteq Nat, S # {}, NEW n \in Nat, \A i \in S : i <= n
    PROVE  \E m \in S : \A i \in S : i <= m
<1> DEFINE bounds == {k \in Nat : \A i \in S : i <= k}
<1>1. n \in bounds /\ bounds \subseteq Nat
  OBVIOUS
<1>2. PICK k \in bounds : \A j \in bounds : k <= j
  BY <1>1, LeastElement
<1>3. k \in S
  <2> SUFFICES ASSUME k \notin S PROVE FALSE
    OBVIOUS
  <2>1. \A i \in S : i \in Nat /\ i <= k /\ i # k /\ k \in Nat
    OBVIOUS
  <2>2. \A i \in S : i <= k - 1 /\ k - 1 \in Nat /\ ~(k <= k - 1)
    BY <2>1
  <2>3. k - 1 \in bounds
    BY <2>2
  <2> QED
    BY <1>2, <2>2, <2>3
<1> QED
  BY <1>3

\* The newest of some files is one value, and does not depend on other files.
LEMMA NewestUnique ==
    ASSUME NEW files, files \subseteq Ids, NEW p, NEW v, NEW w, IsNewest(files, p, v), IsNewest(files, p, w)
    PROVE  v = w
<1>1. \A i, j \in files : i <= j /\ j <= i => i = j
  BY MaxTablesAssumption DEF Ids
<1>2. CASE v = Absent \/ w = Absent
  BY <1>2 DEF IsNewest
<1>3. CASE v # Absent /\ w # Absent
  <2>1. PICK i \in files : tables[i][p] = v /\ \A h \in files : tables[h][p] # Absent => h <= i
    BY <1>3 DEF IsNewest
  <2>2. PICK j \in files : tables[j][p] = w /\ \A h \in files : tables[h][p] # Absent => h <= j
    BY <1>3 DEF IsNewest
  <2>3. i = j
    BY <1>1, <1>3, <2>1, <2>2
  <2> QED
    BY <2>1, <2>2, <2>3
<1> QED
  BY <1>2, <1>3

LEMMA NewestSame ==
    ASSUME NEW files, NEW p, NEW v, IsNewest(files, p, v), \A id \in files : tables'[id] = tables[id]
    PROVE  IsNewest(files, p, v)'
BY DEF IsNewest

\* Newest gives the newest of all files.
LEMMA NewestIs ==
    ASSUME LsmTyped, NEW p \in PageIds
    PROVE  IsNewest(Files, p, Newest(p)) /\ Newest(p) \in Contents \union {Zeroes, Absent}
<1> DEFINE ids == {id \in Files : tables[id][p] # Absent}
           top == CHOOSE id \in ids : \A i \in ids : i <= id
<1>1. Files \subseteq Ids /\ ids \subseteq Nat /\ \A i \in ids : i <= MaxTables
  BY MaxTablesAssumption DEF Files, Ids
<1>2. \A id \in Files : tables[id] \in PageMap
  BY DEF LsmTyped, Files
<1>3. CASE ids = {}
  BY <1>3 DEF IsNewest, Newest
<1>4. CASE ids # {}
  <2>1. top \in ids /\ \A i \in ids : i <= top
    BY <1>1, <1>4, GreatestElement, MaxTablesAssumption
  <2>2. Newest(p) = tables[top][p]
    BY <1>4 DEF Newest
  <2> HIDE DEF top
  <2>3. tables[top][p] \in Contents \union {Zeroes, Absent}
    BY <1>2, <2>1 DEF PageMap
  <2> QED
    BY <2>1, <2>2, <2>3 DEF IsNewest
<1> QED
  BY <1>3, <1>4

LEMMA InitLsmInv == LsmInit => LsmInv
<1> SUFFICES ASSUME LsmInit PROVE LsmInv
  OBVIOUS
<1> USE DEF LsmInit
<1>1. << >> \in Seq(Ids) /\ ToSet(<< >>) = {}
  BY DEF ToSet
<1>2. Files = {} /\ Done = {}
  BY DEF Files, Done
<1>3. LsmTyped
  <2>1. tables \in [Ids -> PageMap \union {Absent}] /\ nextId \in Nat \ {0}
    OBVIOUS
  <2>2. l0 \in Seq(Ids) /\ l1 \in Seq(Ids)
    BY <1>1
  <2>3. mem \in PageMap /\ written \in PageMap /\ flushed \in PageMap
    BY Maps
  <2>4. opened \in BOOLEAN /\ flushing \in BOOLEAN /\ unindexed = {}
    OBVIOUS
  <2> QED
    BY <2>1, <2>2, <2>3, <2>4 DEF LsmTyped
<1>4. Numbered
  BY <1>2 DEF Numbered
<1>5. Kept
  <2>1. \A p \in PageIds : mem[p] = Absent /\ flushed[p] = Absent
    BY DEF NoData
  <2>2. \A p \in PageIds : IsNewest(Done, p, flushed[p])
    BY <1>2, <2>1 DEF IsNewest
  <2>3. written = [p \in PageIds |-> IF mem[p] # Absent THEN mem[p] ELSE flushed[p]]
    BY <2>1 DEF NoData
  <2> QED
    BY <2>2, <2>3 DEF Kept
<1>6. Levelled
  BY <1>1, <1>2 DEF Levelled
<1> QED
  BY <1>3, <1>4, <1>5, <1>6 DEF LsmInv

\* The files that are done, before and after the start of a flush.
LEMMA FlushStarts ==
    ASSUME LsmInv, Calm, Room, NEW m \in PageMap, StartFlush(m), unindexed \subseteq Holds(m),
           UNCHANGED <<opened, nextId>>, mem' = m
    PROVE  /\ tables' \in [Ids -> PageMap \union {Absent}]
           /\ flushing' \in BOOLEAN /\ unindexed' \subseteq Holds(m)
           /\ ~flushing' => unindexed' = {}
           /\ Done' = Done /\ \A id \in Done : tables'[id] = tables[id]
           /\ Numbered'
<1> USE DEF LsmInv
<1>1. nextId \in Ids /\ Done = Files /\ nextId \notin Files /\ ~flushing /\ opened
  BY MaxTablesAssumption DEF Calm, Room, Done, Numbered, Ids
<1>2. tables \in [Ids -> PageMap \union {Absent}]
  BY DEF LsmTyped
<1>3. CASE Holds(m) = {}
  <2>1. UNCHANGED <<tables, flushing, unindexed>>
    BY <1>3 DEF StartFlush, lsmFlush
  <2>2. Done' = Done
    BY <2>1 DEF Done, Files
  <2>3. Numbered'
    BY <1>1, <2>1, <2>2 DEF Numbered
  <2> QED
    BY <1>1, <1>2, <2>1, <2>2, <2>3 DEF LsmTyped
<1>4. CASE Holds(m) # {}
  <2>1. tables' = [tables EXCEPT ![nextId] = NoData] /\ flushing' = TRUE /\ unindexed' = Holds(m)
    BY <1>4 DEF StartFlush
  <2>2. tables' \in [Ids -> PageMap \union {Absent}]
    BY <1>2, <2>1, Maps
  <2>3. Files' = Files \union {nextId}
    BY <1>1, <1>2, <2>1, Maps DEF Files
  <2>4. Done' = Done
    BY <1>1, <2>1, <2>3 DEF Done
  <2>5. \A id \in Done : tables'[id] = tables[id]
    BY <1>1, <1>2, <2>1
  <2>6. tables'[nextId] = NoData /\ \A p \in PageIds : p \notin Holds(m) => m[p] = Absent
    BY <1>1, <1>2, <2>1 DEF Holds
  <2>7. tables'[nextId] = [p \in PageIds |-> IF p \in unindexed' THEN Absent ELSE mem'[p]]
    BY <2>1, <2>6 DEF NoData
  <2>8. Numbered'
    BY <1>1, <2>1, <2>3, <2>4, <2>7 DEF Numbered
  <2> QED
    BY <2>1, <2>2, <2>4, <2>5, <2>8
<1> QED
  BY <1>3, <1>4

\* What follows once a step leaves the finished files and what they keep.
LEMMA DoneStays ==
    ASSUME LsmInv, Done' = Done, \A id \in Done : tables'[id] = tables[id], flushed' = flushed
    PROVE  \A p \in PageIds : IsNewest(Done, p, flushed[p])'
<1> TAKE p \in PageIds
<1>1. IsNewest(Done, p, flushed[p])
  BY DEF LsmInv, Kept
<1> QED
  BY <1>1 DEF IsNewest

LEMMA WriteKeepsLsm ==
    ASSUME LsmInv, NEW p \in PageIds, NEW b \in Contents, LsmWrite(p, b)
    PROVE  LsmInv'
<1> USE DEF LsmInv
<1>1. mem \in PageMap /\ written \in PageMap /\ unindexed \subseteq Holds(mem) /\ b # Absent
  BY Maps DEF LsmTyped
<1>2. mem' = [mem EXCEPT ![p] = b] /\ mem' \in PageMap /\ unindexed \subseteq Holds(mem')
  BY <1>1 DEF LsmWrite, PageMap, Holds
<1>3. written' = [written EXCEPT ![p] = b] /\ written' \in PageMap
  BY <1>1 DEF LsmWrite, PageMap
<1>4. UNCHANGED <<opened, l0, l1, nextId, flushed>>
  BY DEF LsmWrite
<1>5. /\ tables' \in [Ids -> PageMap \union {Absent}]
      /\ flushing' \in BOOLEAN /\ unindexed' \subseteq Holds(mem')
      /\ ~flushing' => unindexed' = {}
      /\ Done' = Done /\ \A id \in Done : tables'[id] = tables[id]
      /\ Numbered'
  <2>1. CASE StartFlush(mem')
    BY <1>2, <1>4, <2>1, FlushStarts DEF LsmWrite
  <2>2. CASE UNCHANGED <<tables, lsmFlush>>
    <3>1. UNCHANGED <<tables, flushing, unindexed>> /\ ~flushing
      BY <2>2 DEF lsmFlush, LsmWrite, Calm
    <3>2. Done' = Done
      BY <1>4, <3>1 DEF Done, Files
    <3>3. Numbered'
      BY <1>4, <3>1, <3>2 DEF Numbered
    <3> QED
      BY <1>2, <3>1, <3>2, <3>3 DEF LsmTyped
  <2> QED
    BY <2>1, <2>2 DEF LsmWrite
<1>6. LsmTyped'
  BY <1>2, <1>3, <1>4, <1>5 DEF LsmTyped
<1>7. Kept'
  <2>1. \A q \in PageIds : IsNewest(Done, q, flushed[q])'
    BY <1>4, <1>5, DoneStays
  <2>2. written' = [q \in PageIds |-> IF mem'[q] # Absent THEN mem'[q] ELSE flushed'[q]]
    <3>1. \A q \in PageIds : written[q] = IF mem[q] # Absent THEN mem[q] ELSE flushed[q]
      BY DEF Kept
    <3>2. \A q \in PageIds : written'[q] = IF mem'[q] # Absent THEN mem'[q] ELSE flushed'[q]
      BY <1>1, <1>2, <1>3, <1>4, <3>1 DEF PageMap
    <3> QED
      BY <1>3, <3>2 DEF PageMap
  <2> QED
    BY <2>1, <2>2 DEF Kept
<1>8. Levelled'
  BY <1>4, <1>5 DEF Levelled
<1> QED
  BY <1>5, <1>6, <1>7, <1>8

\* alloc_page, commit_txn, rollback_txn and compact make no file ready and
\* take none away; the first three keep the levels.
LEMMA MemoryKeepsLsm ==
    ASSUME LsmInv, LsmAlloc \/ LsmCommit \/ LsmRollback
    PROVE  LsmInv'
<1> USE DEF LsmInv
<1>1. /\ mem \in PageMap /\ written \in PageMap /\ flushed \in PageMap /\ unindexed \subseteq Holds(mem)
      /\ \A p \in PageIds : written[p] = IF mem[p] # Absent THEN mem[p] ELSE flushed[p]
  BY DEF LsmTyped, Kept
<1>2. UNCHANGED <<opened, l0, l1, nextId, flushed>> /\ ~flushing /\ unindexed = {}
  BY DEF LsmAlloc, LsmCommit, LsmRollback, lsmMemory, lsmHistory, Calm, LsmTyped
<1>3. /\ mem' \in PageMap /\ written' \in PageMap
      /\ \A p \in PageIds : written'[p] = IF mem'[p] # Absent THEN mem'[p] ELSE flushed'[p]
  <2>1. CASE LsmAlloc
    <3>1. mem' = [mem EXCEPT ![pageCount] = Zeroes] /\ written' = [written EXCEPT ![pageCount] = Zeroes]
      BY <2>1 DEF LsmAlloc
    <3> QED
      BY <1>1, <1>2, <3>1, Maps DEF PageMap
  <2>2. CASE LsmCommit
    BY <1>1, <1>2, <2>2 DEF LsmCommit, lsmMemory, lsmHistory
  <2>3. CASE LsmRollback
    <3>1. mem' = NoData /\ written' = flushed
      BY <2>3 DEF LsmRollback
    <3>2. \A p \in PageIds : mem'[p] = Absent
      BY <3>1 DEF NoData
    <3> QED
      BY <1>1, <1>2, <3>1, <3>2, Maps
  <2> QED
    BY <2>1, <2>2, <2>3
<1>4. /\ tables' \in [Ids -> PageMap \union {Absent}]
      /\ flushing' \in BOOLEAN /\ unindexed' \subseteq Holds(mem')
      /\ ~flushing' => unindexed' = {}
      /\ Done' = Done /\ \A id \in Done : tables'[id] = tables[id]
      /\ Numbered'
  <2>1. CASE LsmCommit
    <3>1. Calm /\ Room /\ StartFlush(mem) /\ mem' = mem
      BY <2>1 DEF LsmCommit, lsmMemory
    <3> QED
      BY <1>1, <1>2, <3>1, FlushStarts
  <2>2. CASE LsmAlloc \/ LsmRollback
    <3>1. UNCHANGED <<tables, flushing, unindexed>>
      BY <2>2 DEF lsmFlush, LsmAlloc, LsmRollback
    <3>2. Done' = Done
      BY <1>2, <3>1 DEF Done, Files
    <3>3. Numbered'
      BY <1>2, <3>1, <3>2 DEF Numbered
    <3> QED
      BY <1>2, <3>1, <3>2, <3>3 DEF LsmTyped
  <2> QED
    BY <2>1, <2>2
<1>5. LsmTyped'
  BY <1>1, <1>2, <1>3, <1>4 DEF LsmTyped
<1>6. Kept'
  <2>1. \A p \in PageIds : IsNewest(Done, p, flushed[p])'
    BY <1>2, <1>4, DoneStays
  <2>2. written' = [p \in PageIds |-> IF mem'[p] # Absent THEN mem'[p] ELSE flushed'[p]]
    BY <1>3 DEF PageMap
  <2> QED
    BY <2>1, <2>2 DEF Kept
<1>7. Levelled'
  BY <1>2, <1>4 DEF Levelled
<1> QED
  BY <1>4, <1>5, <1>6, <1>7

LEMMA IndexKeepsLsm == ASSUME LsmInv, IndexPage PROVE LsmInv'
<1> USE DEF LsmInv
<1> DEFINE p == CHOOSE q \in unindexed : \A r \in unindexed : q <= r
<1>1. /\ flushing /\ opened /\ nextId \in Files /\ Done = Files \ {nextId}
      /\ tables[nextId] = [q \in PageIds |-> IF q \in unindexed THEN Absent ELSE mem[q]]
  BY DEF IndexPage, Numbered, Done
<1>2. tables \in [Ids -> PageMap \union {Absent}] /\ mem \in PageMap
  BY DEF LsmTyped
<1>3. /\ tables' = [tables EXCEPT ![nextId][p] = mem[p]] /\ unindexed' = unindexed \ {p}
      /\ UNCHANGED <<opened, mem, l0, l1, nextId, flushing, written, flushed>>
  BY DEF IndexPage, lsmMemory, lsmHistory
<1> HIDE DEF p
<1>4. /\ nextId \in Ids /\ \A id \in Ids : id # nextId => tables'[id] = tables[id]
      /\ tables'[nextId] = [tables[nextId] EXCEPT ![p] = mem[p]]
  BY <1>1, <1>2, <1>3 DEF Files
<1>5. tables'[nextId] = [q \in PageIds |-> IF q \in unindexed' THEN Absent ELSE mem'[q]]
  <2>1. tables'[nextId] = [q \in PageIds |-> IF q = p THEN mem[p] ELSE tables[nextId][q]]
    BY <1>1, <1>4
  <2>2. \A q \in PageIds : (IF q = p THEN mem[p] ELSE tables[nextId][q])
                              = IF q \in unindexed' THEN Absent ELSE mem'[q]
    BY <1>1, <1>3
  <2> QED
    BY <2>1, <2>2
<1>6. tables'[nextId] \in PageMap
  <2>1. \A q \in PageIds : (IF q \in unindexed' THEN Absent ELSE mem'[q]) \in Contents \union {Zeroes, Absent}
    BY <1>2, <1>3 DEF PageMap
  <2> QED
    BY <1>5, <2>1 DEF PageMap
<1>7. tables' \in [Ids -> PageMap \union {Absent}]
  <2>1. tables' = [id \in Ids |-> tables'[id]]
    BY <1>2, <1>3
  <2>2. \A id \in Ids : tables'[id] \in PageMap \union {Absent}
    BY <1>2, <1>4, <1>6
  <2> QED
    BY <2>1, <2>2
<1>8. Files' = Files
  BY <1>1, <1>4, <1>6, Maps DEF Files
<1>9. Done' = Done /\ \A id \in Done : tables'[id] = tables[id]
  BY <1>1, <1>3, <1>4, <1>8 DEF Done, Files
<1>10. LsmTyped'
  <2>1. unindexed' \subseteq Holds(mem') /\ (~flushing' => unindexed' = {})
    BY <1>1, <1>3 DEF LsmTyped
  <2> QED
    BY <1>3, <1>7, <2>1 DEF LsmTyped
<1>11. Numbered'
  BY <1>1, <1>3, <1>5, <1>8, <1>9 DEF Numbered
<1>12. Kept'
  <2>1. \A q \in PageIds : IsNewest(Done, q, flushed[q])'
    BY <1>3, <1>9, DoneStays
  <2> QED
    BY <1>3, <2>1 DEF Kept
<1>13. Levelled'
  BY <1>3, <1>9 DEF Levelled
<1> QED
  BY <1>10, <1>11, <1>12, <1>13

LEMMA EndFlushKeepsLsm == ASSUME LsmInv, EndFlush PROVE LsmInv'
<1> USE DEF LsmInv
<1>1. /\ flushing /\ opened /\ nextId \in Files /\ Done = Files \ {nextId} /\ unindexed = {}
      /\ tables[nextId] = [q \in PageIds |-> IF q \in unindexed THEN Absent ELSE mem[q]]
  BY DEF EndFlush, Numbered, Done
<1>2. /\ flushing' = FALSE /\ l0' = Append(l0, nextId) /\ nextId' = nextId + 1
      /\ mem' = NoData /\ flushed' = written /\ written' = written
      /\ UNCHANGED <<tables, opened, l1, unindexed>>
  BY DEF EndFlush, NewId
<1>3. /\ Files' = Files /\ Done' = Done \union {nextId} /\ Files \subseteq Ids
  BY <1>1, <1>2 DEF Done, Files
<1>4. /\ l0 \in Seq(Ids) /\ nextId \in Ids /\ nextId \in Nat \ {0}
      /\ mem \in PageMap /\ written \in PageMap /\ flushed \in PageMap
  BY <1>1, <1>3 DEF LsmTyped
<1>5. l0' \in Seq(Ids) /\ ToSet(l0') = ToSet(l0) \union {nextId}
  BY <1>2, <1>4, AppendFacts
<1>6. \A id \in Done : id < nextId /\ id \in Nat
  BY <1>1, <1>3, MaxTablesAssumption DEF Numbered, Ids
<1>7. LsmTyped'
  <2>1. nextId' \in Nat \ {0}
    BY <1>2, <1>4
  <2>2. mem' \in PageMap /\ unindexed' = {}
    BY <1>1, <1>2, Maps
  <2>3. tables' \in [Ids -> PageMap \union {Absent}] /\ l1' \in Seq(Ids) /\ opened' \in BOOLEAN
    BY <1>2 DEF LsmTyped
  <2> QED
    BY <1>2, <1>4, <1>5, <2>1, <2>2, <2>3 DEF LsmTyped
<1>8. Numbered'
  <2>1. \A id \in Done' : id < nextId'
    BY <1>2, <1>3, <1>4, <1>6
  <2> QED
    BY <1>2, <2>1 DEF Numbered
<1>9. Kept'
  <2>1. \A p \in PageIds : IsNewest(Done, p, flushed[p])'
    <3> TAKE p \in PageIds
    <3>1. IsNewest(Done, p, flushed[p]) /\ written[p] = IF mem[p] # Absent THEN mem[p] ELSE flushed[p]
      BY DEF Kept
    <3>2. tables[nextId][p] = mem[p]
      BY <1>1
    <3>3. CASE mem[p] # Absent
      <4>1. \A i \in Done \union {nextId} : i <= nextId
        BY <1>4, <1>6
      <4> QED
        BY <1>2, <1>3, <3>1, <3>2, <3>3, <4>1 DEF IsNewest
    <3>4. CASE mem[p] = Absent
      <4>1. IsNewest(Done \union {nextId}, p, flushed[p])
        BY <3>1, <3>2, <3>4 DEF IsNewest
      <4> QED
        BY <1>2, <1>3, <3>1, <3>4, <4>1 DEF IsNewest
    <3> QED
      BY <3>3, <3>4
  <2>2. written' = [p \in PageIds |-> IF mem'[p] # Absent THEN mem'[p] ELSE flushed'[p]]
    <3>1. \A p \in PageIds : mem'[p] = Absent
      BY <1>2 DEF NoData
    <3> QED
      BY <1>2, <1>4, <3>1 DEF PageMap
  <2> QED
    BY <2>1, <2>2 DEF Kept
<1>10. Levelled'
  <2>1. ToSet(l0) \union ToSet(l1) = Done /\ \A i \in ToSet(l0), j \in ToSet(l1) : j < i
    BY <1>1 DEF Levelled
  <2> QED
    BY <1>2, <1>3, <1>5, <1>6, <2>1 DEF Levelled
<1> QED
  BY <1>7, <1>8, <1>9, <1>10

LEMMA CompactKeepsLsm == ASSUME LsmInv, Compact PROVE LsmInv'
<1> USE DEF LsmInv
<1>1. /\ l1' = l1 \o l0 /\ l0' = << >>
      /\ UNCHANGED <<tables, opened, mem, nextId, flushing, unindexed, written, flushed>>
  BY DEF Compact, lsmFlush, lsmHistory
<1>2. l0 \in Seq(Ids) /\ l1 \in Seq(Ids)
  BY DEF LsmTyped
<1>3. l1' \in Seq(Ids) /\ l0' \in Seq(Ids) /\ ToSet(l0') = {}
  BY <1>1, <1>2 DEF ToSet
<1>4. ToSet(l1') = ToSet(l0) \union ToSet(l1)
  BY <1>1, <1>2, ConcatFacts
<1>5. Done' = Done /\ \A id \in Done : tables'[id] = tables[id]
  BY <1>1 DEF Done, Files
<1>6. LsmTyped'
  BY <1>1, <1>3 DEF LsmTyped
<1>7. Numbered' /\ Kept'
  <2>1. \A q \in PageIds : IsNewest(Done, q, flushed[q])'
    BY <1>1, <1>5, DoneStays
  <2>2. Numbered'
    BY <1>1, <1>5 DEF Numbered, Files
  <2>3. Kept'
    BY <1>1, <2>1 DEF Kept
  <2> QED
    BY <2>2, <2>3
<1>8. Levelled'
  <2>1. opened /\ opened' = opened /\ ToSet(l0) \union ToSet(l1) = Done
    BY <1>1 DEF Levelled, Compact, Calm
  <2>2. ToSet(l0') \union ToSet(l1') = Done'
    BY <1>3, <1>4, <1>5, <2>1
  <2> QED
    BY <1>3, <2>1, <2>2 DEF Levelled
<1> QED
  BY <1>6, <1>7, <1>8

LEMMA CrashKeepsLsm == ASSUME LsmInv, LsmCrash PROVE LsmInv'
<1> USE DEF LsmInv
<1>1. /\ opened' = FALSE /\ mem' = NoData /\ l0' = << >> /\ l1' = << >> /\ nextId' = 1
      /\ flushing' = FALSE /\ unindexed' = {} /\ tables' = tables
      /\ written' = [p \in PageIds |-> Newest(p)] /\ flushed' = written'
  BY DEF LsmCrash
<1>2. \A p \in PageIds : IsNewest(Files, p, Newest(p)) /\ Newest(p) \in Contents \union {Zeroes, Absent}
  BY NewestIs
<1>3. Done' = Files
  BY <1>1 DEF Done, Files
<1>4. LsmTyped'
  <2>1. << >> \in Seq(Ids) /\ 1 \in Nat \ {0} /\ NoData \in PageMap
    BY Maps
  <2>2. written' \in PageMap
    BY <1>1, <1>2 DEF PageMap
  <2>3. tables' \in [Ids -> PageMap \union {Absent}]
    BY <1>1 DEF LsmTyped
  <2>4. nextId' \in Nat \ {0} /\ l0' \in Seq(Ids) /\ l1' \in Seq(Ids)
    BY <1>1, <2>1
  <2>5. mem' \in PageMap /\ flushed' \in PageMap
    BY <1>1, <2>1, <2>2
  <2> QED
    BY <1>1, <2>2, <2>3, <2>4, <2>5 DEF LsmTyped
<1>5. Numbered'
  BY <1>1 DEF Numbered
<1>6. Kept'
  <2>1. \A p \in PageIds : IsNewest(Done, p, flushed[p])'
    <3> TAKE p \in PageIds
    <3>1. flushed'[p] = Newest(p) /\ tables' = tables
      BY <1>1
    <3> QED
      BY <1>2, <1>3, <3>1 DEF IsNewest
  <2>2. written' = [p \in PageIds |-> IF mem'[p] # Absent THEN mem'[p] ELSE flushed'[p]]
    <3>1. \A p \in PageIds : mem'[p] = Absent /\ flushed'[p] = Newest(p)
      BY <1>1 DEF NoData
    <3> QED
      BY <1>1, <3>1
  <2> QED
    BY <2>1, <2>2 DEF Kept
<1>7. Levelled'
  BY <1>1 DEF Levelled
<1> QED
  BY <1>4, <1>5, <1>6, <1>7

\* A list of all files, in any order, is a queue of them.
LEMMA ListsAreQueues ==
    ASSUME NEW S, IsFiniteSet(S), NEW s \in SetToSeqs(S)
    PROVE  s \in Seq(S) /\ ToSet(s) = S
<1> DEFINE n == Cardinality(S)
<1>1. n \in Nat /\ IsFiniteSet(1 .. n) /\ Cardinality(1 .. n) = n
  <2>1. n \in Nat
    BY FS_CardinalityType
  <2> HIDE DEF n
  <2>2. n \in Int /\ 1 \in Int /\ (IF 1 > n THEN 0 ELSE n - 1 + 1) = n
    BY <2>1
  <2> QED
    BY <2>1, <2>2, FS_Interval
<1>2. s \in [1 .. n -> S] /\ \A i, j \in 1 .. n : i # j => s[i] # s[j]
  BY DEF SetToSeqs
<1> HIDE DEF n
<1>3. s \in Injection(1 .. n, S)
  BY <1>2 DEF Injection, IsInjective
<1>4. s \in Surjection(1 .. n, S)
  BY <1>1, <1>3, FS_Injection DEF n
<1>5. ToSet(s) = S
  BY <1>2, <1>4 DEF Surjection, ToSet
<1>6. s \in Seq(S)
  BY <1>1, <1>2
<1> QED
  BY <1>5, <1>6

LEMMA OpenKeepsLsm == ASSUME LsmInv, LsmOpen PROVE LsmInv'
<1> USE DEF LsmInv
<1> DEFINE top == CHOOSE n \in Files \union {0} : \A i \in Files : i <= n
<1>1. /\ ~opened /\ opened' = TRUE /\ nextId' = 1 + top /\ ~flushing /\ Done = Files
      /\ UNCHANGED <<tables, mem, l1, flushing, unindexed, written, flushed>>
  BY DEF LsmOpen, lsmFlush, lsmHistory, Numbered, LsmTyped, Done
<1>2. PICK list \in SetToSeqs(Files) : l0' = list
  BY DEF LsmOpen
<1>3. Files \subseteq Ids /\ Files \union {0} \subseteq Nat /\ \A i \in Files \union {0} : i <= MaxTables
  BY MaxTablesAssumption DEF Files, Ids
<1>4. top \in Files \union {0} /\ \A i \in Files : i <= top
  <2>1. PICK m \in Files \union {0} : \A i \in Files \union {0} : i <= m
    BY <1>3, GreatestElement, MaxTablesAssumption
  <2> QED
    BY <2>1
<1> HIDE DEF top
<1>5. top \in Nat /\ \A i \in Files : i \in Nat /\ i <= top
  BY <1>3, <1>4
<1>6. IsFiniteSet(Files)
  <2>1. IsFiniteSet(1 .. MaxTables)
    BY MaxTablesAssumption, FS_Interval
  <2> QED
    BY <1>3, <2>1, FS_Subset DEF Ids
<1>7. l0' \in Seq(Files) /\ ToSet(l0') = Files
  BY <1>2, <1>6, ListsAreQueues
<1>8. l0' \in Seq(Ids)
  BY <1>3, <1>7
<1>9. Files' = Files /\ Done' = Files
  BY <1>1 DEF Files, Done
<1>10. nextId' \in Nat \ {0} /\ \A id \in Files : id < nextId'
  BY <1>1, <1>5
<1>11. l1 = << >>
  BY <1>1 DEF Levelled
<1>12. LsmTyped'
  <2>1. tables' \in [Ids -> PageMap \union {Absent}] /\ mem' \in PageMap /\ written' \in PageMap
        /\ flushed' \in PageMap /\ l1' \in Seq(Ids) /\ flushing' \in BOOLEAN
    BY <1>1 DEF LsmTyped
  <2>2. unindexed' \subseteq Holds(mem') /\ (~flushing' => unindexed' = {})
    BY <1>1 DEF LsmTyped
  <2> QED
    BY <1>1, <1>8, <1>10, <2>1, <2>2 DEF LsmTyped
<1>13. Numbered'
  BY <1>1, <1>9, <1>10 DEF Numbered
<1>14. Kept'
  <2>1. \A q \in PageIds : IsNewest(Done, q, flushed[q])'
    BY <1>1, <1>9, DoneStays
  <2> QED
    BY <1>1, <2>1 DEF Kept
<1>15. Levelled'
  <2>1. l1' = << >> /\ ToSet(<< >>) = {}
    BY <1>1, <1>11 DEF ToSet
  <2>2. ToSet(l1') = {}
    BY <2>1
  <2> QED
    BY <1>1, <1>7, <1>9, <2>2 DEF Levelled
<1> QED
  BY <1>12, <1>13, <1>14, <1>15

LEMMA LsmInvHolds == LsmSpec => []LsmInv
<1>1. LsmInv /\ [LsmNext]_lsmVars => LsmInv'
  <2> SUFFICES ASSUME LsmInv, [LsmNext]_lsmVars PROVE LsmInv'
    OBVIOUS
  <2>1. CASE UNCHANGED lsmVars
    <3>1. UNCHANGED <<tables, opened, mem, l0, l1, nextId, flushing, unindexed, written, flushed>>
      BY <2>1 DEF lsmVars, lsmMemory, lsmFlush, lsmHistory
    <3>2. Done' = Done
      BY <3>1 DEF Done, Files
    <3>3. LsmTyped'
      BY <3>1 DEF LsmInv, LsmTyped, Holds
    <3>4. Numbered'
      BY <3>1, <3>2 DEF LsmInv, Numbered, Files
    <3>5. Kept'
      <4>1. \A q \in PageIds : IsNewest(Done, q, flushed[q])'
        BY <3>1, <3>2, DoneStays
      <4> QED
        BY <3>1, <4>1 DEF LsmInv, Kept
    <3>6. Levelled'
      BY <3>1, <3>2 DEF LsmInv, Levelled
    <3> QED
      BY <3>3, <3>4, <3>5, <3>6 DEF LsmInv
  <2>2. CASE LsmNext
    BY <2>2, WriteKeepsLsm, MemoryKeepsLsm, IndexKeepsLsm, EndFlushKeepsLsm, CompactKeepsLsm,
       CrashKeepsLsm, OpenKeepsLsm DEF LsmNext
  <2> QED
    BY <2>1, <2>2
<1> QED
  BY InitLsmInv, <1>1, PTL DEF LsmSpec

\* The place read_node finds a page at: in level 0 if it is there, otherwise in
\* level 1, and there at its first place.
LEMMA FirstFound ==
    ASSUME LsmTyped, NEW p, With(p, Searched) # {}
    PROVE  LET k == FirstOf(With(p, Searched))
           IN  \/ k \in With(p, l0) /\ Searched[k] = l0[k]
               \/ /\ With(p, l0) = {}
                  /\ k - Len(l0) \in With(p, l1) /\ Searched[k] = l1[k - Len(l0)]
<1> DEFINE m == Len(l0)  n == Len(l1)
           k == FirstOf(With(p, Searched))
<1>1. l0 \in Seq(Ids) /\ l1 \in Seq(Ids)
  BY DEF LsmTyped
<1>2. /\ m \in Nat /\ n \in Nat /\ DOMAIN l0 = 1 .. m /\ DOMAIN l1 = 1 .. n
      /\ DOMAIN (l0 \o l1) = 1 .. m + n
      /\ \A i \in 1 .. m + n : (l0 \o l1)[i] = IF i <= m THEN l0[i] ELSE l1[i - m]
  BY <1>1
<1> HIDE DEF m, n
<1>3. With(p, Searched) \subseteq 1 .. m + n
  BY <1>2 DEF With, Searched
<1>4. With(p, Searched) \subseteq Nat
  BY <1>2, <1>3
<1>5. k \in With(p, Searched) /\ \A j \in With(p, Searched) : k <= j
  BY <1>4, LeastElement DEF FirstOf
<1> HIDE DEF k
<1>6. k \in 1 .. m + n /\ tables[Searched[k]][p] # Absent
  BY <1>2, <1>5 DEF With, Searched
<1>7. CASE k <= m
  <2>1. k \in 1 .. m /\ Searched[k] = l0[k]
    BY <1>2, <1>6, <1>7 DEF Searched
  <2>2. k \in With(p, l0)
    BY <1>2, <1>6, <2>1 DEF With
  <2> QED
    BY <2>1, <2>2 DEF k, m
<1>8. CASE ~(k <= m)
  <2>1. k - m \in 1 .. n /\ Searched[k] = l1[k - m]
    BY <1>2, <1>6, <1>8 DEF Searched
  <2>2. k - m \in With(p, l1)
    BY <1>2, <1>6, <2>1 DEF With
  <2>3. With(p, l0) = {}
    <3> SUFFICES ASSUME NEW i \in With(p, l0) PROVE FALSE
      OBVIOUS
    <3>1. i \in 1 .. m /\ tables[l0[i]][p] # Absent
      BY <1>2 DEF With
    <3>2. i \in 1 .. m + n /\ i <= m /\ i \in Int /\ k \in Int /\ m \in Int
      BY <1>2, <1>6, <3>1
    <3>3. i \in With(p, Searched)
      BY <1>2, <3>1, <3>2 DEF With, Searched
    <3>4. k <= i
      BY <1>5, <3>3
    <3> QED
      BY <1>8, <3>2, <3>4
  <2> QED
    BY <2>1, <2>2, <2>3 DEF k, m
<1> QED
  BY <1>7, <1>8

\* A page that each level holds at most once is read as it was last written
\* (dir_lsmtree_storage.rs:121), after any writes, flushes, compactions,
\* rollbacks and restarts.
THEOREM LevelsShowNewest == LsmSpec => []LevelsAreNewestFirst
<1>1. LsmInv => LevelsAreNewestFirst
  <2> SUFFICES ASSUME LsmInv, opened, NEW p \in PageIds,
                      \A ids \in {l0, l1} : \A i, j \in With(p, ids) : i = j
               PROVE  LsmView(p) = written[p]
    BY DEF LevelsAreNewestFirst
  <2>1. /\ LsmTyped /\ ToSet(l0) \union ToSet(l1) = Done
        /\ \A i \in ToSet(l0), j \in ToSet(l1) : j < i
        /\ IsNewest(Done, p, flushed[p])
        /\ written[p] = IF mem[p] # Absent THEN mem[p] ELSE flushed[p]
    BY DEF LsmInv, Levelled, Kept
  <2>2. Done \subseteq Ids /\ Ids \subseteq Int
    BY MaxTablesAssumption DEF Done, Files, Ids
  <2>3. CASE mem[p] # Absent
    BY <2>1, <2>3 DEF LsmView
  <2>4. CASE mem[p] = Absent /\ With(p, Searched) = {}
    <3>1. LsmView(p) = Absent
      BY <2>4 DEF LsmView
    <3>2. /\ \A i \in DOMAIN Searched : tables[Searched[i]][p] = Absent
          /\ ToSet(Searched) = ToSet(l0) \union ToSet(l1)
      <4>1. l0 \in Seq(Ids) /\ l1 \in Seq(Ids)
        BY <2>1 DEF LsmTyped
      <4> QED
        BY <2>4, <4>1, ConcatFacts DEF With, Searched
    <3>3. \A id \in Done : tables[id][p] = Absent
      BY <2>1, <3>2 DEF ToSet
    <3>4. flushed[p] = Absent
      BY <2>1, <3>3 DEF IsNewest
    <3> QED
      BY <2>1, <2>4, <3>1, <3>4
  <2>5. CASE mem[p] = Absent /\ With(p, Searched) # {}
    <3> DEFINE k == FirstOf(With(p, Searched))
               id == Searched[k]
    <3>1. LsmView(p) = tables[id][p]
      BY <2>5 DEF LsmView
    <3>2. \/ k \in With(p, l0) /\ id = l0[k]
          \/ With(p, l0) = {} /\ k - Len(l0) \in With(p, l1) /\ id = l1[k - Len(l0)]
      BY <2>1, <2>5, FirstFound
    <3> HIDE DEF k, id
    <3>3. \A i \in ToSet(l0) : tables[i][p] # Absent => \E j \in With(p, l0) : l0[j] = i
      BY DEF With, ToSet
    <3>4. \A i \in ToSet(l1) : tables[i][p] # Absent => \E j \in With(p, l1) : l1[j] = i
      BY DEF With, ToSet
    <3>5. CASE k \in With(p, l0) /\ id = l0[k]
      <4>1. id \in ToSet(l0) /\ tables[id][p] # Absent
        BY <3>5 DEF With, ToSet
      <4>2. \A i \in ToSet(l0) : tables[i][p] # Absent => i = id
        BY <3>3, <3>5
      <4>3. \A i \in Done : tables[i][p] # Absent => i <= id
        <5>1. id \in Int /\ \A i \in ToSet(l1) : i \in Int /\ i < id
          BY <2>1, <2>2, <4>1
        <5>2. \A i \in ToSet(l1) : i <= id
          BY <5>1
        <5>3. id <= id
          BY <5>1
        <5> QED
          BY <2>1, <4>2, <5>2, <5>3
      <4>4. IsNewest(Done, p, tables[id][p])
        BY <2>1, <4>1, <4>3 DEF IsNewest
      <4> QED
        BY <2>1, <2>2, <2>5, <3>1, <4>4, NewestUnique
    <3>6. CASE With(p, l0) = {} /\ k - Len(l0) \in With(p, l1) /\ id = l1[k - Len(l0)]
      <4>1. id \in ToSet(l1) /\ tables[id][p] # Absent
        BY <3>6 DEF With, ToSet
      <4>2. \A i \in ToSet(l1) : tables[i][p] # Absent => i = id
        BY <3>4, <3>6
      <4>3. \A i \in ToSet(l0) : tables[i][p] = Absent
        BY <3>3, <3>6
      <4>4. \A i \in Done : tables[i][p] # Absent => i <= id
        BY <2>1, <2>2, <4>1, <4>2, <4>3
      <4>5. IsNewest(Done, p, tables[id][p])
        BY <2>1, <4>1, <4>4 DEF IsNewest
      <4> QED
        BY <2>1, <2>2, <2>5, <3>1, <4>5, NewestUnique
    <3> QED
      BY <3>2, <3>5, <3>6
  <2> QED
    BY <2>3, <2>4, <2>5
<1> QED
  BY <1>1, LsmInvHolds, PTL

\* What a flush wrote is what the newest file of the page holds
\* (dir_lsmtree_storage.rs:206): no file is written over, however often a
\* process dies in the middle of a flush.
THEOREM FlushedFilesStay == LsmSpec => []FlushedStays
<1>1. LsmInv => FlushedStays
  <2> SUFFICES ASSUME LsmInv, NEW p \in PageIds
               PROVE  \/ Newest(p) = flushed[p]
                      \/ flushing /\ mem[p] # Absent /\ Newest(p) = mem[p]
    BY DEF FlushedStays
  <2>1. IsNewest(Done, p, flushed[p]) /\ IsNewest(Files, p, Newest(p))
    BY NewestIs DEF LsmInv, Kept
  <2>2. Files \subseteq Ids /\ Ids \subseteq Int
    BY MaxTablesAssumption DEF Files, Ids
  <2>3. CASE ~flushing
    <3>1. Done = Files
      BY <2>3 DEF Done
    <3> QED
      BY <2>1, <2>2, <3>1, NewestUnique
  <2>4. CASE flushing
    <3>1. /\ Done = Files \ {nextId} /\ nextId \in Files /\ \A i \in Done : i < nextId
          /\ tables[nextId][p] = IF p \in unindexed THEN Absent ELSE mem[p]
      BY <2>4 DEF LsmInv, Numbered, Done
    <3>2. CASE tables[nextId][p] = Absent
      <4>1. IsNewest(Files, p, flushed[p])
        BY <2>1, <3>1, <3>2 DEF IsNewest
      <4> QED
        BY <2>1, <2>2, <4>1, NewestUnique
    <3>3. CASE tables[nextId][p] # Absent
      <4>1. \A i \in Files : i <= nextId
        <5>1. nextId \in Int /\ \A i \in Files : i \in Int /\ (i < nextId \/ i = nextId)
          BY <2>2, <3>1
        <5> QED
          BY <5>1
      <4>2. IsNewest(Files, p, mem[p])
        BY <3>1, <3>3, <4>1 DEF IsNewest
      <4>3. Newest(p) = mem[p]
        BY <2>1, <2>2, <4>2, NewestUnique
      <4> QED
        BY <2>4, <3>1, <3>3, <4>3
    <3> QED
      BY <3>2, <3>3
  <2> QED
    BY <2>3, <2>4
<1> QED
  BY <1>1, LsmInvHolds, PTL
=============================================================================
