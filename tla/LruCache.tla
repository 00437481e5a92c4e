------------------------------ MODULE LruCache ------------------------------
(***************************************************************************)
(* LruCacheStorage (pager/storage.rs): the cache of decoded nodes that     *)
(* Executor::with_disk puts in front of the store.  The store below is the *)
(* abstract one, AtomicStore, which DiskPagerContract shows the disk store *)
(* to implement.  The cache adds the nodes it holds and the order they     *)
(* were used in, and has to keep both in step with the store.              *)
(***************************************************************************)
EXTENDS Naturals, Sequences, FiniteSets, Queues

CONSTANTS
    NodePages, NodeValues, NoNode,  \* Pages, Values, None of AtomicStore
    FreshNode,            \* the value alloc_page leaves on a page
    Capacity              \* LruCacheStorage.capacity, at least 1 (storage.rs:111)

ASSUME NodesAssumption == NoNode \notin NodeValues /\ FreshNode \in NodeValues
ASSUME CapacityAssumption == Capacity \in Nat \ {0}

VARIABLES
    store, active, pending,  \* the store below, see AtomicStore
    cache,      \* the cached nodes, NoNode elsewhere
    order,      \* access_order, least recently used first
    outdated    \* history: cached pages the store has changed by itself

nodeVars == <<cache, order, outdated>>
lruVars  == <<store, active, pending, nodeVars>>

Inner == INSTANCE AtomicStore WITH Pages <- NodePages, Values <- NodeValues, None <- NoNode

\* read_node of the store below.
Stored(p) == IF active /\ pending[p] # NoNode THEN pending[p] ELSE store[p]

NoNodes == [p \in NodePages |-> NoNode]
HeldNodes(c) == {p \in NodePages : c[p] # NoNode}

\* Mutation: a page used again is queued a second time.
Queued(s, p) == Append(s, p)

\* touch: the page becomes the last of the order.
Touched(s, p) == Append(WithoutFirst(s, p), p)

\* The cache and the order when evict has made room, if it has to: the first
\* page of the order leaves both.
Full      == Cardinality(HeldNodes(cache)) >= Capacity /\ order # << >>
RoomCache == IF Full THEN [cache EXCEPT ![Head(order)] = NoNode] ELSE cache
RoomOrder == IF Full THEN Tail(order) ELSE order

Empty == cache' = NoNodes /\ order' = << >> /\ outdated' = {}

LruInit == Inner!Init /\ cache = NoNodes /\ order = << >> /\ outdated = {}

---------------------------------------------------------------------------
\* read_node of a cached page: the store is not asked.
ReadHit(p) ==
    /\ cache[p] # NoNode
    /\ order' = Touched(order, p)
    /\ UNCHANGED <<store, active, pending, cache, outdated>>

\* read_node of another page: the page read takes the room of an old one.
ReadMiss(p) ==
    /\ cache[p] = NoNode
    /\ cache' = [RoomCache EXCEPT ![p] = Stored(p)]
    /\ order' = Append(RoomOrder, p)
    /\ outdated' = outdated \intersect HeldNodes(RoomCache)
    /\ UNCHANGED <<store, active, pending>>

\* Mutation: a write goes round the cache when the page is not the next to leave.
WriteAround(p, v) ==
    /\ Inner!Put(p, v)
    /\ cache' = [RoomCache EXCEPT ![p] = IF RoomCache[p] = NoNode THEN v ELSE RoomCache[p]]
    /\ order' = Touched(RoomOrder, p)
    /\ outdated' = (outdated \intersect HeldNodes(RoomCache)) \ {p}

\* write_node goes to the store first, then into the cache; at capacity a page
\* makes room, although the page written may be cached already.
Write(p, v) ==
    /\ Inner!Put(p, v)
    /\ cache' = [RoomCache EXCEPT ![p] = v]
    /\ order' = Touched(RoomOrder, p)
    /\ outdated' = (outdated \intersect HeldNodes(RoomCache)) \ {p}

\* The other calls go to the store alone; pages it changes stay in the cache:
\* the page that alloc_page hands out, and what Wal::begin (in a transaction)
\* and Wal::rollback drop.
LruAlloc(p) ==
    /\ Inner!Put(p, FreshNode)
    /\ outdated' = outdated \union ({p} \intersect HeldNodes(cache))
    /\ UNCHANGED <<cache, order>>

LruCommit == Inner!Commit /\ UNCHANGED nodeVars

Forget == /\ outdated' = outdated \union (HeldNodes(cache) \intersect HeldNodes(pending))
          /\ UNCHANGED <<cache, order>>

LruBegin    == Inner!Begin /\ Forget
LruRollback == Inner!Abandon /\ Forget

\* flush: the cache starts anew.
LruFlush == UNCHANGED <<store, active, pending>> /\ Empty

\* The process dies: what is in memory is gone, in the store and above it.
LruCrash == Inner!Abandon /\ Empty

Read(p) == ReadHit(p) \/ ReadMiss(p)

LruNext ==
    \/ \E p \in NodePages : Read(p) \/ LruAlloc(p)
    \/ \E p \in NodePages, v \in NodeValues : Write(p, v)
    \/ LruBegin \/ LruCommit \/ LruRollback \/ LruFlush \/ LruCrash

LruSpec == LruInit /\ [][LruNext]_lruVars

---------------------------------------------------------------------------
LruTypeOK ==
    /\ store \in [NodePages -> NodeValues] /\ active \in BOOLEAN
    /\ pending \in [NodePages -> NodeValues \union {NoNode}]
    /\ cache \in [NodePages -> NodeValues \union {NoNode}]
    /\ order \in Seq(NodePages)
    /\ outdated \subseteq HeldNodes(cache)

\* The order queues exactly the cached pages, each of them once, and no more
\* than fit (storage.rs:128): an id without a node would make evict give no
\* room, a node without an id would never leave.
OrderMatches ==
    /\ {order[i] : i \in DOMAIN order} = HeldNodes(cache)
    /\ \A i, j \in DOMAIN order : order[i] = order[j] => i = j
    /\ Len(order) <= Capacity

\* What a read returns from the cache is what the store has (storage.rs:145),
\* but for pages that a rollback, a second begin or alloc_page changed below.
CacheCurrent == \A p \in HeldNodes(cache) \ outdated : cache[p] = Stored(p)
=============================================================================
