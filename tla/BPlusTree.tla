----------------------------- MODULE BPlusTree -----------------------------
(***************************************************************************)
(* The B+Tree that holds every table, the catalog and the full-text index  *)
(* (btree/tree.rs, btree/node.rs), over a store of pages.                  *)
(*                                                                         *)
(* A call works by reading nodes and writing them back one write_node at a *)
(* time.  Outside a transaction every write_node is durable by itself, so  *)
(* the model has one step per write: a function computes the nodes it is   *)
(* going to write from what it has read, and queues them in the order of   *)
(* its write_node calls.  The recursion of insert and delete is the path:  *)
(* the parents still waiting for their child to return.                    *)
(***************************************************************************)
EXTENDS Integers, Sequences, FiniteSets, SequencesExt

CONSTANTS
    Order,     \* the order the tree is created with
    Records,   \* the records callers put: [key, val]
    NumPages,  \* bound: pages the store can hand out
    None       \* no record, no next leaf

ASSUME OrderAssumption == Order \in Nat /\ Order >= 3
ASSUME RecordsAssumption == IsFiniteSet(Records) /\ \A r \in Records : r.key \in Int
ASSUME PagesAssumption == NumPages \in Nat \ {0}
ASSUME NoneAssumption == None \notin Records /\ None \notin Nat

Pages == 0 .. NumPages - 1
Keys  == {r.key : r \in Records}

VARIABLES
    nodes,      \* page -> node, as the store returns it
    pageCount,  \* pages handed out
    root,       \* BPlusTree.root
    size,       \* BPlusTree.size
    pc,         \* what the call in progress does when its writes are done
    path,       \* parents below which it is working: [page, pos], root first
    at,         \* the page it last changed
    carry,      \* what a split returns: [key, page] of the new right node
    writes,     \* write_node calls still to come: [page, node]
    dict        \* history: the records the calls put and did not delete

tree == <<nodes, pageCount, root, size>>
vars == <<tree, pc, path, at, carry, writes, dict>>

(***************************************************************************)
(* Nodes.  Positions are counted from 1.                                   *)
(***************************************************************************)
LeafNode(keys, recs, next) ==
    [leaf |-> TRUE, keys |-> keys, kids |-> << >>, recs |-> recs, next |-> next]
InternalNode(keys, kids) ==
    [leaf |-> FALSE, keys |-> keys, kids |-> kids, recs |-> << >>, next |-> None]

IsFull(n)    == Len(n.keys) >= Order - 1
MinKeys      == (Order - 1) \div 2
Underfull(n) == Len(n.keys) < MinKeys

\* partition_point over sorted keys.
CountBelow(n, k)     == Cardinality({i \in DOMAIN n.keys : n.keys[i] < k})
CountUpTo(n, k) == Cardinality({i \in DOMAIN n.keys : n.keys[i] <= k})
Holds(n, k)     == k \in Range(n.keys)

\* Mutation: the descent takes a key equal to a separator to the left of it.
ChildPosLeft(n, k) == CountBelow(n, k) + 1
ChildPos(n, k) == CountUpTo(n, k) + 1

(***************************************************************************)
(* find_leaf: the internal nodes on the way, then the leaf.  The height is *)
(* below the number of pages, which bounds the descent.                    *)
(***************************************************************************)
Descent(k) ==
    LET down[h \in 0 .. NumPages] ==   \* the path from the root, h nodes long
          IF h = 0 THEN << >>
          ELSE LET above == down[h - 1]
                   p == IF above = << >> THEN root
                        ELSE LET l == Last(above) IN nodes[l.page].kids[l.pos]
               IN  IF above # << >> /\ nodes[Last(above).page].leaf THEN above
                   ELSE Append(above, [page |-> p, pos |-> ChildPos(nodes[p], k)])
    IN  down[NumPages]

FindLeaf(k) == Last(Descent(k)).page

Search(k) ==
    LET leaf == nodes[FindLeaf(k)]
        hits == {i \in DOMAIN leaf.recs : leaf.recs[i].key = k}
    IN  IF hits = {} THEN None ELSE leaf.recs[CHOOSE i \in hits : \A j \in hits : i <= j]

\* The leaves a scan visits from page p on, following next_leaf.
Chain(p) ==
    LET chain[h \in 0 .. NumPages] ==
          IF h = 0 THEN <<p>>
          ELSE LET before == chain[h - 1]
                   next   == nodes[Last(before)].next
               IN  IF next = None THEN before ELSE Append(before, next)
    IN  chain[NumPages]

\* first_leaf.
FirstLeaf ==
    LET down[h \in 0 .. NumPages] ==
          IF h = 0 THEN root
          ELSE LET p == down[h - 1] IN IF nodes[p].leaf THEN p ELSE nodes[p].kids[1]
    IN  down[NumPages]

\* The records of the leaves of a chain, in the order a scan meets them.
RecordsOf(chain) == FlattenSeq([i \in DOMAIN chain |-> nodes[chain[i]].recs])

\* range_search stops inside the first leaf that has a record above hi.
RangeSearch(lo, hi) ==
    LET found == RecordsOf(Chain(FindLeaf(lo)))
        stop  == {i \in DOMAIN found : found[i].key > hi}
        upto  == IF stop = {} THEN Len(found)
                 ELSE (CHOOSE i \in stop : \A j \in stop : i <= j) - 1
        results[i \in 0 .. upto] ==
              IF i = 0 THEN << >>
              ELSE IF found[i].key >= lo THEN Append(results[i - 1], found[i]) ELSE results[i - 1]
    IN  results[upto]

\* scan_all.
ScanAll == IF size = 0 THEN << >> ELSE RecordsOf(Chain(FirstLeaf))

---------------------------------------------------------------------------
Idle    == pc = "idle"
Ready(state) == pc = state /\ writes = << >>   \* the last function's writes are done

NoCarry == [key |-> 0, page |-> 0]
EndCall == pc' = "idle" /\ path' = << >> /\ carry' = NoCarry /\ at' = root'

Write(p, n) == <<[page |-> p, node |-> n]>>

WriteNode ==
    /\ writes # << >>
    /\ nodes' = [nodes EXCEPT ![Head(writes).page] = Head(writes).node]
    /\ writes' = Tail(writes)
    /\ UNCHANGED <<pageCount, root, size, pc, path, at, carry, dict>>

(***************************************************************************)
(* insert, down to insert_into_leaf's write.  A key that is there has its  *)
(* record replaced; size goes down here and up again when insert returns.  *)
(***************************************************************************)
WithRecord(leaf, r) ==
    LET i == CountBelow(leaf, r.key) + 1
    IN  IF Holds(leaf, r.key)
        THEN [leaf EXCEPT !.recs[i] = r]
        ELSE [leaf EXCEPT !.keys = InsertAt(@, i, r.key), !.recs = InsertAt(@, i, r)]

\* Mutation: a replaced record is counted as a new one.
SizeKept(replaced) == size
SizeBefore(replaced) == IF replaced /\ size > 0 THEN size - 1 ELSE size

\* The bound: a leaf fills up only if every node above it could split too.
HasRoom(leaf, height) == IsFull(leaf) => pageCount + height + 1 <= NumPages

Insert(r) ==
    LET way  == Descent(r.key)
        leaf == Last(way).page
    IN  /\ Idle
        /\ HasRoom(WithRecord(nodes[leaf], r), Len(way))
        /\ at' = leaf
        /\ path' = Front(way)
        /\ writes' = Write(leaf, WithRecord(nodes[leaf], r))
        /\ size' = SizeBefore(Holds(nodes[leaf], r.key))
        /\ pc' = IF Holds(nodes[leaf], r.key) THEN "replaced" ELSE "inserted"
        /\ dict' = [dict EXCEPT ![r.key] = r]
        /\ UNCHANGED <<nodes, pageCount, root, carry>>

(***************************************************************************)
(* split_leaf and split_internal: the node keeps its first half, the rest  *)
(* goes to a page allocated for it.                                        *)
(***************************************************************************)
\* Mutation: the new leaf is not linked to the one after it.
SplitUnlinked(n, newPage) ==
    LET half == Len(n.keys) \div 2
        rest == SubSeq(n.keys, half + 1, Len(n.keys))
    IN  IF n.leaf
        THEN [up    |-> Head(rest),
              left  |-> LeafNode(SubSeq(n.keys, 1, half), SubSeq(n.recs, 1, half), newPage),
              right |-> LeafNode(rest, SubSeq(n.recs, half + 1, Len(n.recs)), None)]
        ELSE [up    |-> Head(rest),
              left  |-> InternalNode(SubSeq(n.keys, 1, half), SubSeq(n.kids, 1, half + 1)),
              right |-> InternalNode(Tail(rest), SubSeq(n.kids, half + 2, Len(n.kids)))]

Split(n, newPage) ==
    LET half == Len(n.keys) \div 2
        rest == SubSeq(n.keys, half + 1, Len(n.keys))
    IN  IF n.leaf
        THEN [up    |-> Head(rest),
              left  |-> LeafNode(SubSeq(n.keys, 1, half), SubSeq(n.recs, 1, half), newPage),
              right |-> LeafNode(rest, SubSeq(n.recs, half + 1, Len(n.recs)), n.next)]
        ELSE [up    |-> Head(rest),
              left  |-> InternalNode(SubSeq(n.keys, 1, half), SubSeq(n.kids, 1, half + 1)),
              right |-> InternalNode(Tail(rest), SubSeq(n.kids, half + 2, Len(n.kids)))]

SplitNode ==
    /\ Ready("inserted") /\ IsFull(nodes[at])
    /\ LET s == Split(nodes[at], pageCount)
       IN  /\ writes' = Write(at, s.left) \o Write(pageCount, s.right)
           /\ carry' = [key |-> s.up, page |-> pageCount]
    /\ pageCount' = pageCount + 1
    /\ pc' = "split"
    /\ UNCHANGED <<nodes, root, size, path, at, dict>>

\* insert_recursive, when its child returns a split.
AddToParent ==
    /\ Ready("split") /\ path # << >>
    /\ LET p == Last(path)
       IN  /\ writes' = Write(p.page, [nodes[p.page] EXCEPT
                                          !.keys = InsertAt(@, p.pos, carry.key),
                                          !.kids = InsertAt(@, p.pos + 1, carry.page)])
           /\ at' = p.page
    /\ path' = Front(path)
    /\ pc' = "inserted"
    /\ carry' = NoCarry
    /\ UNCHANGED <<tree, dict>>

\* insert, when the root returns a split.  The page of the new root is taken
\* into self.root after its write.
NewRoot ==
    /\ Ready("split") /\ path = << >>
    /\ writes' = Write(pageCount, InternalNode(<<carry.key>>, <<root, carry.page>>))
    /\ pageCount' = pageCount + 1
    /\ at' = pageCount
    /\ pc' = "newRoot"
    /\ carry' = NoCarry
    /\ UNCHANGED <<nodes, root, size, path, dict>>

\* insert returns: the parents that are left have nothing to do.
EndInsert ==
    /\ \/ Ready("replaced") /\ UNCHANGED root
       \/ Ready("inserted") /\ ~IsFull(nodes[at]) /\ UNCHANGED root
       \/ Ready("newRoot") /\ root' = at
    /\ size' = size + 1
    /\ EndCall
    /\ UNCHANGED <<nodes, pageCount, writes, dict>>

(***************************************************************************)
(* delete, down to delete_from_leaf's write.  A key that is not found      *)
(* leaves everything as it was.                                            *)
(***************************************************************************)
Delete(k) ==
    LET way  == Descent(k)
        leaf == Last(way).page
        i    == CountUpTo(nodes[leaf], k)
    IN  /\ Idle /\ Holds(nodes[leaf], k)
        /\ at' = leaf
        /\ path' = Front(way)
        /\ writes' = Write(leaf, [nodes[leaf] EXCEPT !.keys = RemoveAt(@, i),
                                                     !.recs = RemoveAt(@, i)])
        /\ pc' = "deleted"
        /\ dict' = [dict EXCEPT ![k] = None]
        /\ UNCHANGED <<tree, carry>>

(***************************************************************************)
(* borrow_from_right, borrow_from_left and merge: the nodes they leave,    *)
(* from the parent, the position of the left one of the two siblings, and  *)
(* the siblings.                                                           *)
(***************************************************************************)
BorrowFromRight(parent, pos, child, right) ==
    LET k == Head(right.keys)
    IN  IF child.leaf
        THEN [parent  |-> [parent EXCEPT !.keys[pos] = right.keys[2]],
              child   |-> [child EXCEPT !.keys = Append(@, k),
                                        !.recs = Append(@, Head(right.recs))],
              sibling |-> [right EXCEPT !.keys = Tail(@), !.recs = Tail(@)]]
        ELSE [parent  |-> [parent EXCEPT !.keys[pos] = k],
              child   |-> [child EXCEPT !.keys = Append(@, parent.keys[pos]),
                                        !.kids = Append(@, Head(right.kids))],
              sibling |-> [right EXCEPT !.keys = Tail(@), !.kids = Tail(@)]]

BorrowFromLeft(parent, pos, left, child) ==
    LET k == Last(left.keys)
    IN  IF child.leaf
        THEN [parent  |-> [parent EXCEPT !.keys[pos] = k],
              child   |-> [child EXCEPT !.keys = <<k>> \o @,
                                        !.recs = <<Last(left.recs)>> \o @],
              sibling |-> [left EXCEPT !.keys = Front(@), !.recs = Front(@)]]
        ELSE [parent  |-> [parent EXCEPT !.keys[pos] = k],
              child   |-> [child EXCEPT !.keys = <<parent.keys[pos]>> \o @,
                                        !.kids = <<Last(left.kids)>> \o @],
              sibling |-> [left EXCEPT !.keys = Front(@), !.kids = Front(@)]]

\* Mutation: two internal nodes are joined without the key between them.
MergeDropsKey(parent, pos, left, right) ==
    [parent |-> [parent EXCEPT !.keys = RemoveAt(@, pos), !.kids = RemoveAt(@, pos + 1)],
     left   |-> IF left.leaf
                THEN LeafNode(left.keys \o right.keys, left.recs \o right.recs, right.next)
                ELSE InternalNode(left.keys \o right.keys, left.kids \o right.kids)]

Merge(parent, pos, left, right) ==
    [parent |-> [parent EXCEPT !.keys = RemoveAt(@, pos), !.kids = RemoveAt(@, pos + 1)],
     left   |-> IF left.leaf
                THEN LeafNode(left.keys \o right.keys, left.recs \o right.recs, right.next)
                ELSE InternalNode(left.keys \o <<parent.keys[pos]>> \o right.keys,
                                  left.kids \o right.kids)]

(***************************************************************************)
(* rebalance: borrow from the right sibling if it can spare a key, else    *)
(* from the left, else merge with the right if there is one, else with the *)
(* left.  With no sibling at all pos - 1 is out of range and Rust panics.  *)
(***************************************************************************)
CanSpare(p) == Len(nodes[p].keys) > MinKeys

Rebalance(parent, pos) ==
    LET pn    == nodes[parent]
        Kid(i) == nodes[pn.kids[i]]
        hasRight == pos < Len(pn.kids)
        hasLeft  == pos > 1
        MergeAt(i) == LET m == Merge(pn, i, Kid(i), Kid(i + 1))
                      IN  Write(pn.kids[i], m.left) \o Write(parent, m.parent)
    IN  IF hasRight /\ CanSpare(pn.kids[pos + 1]) THEN
            LET b == BorrowFromRight(pn, pos, Kid(pos), Kid(pos + 1))
            IN  Write(parent, b.parent) \o Write(pn.kids[pos], b.child)
                                        \o Write(pn.kids[pos + 1], b.sibling)
        ELSE IF hasLeft /\ CanSpare(pn.kids[pos - 1]) THEN
            LET b == BorrowFromLeft(pn, pos - 1, Kid(pos - 1), Kid(pos))
            IN  Write(parent, b.parent) \o Write(pn.kids[pos], b.child)
                                        \o Write(pn.kids[pos - 1], b.sibling)
        ELSE IF hasRight THEN MergeAt(pos)
        ELSE MergeAt(pos - 1)

\* Mutation: only the parent of the leaf is rebalanced.
ReturnToParentOnce ==
    /\ Ready("deleted") /\ path # << >>
    /\ LET p     == Last(path)
           child == nodes[p.page].kids[p.pos]
       IN  /\ at' = p.page
           /\ writes' = IF Underfull(nodes[child]) THEN Rebalance(p.page, p.pos) ELSE << >>
    /\ path' = << >>
    /\ UNCHANGED <<tree, pc, carry, dict>>

\* delete_recursive, when its child returns true.
ReturnToParent ==
    /\ Ready("deleted") /\ path # << >>
    /\ LET p     == Last(path)
           child == nodes[p.page].kids[p.pos]
           alone == Len(nodes[p.page].kids) = 1
       IN  /\ at' = p.page
           /\ IF ~Underfull(nodes[child]) THEN writes' = << >> /\ pc' = pc
              ELSE IF alone THEN writes' = << >> /\ pc' = "panic"
              ELSE writes' = Rebalance(p.page, p.pos) /\ pc' = pc
    /\ path' = Front(path)
    /\ UNCHANGED <<tree, carry, dict>>

\* delete returns; an internal root left with no key gives way to its child.
EndDelete ==
    /\ Ready("deleted") /\ path = << >>
    /\ root' = IF ~nodes[root].leaf /\ nodes[root].keys = << >>
               THEN nodes[root].kids[1] ELSE root
    /\ size' = size - 1
    /\ EndCall
    /\ UNCHANGED <<nodes, pageCount, writes, dict>>

---------------------------------------------------------------------------
\* new: the root is an empty leaf on the first page.
Init ==
    /\ nodes = [p \in Pages |-> LeafNode(<< >>, << >>, None)]
    /\ pageCount = 1
    /\ root = 0
    /\ size = 0
    /\ pc = "idle" /\ path = << >> /\ at = 0 /\ carry = NoCarry /\ writes = << >>
    /\ dict = [k \in Keys |-> None]

Next ==
    \/ \E r \in Records : Insert(r)
    \/ \E k \in Keys : Delete(k)
    \/ WriteNode
    \/ SplitNode \/ AddToParent \/ NewRoot \/ EndInsert
    \/ ReturnToParent \/ EndDelete

Spec == Init /\ [][Next]_vars

---------------------------------------------------------------------------
(***************************************************************************)
(* Properties.                                                             *)
(***************************************************************************)
NodeSet ==
    [leaf : BOOLEAN, keys : Seq(Keys), kids : Seq(Pages), recs : Seq(Records),
     next : Pages \union {None}]

WellFormed(n) ==
    IF n.leaf THEN n.keys = [i \in DOMAIN n.recs |-> n.recs[i].key] /\ n.kids = << >>
              ELSE Len(n.kids) = Len(n.keys) + 1 /\ n.recs = << >>

\* The variables stay in their sets, and every node that is stored or queued
\* has the keys of its records, if it is a leaf, or a child more than it has keys.
TypeOK ==
    /\ nodes \in [Pages -> NodeSet]
    /\ \A p \in Pages : WellFormed(nodes[p])
    /\ \A i \in DOMAIN writes : WellFormed(writes[i].node)
    /\ pageCount \in 1 .. NumPages
    /\ root \in Pages
    /\ size \in Nat
    /\ pc \in {"idle", "inserted", "replaced", "split", "newRoot", "deleted", "panic"}
    /\ path \in Seq([page : Pages, pos : Nat \ {0}])
    /\ at \in Pages
    /\ carry \in [key : Keys \union {0}, page : Pages]
    /\ writes \in Seq([page : Pages, node : NodeSet])
    /\ dict \in [Keys -> Records \union {None}]

Present == {k \in Keys : dict[k] # None}

\* Between calls a search finds exactly the record last put under each key and
\* not deleted: splits, borrows and merges never send a key to a leaf where the
\* separators above do not lead (search, find_leaf).
SearchFindsAll == Idle => \A k \in Keys : Search(k) = dict[k]

\* Between calls range_search returns the records in the range, each once and in
\* the order of their keys, for every range: the chain of leaves that split and merge relink goes
\* through all leaves, in the order of their keys.
RangeFindsAll ==
    Idle => \A lo, hi \in Keys :
        LET found == RangeSearch(lo, hi)
        IN  /\ ToSet(found) = {dict[k] : k \in {i \in Present : lo <= i /\ i <= hi}}
            /\ \A i, j \in DOMAIN found : i < j => found[i].key < found[j].key

\* Between calls len() is the number of records, which is what scan_all goes
\* by when it decides that there is nothing to scan.
SizeCounts == Idle => size = Cardinality(Present) /\ Len(ScanAll) = size

\* The pages under a page, level by level: the last level is the leaves.
Levels ==
    LET level[h \in 0 .. NumPages] ==
          IF h = 0 THEN <<root>>
          ELSE FlattenSeq([i \in DOMAIN level[h - 1] |-> nodes[level[h - 1][i]].kids])
    IN  level

\* Between calls the tree has the shape its searches are fast by: the nodes of
\* a level are all leaves or all internal, no page is in it twice, no node has
\* more than Order children or fewer keys than rebalance tolerates, and a root
\* that has children has at least two (insert, delete, for an even order).
Balanced ==
    Idle => \A h \in 0 .. NumPages :
        LET level == Levels[h]
        IN  /\ \A i, j \in DOMAIN level : nodes[level[i]].leaf = nodes[level[j]].leaf
            /\ IsInjective(level)
            /\ \A p \in Range(level) : /\ p # root => ~Underfull(nodes[p])
                                       /\ p = root /\ ~nodes[p].leaf => Len(nodes[p].kids) > 1
                                       /\ Len(nodes[p].keys) < Order
                                       /\ p < pageCount

\* What new promises by accepting an order of 3 or more (an assertion guards
\* it): a tree of any such order never panics.
NeverPanics == pc # "panic"
=============================================================================
