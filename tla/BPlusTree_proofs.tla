--------------------------- MODULE BPlusTree_proofs ---------------------------
(***************************************************************************)
(* Proofs about BPlusTree, for every order, every set of records and every *)
(* number of pages.                                                        *)
(*                                                                         *)
(* Between two writes the stored nodes are no tree: a split has cut a node *)
(* its parent does not know of, a borrow has given a key to one sibling    *)
(* and not taken it from the other.  The invariant therefore speaks of the *)
(* nodes V as they will be once the queued writes, and the link a split    *)
(* owes its parent, are done.  They are a tree of the records of dict:     *)
(* there are pages R, a height h of each and the keys g that belong under  *)
(* each, such that every internal node divides its keys among children one *)
(* level down, every leaf holds the records of its own, and next_leaf      *)
(* leads from each leaf to the one whose keys come next (Tree).  The path  *)
(* leads from the root to the page changed last (Stacked), and a page is   *)
(* left for each node that may still split (Room).  Splits, borrows and    *)
(* merges are proved of the two nodes first, then of the tree around them. *)
(***************************************************************************)
EXTENDS BPlusTree, Queues_proofs, TLAPS

---------------------------------------------------------------------------
(***************************************************************************)
(* Sequences, as Vec keeps them.                                           *)
(***************************************************************************)
\* The part of a sequence that split_leaf and split_internal take.
LEMMA PartFacts ==
    ASSUME NEW T, NEW s \in Seq(T), NEW a \in 1 .. Len(s) + 1, NEW b \in 0 .. Len(s), a <= b + 1
    PROVE  /\ SubSeq(s, a, b) \in Seq(T) /\ Len(SubSeq(s, a, b)) = b - a + 1
           /\ DOMAIN SubSeq(s, a, b) = 1 .. b - a + 1
           /\ \A i \in 1 .. b - a + 1 : SubSeq(s, a, b)[i] = s[a + i - 1]
<1>1. Len(s) \in Nat /\ a \in Int /\ b \in Int /\ DOMAIN s = 1 .. Len(s)
  OBVIOUS
<1>2. \A i \in a .. b : s[i] \in T
  OBVIOUS
<1>3. SubSeq(s, a, b) \in Seq(T)
  BY <1>1, <1>2
<1>4. Len(SubSeq(s, a, b)) = b - a + 1
  BY <1>1
<1>5. \A i \in 1 .. b - a + 1 : SubSeq(s, a, b)[i] = s[a + i - 1]
  BY <1>1
<1> QED
  BY <1>3, <1>4, <1>5

\* Two sequences one after the other, as merge puts them.
LEMMA Joined ==
    ASSUME NEW T, NEW a \in Seq(T), NEW b \in Seq(T)
    PROVE  /\ a \o b \in Seq(T) /\ Len(a \o b) = Len(a) + Len(b)
           /\ DOMAIN (a \o b) = 1 .. Len(a) + Len(b)
           /\ \A i \in 1 .. Len(a) : (a \o b)[i] = a[i]
           /\ \A i \in Len(a) + 1 .. Len(a) + Len(b) : (a \o b)[i] = b[i - Len(a)]
  OBVIOUS

\* Vec::insert: what stood at the position and after it moves up by one.
LEMMA InsertFacts ==
    ASSUME NEW T, NEW s \in Seq(T), NEW n \in 1 .. Len(s) + 1, NEW e \in T
    PROVE  /\ InsertAt(s, n, e) \in Seq(T) /\ Len(InsertAt(s, n, e)) = Len(s) + 1
           /\ DOMAIN InsertAt(s, n, e) = 1 .. Len(s) + 1
           /\ \A i \in 1 .. n - 1 : InsertAt(s, n, e)[i] = s[i]
           /\ InsertAt(s, n, e)[n] = e
           /\ \A i \in n + 1 .. Len(s) + 1 : InsertAt(s, n, e)[i] = s[i - 1]
<1> DEFINE a == SubSeq(s, 1, n - 1)
           b == SubSeq(s, n, Len(s))
           c == a \o <<e>>
<1>1. Len(s) \in Nat /\ n - 1 \in 0 .. Len(s) /\ 1 \in 1 .. Len(s) + 1 /\ Len(s) \in 0 .. Len(s)
  OBVIOUS
<1>2. /\ a \in Seq(T) /\ Len(a) = n - 1 /\ \A i \in 1 .. n - 1 : a[i] = s[i]
  <2>1. \A i \in 1 .. n - 1 : 1 + i - 1 = i
    OBVIOUS
  <2> QED
    BY <1>1, <2>1, PartFacts
<1>3. b \in Seq(T) /\ Len(b) = Len(s) - n + 1 /\ \A i \in 1 .. Len(s) - n + 1 : b[i] = s[n + i - 1]
  BY <1>1, PartFacts
<1> HIDE DEF a, b
<1>4. <<e>> \in Seq(T) /\ Len(<<e>>) = 1 /\ <<e>>[1] = e
  OBVIOUS
<1>5. /\ c \in Seq(T) /\ Len(c) = n
      /\ \A i \in 1 .. n - 1 : c[i] = s[i]
      /\ c[n] = e
  <2>1. /\ c \in Seq(T) /\ Len(c) = Len(a) + 1
        /\ \A i \in 1 .. Len(a) : c[i] = a[i]
        /\ \A i \in Len(a) + 1 .. Len(a) + 1 : c[i] = <<e>>[i - Len(a)]
    BY <1>2, <1>4, Joined
  <2>2. n \in Len(a) + 1 .. Len(a) + 1 /\ n - Len(a) = 1 /\ Len(a) + 1 = n
    BY <1>1, <1>2
  <2> HIDE DEF c
  <2>3. c[n] = <<e>>[n - Len(a)]
    BY <2>1, <2>2
  <2> QED
    BY <1>2, <1>4, <2>1, <2>2, <2>3
<1> HIDE DEF c
<1>6. InsertAt(s, n, e) = c \o b
  BY DEF a, b, c, InsertAt
<1>7. /\ c \o b \in Seq(T) /\ Len(c \o b) = Len(s) + 1
      /\ \A i \in 1 .. n : (c \o b)[i] = c[i]
      /\ \A i \in n + 1 .. Len(s) + 1 : (c \o b)[i] = b[i - n]
  BY <1>1, <1>3, <1>5, Joined
<1>8. ASSUME NEW i \in n + 1 .. Len(s) + 1 PROVE (c \o b)[i] = s[i - 1]
  <2>1. i - n \in 1 .. Len(s) - n + 1 /\ n + (i - n) - 1 = i - 1
    BY <1>1
  <2> QED
    BY <1>3, <1>7, <2>1
<1> QED
  BY <1>1, <1>5, <1>6, <1>7, <1>8

\* Vec::remove: what stood after the position moves down by one.
LEMMA RemoveFacts ==
    ASSUME NEW T, NEW s \in Seq(T), NEW n \in 1 .. Len(s)
    PROVE  /\ RemoveAt(s, n) \in Seq(T) /\ Len(RemoveAt(s, n)) = Len(s) - 1
           /\ DOMAIN RemoveAt(s, n) = 1 .. Len(s) - 1
           /\ \A i \in 1 .. n - 1 : RemoveAt(s, n)[i] = s[i]
           /\ \A i \in n .. Len(s) - 1 : RemoveAt(s, n)[i] = s[i + 1]
<1> DEFINE a == SubSeq(s, 1, n - 1)
           b == SubSeq(s, n + 1, Len(s))
<1>1. /\ Len(s) \in Nat /\ n - 1 \in 0 .. Len(s) /\ 1 \in 1 .. Len(s) + 1 /\ Len(s) \in 0 .. Len(s)
      /\ n + 1 \in 1 .. Len(s) + 1 /\ n + 1 <= Len(s) + 1
  OBVIOUS
<1>2. /\ a \in Seq(T) /\ Len(a) = n - 1 /\ \A i \in 1 .. n - 1 : a[i] = s[i]
  <2>1. \A i \in 1 .. n - 1 : 1 + i - 1 = i
    OBVIOUS
  <2> QED
    BY <1>1, <2>1, PartFacts
<1>3. b \in Seq(T) /\ Len(b) = Len(s) - n /\ \A i \in 1 .. Len(s) - n : b[i] = s[n + i]
  <2> DEFINE m == n + 1
  <2>1. m \in 1 .. Len(s) + 1 /\ m <= Len(s) + 1 /\ Len(s) - m + 1 = Len(s) - n
    BY <1>1
  <2>2. \A i \in 1 .. Len(s) - n : m + i - 1 = n + i
    BY <1>1
  <2>3. b = SubSeq(s, m, Len(s))
    OBVIOUS
  <2> HIDE DEF m, b
  <2>4. /\ SubSeq(s, m, Len(s)) \in Seq(T) /\ Len(SubSeq(s, m, Len(s))) = Len(s) - m + 1
        /\ \A i \in 1 .. Len(s) - m + 1 : SubSeq(s, m, Len(s))[i] = s[m + i - 1]
    BY <1>1, <2>1, PartFacts
  <2> QED
    BY <2>1, <2>2, <2>3, <2>4
<1> HIDE DEF a, b
<1>6. RemoveAt(s, n) = a \o b
  BY DEF a, b, RemoveAt
<1>7. /\ a \o b \in Seq(T) /\ Len(a \o b) = Len(s) - 1
      /\ \A i \in 1 .. n - 1 : (a \o b)[i] = a[i]
      /\ \A i \in n .. Len(s) - 1 : (a \o b)[i] = b[i - (n - 1)]
  <2>1. /\ a \o b \in Seq(T) /\ Len(a \o b) = Len(a) + Len(b)
        /\ \A i \in 1 .. Len(a) : (a \o b)[i] = a[i]
        /\ \A i \in Len(a) + 1 .. Len(a) + Len(b) : (a \o b)[i] = b[i - Len(a)]
    <3>1. a \in Seq(T) /\ b \in Seq(T)
      BY <1>2, <1>3
    <3> HIDE DEF a, b
    <3> QED
      BY ONLY <3>1, Joined
  <2>2. Len(a) = n - 1 /\ Len(b) = Len(s) - n
    BY <1>2, <1>3
  <2> QED
    BY <1>1, <2>1, <2>2
<1>8. ASSUME NEW i \in n .. Len(s) - 1 PROVE (a \o b)[i] = s[i + 1]
  <2>1. i - (n - 1) \in 1 .. Len(s) - n /\ n + (i - (n - 1)) = i + 1
    BY <1>1
  <2> QED
    BY <1>3, <1>7, <2>1
<1> QED
  BY <1>1, <1>2, <1>6, <1>7, <1>8

---------------------------------------------------------------------------
(***************************************************************************)
(* Keys and slots.                                                         *)
(***************************************************************************)
\* Keys in ascending order, each once.
Sorted(a) == \A i, j \in DOMAIN a : i < j => a[i] < a[j]
\* The keys that belong under child i of a node with the separators a.
Slot(a, i) == {k \in Int : (i > 1 => a[i - 1] <= k) /\ (i <= Len(a) => k < a[i])}

\* A set of positions closed downwards is as long as it has members.
LEMMA PrefixSize ==
    ASSUME NEW n \in Nat, NEW S \in SUBSET (1 .. n), \A i \in S : \A j \in 1 .. i : j \in S
    PROVE  Cardinality(S) \in 0 .. n /\ S = 1 .. Cardinality(S)
<1>1. PICK m \in 0 .. n : S = 1 .. m
  <2>1. CASE S = {}
    <3>1. S = 1 .. 0 /\ 0 \in 0 .. n
      BY <2>1
    <3> QED
      BY <3>1
  <2>2. CASE S # {}
    <3> DEFINE Above == {i \in 1 .. n + 1 : i \notin S}
    <3>1. n + 1 \in Above /\ Above \subseteq Nat
      OBVIOUS
    <3>2. PICK a \in Above : \A i \in Above : a <= i
      BY <3>1, LeastElement
    <3>3. a \in 1 .. n + 1 /\ a \notin S /\ a - 1 \in 0 .. n
      BY <3>2
    <3>4. \A i \in 1 .. a - 1 : i \in S
      <4> TAKE i \in 1 .. a - 1
      <4>1. i \in 1 .. n + 1 /\ ~(a <= i)
        BY <3>3
      <4> QED
        BY <4>1, <3>2
    <3>5. \A i \in S : i \in 1 .. a - 1
      <4> TAKE i \in S
      <4>1. i \in 1 .. n /\ (a <= i => a \in 1 .. i)
        BY <3>3
      <4> QED
        BY <3>3, <4>1
    <3>6. S = 1 .. a - 1
      BY <3>4, <3>5
    <3> QED
      BY <3>3, <3>6
  <2> QED
    BY <2>1, <2>2
<1>2. m \in Nat
  OBVIOUS
<1>3. Cardinality(S) = m
  BY <1>1, <1>2, IntervalCardinality
<1> QED
  BY <1>1, <1>3

\* partition_point on sorted keys divides them: up to it they satisfy the condition.
LEMMA CountFacts ==
    ASSUME NEW n, n.keys \in Seq(Int), Sorted(n.keys), NEW k \in Int
    PROVE  /\ CountUpTo(n, k) \in 0 .. Len(n.keys)
           /\ \A i \in 1 .. Len(n.keys) : n.keys[i] <= k <=> i <= CountUpTo(n, k)
           /\ CountBelow(n, k) \in 0 .. Len(n.keys)
           /\ \A i \in 1 .. Len(n.keys) : n.keys[i] < k <=> i <= CountBelow(n, k)
<1> DEFINE a == n.keys  l == Len(n.keys)
           U == {i \in 1 .. l : a[i] <= k}
           B == {i \in 1 .. l : a[i] < k}
<1>1. l \in Nat /\ DOMAIN n.keys = 1 .. l /\ \A i \in 1 .. l : a[i] \in Int
  OBVIOUS
<1>2. \A i, j \in 1 .. l : i < j => a[i] < a[j]
  BY <1>1 DEF Sorted
<1>3. CountUpTo(n, k) = Cardinality(U) /\ CountBelow(n, k) = Cardinality(B)
  BY <1>1 DEF CountUpTo, CountBelow
<1> HIDE DEF a, l
<1>4. U \in SUBSET (1 .. l) /\ \A i \in U : \A j \in 1 .. i : j \in U
  BY <1>1, <1>2
<1>5. B \in SUBSET (1 .. l) /\ \A i \in B : \A j \in 1 .. i : j \in B
  BY <1>1, <1>2
<1>6. Cardinality(U) \in 0 .. l /\ U = 1 .. Cardinality(U)
  BY <1>1, <1>4, PrefixSize
<1>7. Cardinality(B) \in 0 .. l /\ B = 1 .. Cardinality(B)
  BY <1>1, <1>5, PrefixSize
<1>8. \A i \in 1 .. l : (a[i] <= k <=> i \in U) /\ (a[i] < k <=> i \in B)
  OBVIOUS
<1> HIDE DEF U, B
<1>9. \A i \in 1 .. l : (a[i] <= k <=> i <= Cardinality(U)) /\ (a[i] < k <=> i <= Cardinality(B))
  BY <1>1, <1>6, <1>7, <1>8
<1> QED
  BY <1>3, <1>6, <1>7, <1>9 DEF a, l

\* How a key is known to belong under a child.
LEMMA SlotMember ==
    ASSUME NEW a, NEW i, NEW k \in Int, i > 1 => a[i - 1] <= k, i <= Len(a) => k < a[i]
    PROVE  k \in Slot(a, i)
  BY DEF Slot

\* The child a descent takes is the one whose slot the key is in.
LEMMA ChildFacts ==
    ASSUME NEW n, n.keys \in Seq(Int), Sorted(n.keys), NEW k \in Int
    PROVE  /\ ChildPos(n, k) \in 1 .. Len(n.keys) + 1
           /\ k \in Slot(n.keys, ChildPos(n, k))
<1>1. /\ CountUpTo(n, k) \in 0 .. Len(n.keys)
      /\ \A i \in 1 .. Len(n.keys) : n.keys[i] <= k <=> i <= CountUpTo(n, k)
  BY CountFacts
<1>2. Len(n.keys) \in Nat /\ \A i \in 1 .. Len(n.keys) : n.keys[i] \in Int
  OBVIOUS
<1> DEFINE i == CountUpTo(n, k) + 1  a == n.keys
<1>3. ChildPos(n, k) = i /\ i \in 1 .. Len(a) + 1
  BY <1>1, <1>2 DEF ChildPos
<1>4. i > 1 => i - 1 \in 1 .. Len(a) /\ a[i - 1] <= k
  BY <1>1, <1>2
<1>5. i <= Len(a) => i \in 1 .. Len(a) /\ ~(a[i] <= k) /\ k < a[i]
  BY <1>1, <1>2
<1> HIDE DEF i, a
<1>6. k \in Slot(a, i)
  BY <1>4, <1>5, SlotMember
<1> QED
  BY <1>3, <1>6 DEF a

\* A node with separators a and children c divides the key set S among children
\* of C: child i has, in g, the part of S that its slot leaves.
Branches(a, c, S, C, g) ==
    /\ a \in Seq(Keys) /\ c \in Seq(Pages) /\ Len(c) = Len(a) + 1
    /\ Sorted(a) /\ \A i \in 1 .. Len(a) : a[i] \in S
    /\ \A i \in 1 .. Len(c) :
          c[i] \in C /\ \A k \in Int : k \in g[c[i]] <=> k \in S /\ k \in Slot(a, i)

\* S cut in two at a key.
Below(S, e) == {k \in S : k < e}
From(S, e)  == {k \in S : e <= k}

\* Keys are integers, so the order of the code is the one of the numbers.
LEMMA KeysInt == Keys \subseteq Int
  BY RecordsAssumption DEF Keys

\* Membership of a slot, for a solver that does not expand it.
LEMMA SlotIn ==
    ASSUME NEW a, NEW i, NEW k \in Int
    PROVE  k \in Slot(a, i) <=> /\ i > 1 => a[i - 1] <= k
                                /\ i <= Len(a) => k < a[i]
  BY DEF Slot

\* What sorted separators say of two positions.
LEMMA SortedIn ==
    ASSUME NEW a \in Seq(Keys), Sorted(a)
    PROVE  /\ Len(a) \in Nat /\ DOMAIN a = 1 .. Len(a)
           /\ \A i \in 1 .. Len(a) : a[i] \in Keys /\ a[i] \in Int
           /\ \A i, j \in 1 .. Len(a) : i < j => a[i] < a[j]
           /\ \A i, j \in 1 .. Len(a) : i <= j => a[i] <= a[j]
<1>1. /\ Len(a) \in Nat /\ DOMAIN a = 1 .. Len(a) /\ \A i \in 1 .. Len(a) : a[i] \in Keys
  OBVIOUS
<1>2. \A i \in 1 .. Len(a) : a[i] \in Int
  BY <1>1, KeysInt
<1>3. \A i, j \in 1 .. Len(a) : i < j => a[i] < a[j]
  BY <1>1 DEF Sorted
<1>4. \A i, j \in 1 .. Len(a) : i <= j => i < j \/ i = j
  BY <1>1
<1>5. \A i, j \in 1 .. Len(a) : i <= j => a[i] <= a[j]
  BY <1>2, <1>3, <1>4
<1> QED
  BY <1>1, <1>2, <1>3, <1>5

\* A node of children cut at one of its keys.
LEMMA BranchCutLeft ==
    ASSUME NEW a, NEW c, NEW S, NEW C, NEW g, Branches(a, c, S, C, g), NEW n \in 1 .. Len(a)
    PROVE  Branches(SubSeq(a, 1, n - 1), SubSeq(c, 1, n), Below(S, a[n]), C, g)
<1>1. /\ a \in Seq(Keys) /\ c \in Seq(Pages) /\ Len(c) = Len(a) + 1 /\ Sorted(a)
      /\ \A i \in 1 .. Len(a) : a[i] \in S
      /\ \A i \in 1 .. Len(c) :
            c[i] \in C /\ \A k \in Int : k \in g[c[i]] <=> k \in S /\ k \in Slot(a, i)
  BY DEF Branches
<1>2. /\ Len(a) \in Nat /\ \A i \in 1 .. Len(a) : a[i] \in Int
      /\ \A i, j \in 1 .. Len(a) : i < j => a[i] < a[j]
      /\ \A i, j \in 1 .. Len(a) : i <= j => a[i] <= a[j]
  BY <1>1, SortedIn
<1> DEFINE b == SubSeq(a, 1, n - 1)  e == SubSeq(c, 1, n)  l == Len(a)
<1>3. b \in Seq(Keys) /\ Len(b) = n - 1 /\ \A i \in 1 .. n - 1 : b[i] = a[i]
  <2>1. /\ 1 \in 1 .. Len(a) + 1 /\ n - 1 \in 0 .. Len(a) /\ n - 1 - 1 + 1 = n - 1 /\ 1 <= n - 1 + 1
        /\ \A i \in 1 .. n - 1 : 1 + i - 1 = i
    BY <1>2
  <2> QED
    BY <1>1, <2>1, PartFacts
<1>4. e \in Seq(Pages) /\ Len(e) = n /\ \A i \in 1 .. n : e[i] = c[i]
  <2>1. /\ 1 \in 1 .. Len(c) + 1 /\ n \in 0 .. Len(c) /\ n - 1 + 1 = n /\ 1 <= n + 1
        /\ \A i \in 1 .. n : 1 + i - 1 = i
    BY <1>1, <1>2
  <2> QED
    BY <1>1, <2>1, PartFacts
<1> HIDE DEF b, e
<1>5. Sorted(b)
  <2>1. DOMAIN b = 1 .. n - 1
    BY <1>3
  <2> QED
    BY <1>2, <1>3, <2>1 DEF Sorted
<1>6. \A i \in 1 .. Len(b) : b[i] \in Below(S, a[n])
  <2> TAKE i \in 1 .. Len(b)
  <2>1. b[i] = a[i] /\ i \in 1 .. Len(a) /\ i < n
    BY <1>2, <1>3
  <2> QED
    BY <1>1, <1>2, <2>1 DEF Below
<1>7. ASSUME NEW i \in 1 .. n, NEW k \in Int
      PROVE  k \in g[e[i]] <=> k \in Below(S, a[n]) /\ k \in Slot(b, i)
  <2>1. k \in g[e[i]] <=> k \in S /\ k \in Slot(a, i)
    BY <1>1, <1>2, <1>4
  <2>2. k \in Slot(a, i) <=> (i > 1 => a[i - 1] <= k) /\ k < a[i]
    BY <1>2, SlotIn
  <2>3. k \in Slot(b, i) <=> (i > 1 => a[i - 1] <= k) /\ (i <= n - 1 => k < a[i])
    <3>1. i > 1 => b[i - 1] = a[i - 1]
      BY <1>3
    <3>2. i <= n - 1 => b[i] = a[i]
      BY <1>3
    <3> QED
      BY <1>3, <3>1, <3>2, SlotIn
  <2>4. k \in Below(S, a[n]) <=> k \in S /\ k < a[n]
    BY DEF Below
  <2>5. a[i] <= a[n] /\ (i <= n - 1 \/ i = n) /\ a[i] \in Int /\ a[n] \in Int
    BY <1>2
  <2>6. k < a[i] <=> k < a[n] /\ (i <= n - 1 => k < a[i])
    BY <2>5
  <2> QED
    BY <2>1, <2>2, <2>3, <2>4, <2>6
<1>8. \A i \in 1 .. n : e[i] \in C
  BY <1>1, <1>2, <1>4
<1>9. Branches(b, e, Below(S, a[n]), C, g)
  BY <1>2, <1>3, <1>4, <1>5, <1>6, <1>7, <1>8 DEF Branches
<1> QED
  BY <1>9 DEF b, e

\* The right half of a node divides the keys from the separator on that went up.
LEMMA BranchCutRight ==
    ASSUME NEW a, NEW c, NEW S, NEW C, NEW g, Branches(a, c, S, C, g), NEW n \in 1 .. Len(a)
    PROVE  Branches(SubSeq(a, n + 1, Len(a)), SubSeq(c, n + 1, Len(c)), From(S, a[n]), C, g)
<1>1. /\ a \in Seq(Keys) /\ c \in Seq(Pages) /\ Len(c) = Len(a) + 1 /\ Sorted(a)
      /\ \A i \in 1 .. Len(a) : a[i] \in S
      /\ \A i \in 1 .. Len(c) :
            c[i] \in C /\ \A k \in Int : k \in g[c[i]] <=> k \in S /\ k \in Slot(a, i)
  BY DEF Branches
<1>2. /\ Len(a) \in Nat /\ \A i \in 1 .. Len(a) : a[i] \in Int
      /\ \A i, j \in 1 .. Len(a) : i < j => a[i] < a[j]
      /\ \A i, j \in 1 .. Len(a) : i <= j => a[i] <= a[j]
  BY <1>1, SortedIn
<1> DEFINE m == n + 1  b == SubSeq(a, m, Len(a))  e == SubSeq(c, m, Len(c))
<1>m. m \in 1 .. Len(a) + 1 /\ m \in 1 .. Len(c) + 1 /\ m <= Len(a) + 1 /\ m <= Len(c) + 1 /\ m = n + 1
  BY <1>1, <1>2
<1> HIDE DEF m
<1>3. b \in Seq(Keys) /\ Len(b) = Len(a) - n /\ \A i \in 1 .. Len(a) - n : b[i] = a[i + n]
  <2>1. /\ Len(a) \in 0 .. Len(a) /\ Len(a) - m + 1 = Len(a) - n
        /\ \A i \in 1 .. Len(a) - n : m + i - 1 = i + n
    BY <1>2, <1>m
  <2>2. /\ b \in Seq(Keys) /\ Len(b) = Len(a) - m + 1
        /\ \A i \in 1 .. Len(a) - m + 1 : b[i] = a[m + i - 1]
    <3>1. a \in Seq(Keys) /\ m \in 1 .. Len(a) + 1 /\ Len(a) \in 0 .. Len(a) /\ m <= Len(a) + 1
      BY <1>1, <1>m, <2>1
    <3> QED
      BY ONLY <3>1, PartFacts
  <2> HIDE DEF b
  <2> QED
    BY <2>1, <2>2
<1>4. e \in Seq(Pages) /\ Len(e) = Len(a) - n + 1 /\ \A i \in 1 .. Len(a) - n + 1 : e[i] = c[i + n]
  <2>1. /\ Len(c) \in 0 .. Len(c) /\ Len(c) - m + 1 = Len(a) - n + 1
        /\ \A i \in 1 .. Len(a) - n + 1 : m + i - 1 = i + n
    BY <1>1, <1>2, <1>m
  <2> QED
    BY <1>1, <1>m, <2>1, PartFacts
<1> HIDE DEF b, e
<1>5. Sorted(b)
  <2>1. DOMAIN b = 1 .. Len(a) - n
    BY <1>3
  <2>2. \A i \in 1 .. Len(a) - n : i + n \in 1 .. Len(a)
    BY <1>2
  <2>3. \A i, j \in 1 .. Len(a) - n : i < j => i + n < j + n
    BY <1>2
  <2> QED
    BY <1>2, <1>3, <2>1, <2>2, <2>3 DEF Sorted
<1>6. \A i \in 1 .. Len(b) : b[i] \in From(S, a[n])
  <2> TAKE i \in 1 .. Len(b)
  <2>1. b[i] = a[i + n] /\ i + n \in 1 .. Len(a) /\ n <= i + n
    BY <1>2, <1>3
  <2> QED
    BY <1>1, <1>2, <2>1 DEF From
<1>7. ASSUME NEW i \in 1 .. Len(a) - n + 1, NEW k \in Int
      PROVE  k \in g[e[i]] <=> k \in From(S, a[n]) /\ k \in Slot(b, i)
  <2> DEFINE j == i + n
  <2>0. j \in 1 .. Len(c) /\ j > 1 /\ j - 1 \in 1 .. Len(a) /\ n <= j - 1 /\ (i > 1 <=> n # j - 1)
    BY <1>1, <1>2
  <2>1. k \in g[e[i]] <=> k \in S /\ k \in Slot(a, j)
    BY <1>1, <1>4, <2>0
  <2>2. k \in Slot(a, j) <=> a[j - 1] <= k /\ (j <= Len(a) => k < a[j])
    <3> HIDE DEF j
    <3> QED
      BY <2>0, SlotIn
  <2>3. k \in Slot(b, i) <=> (i > 1 => a[j - 1] <= k) /\ (j <= Len(a) => k < a[j])
    <3>1. i > 1 => i - 1 \in 1 .. Len(a) - n /\ (i - 1) + n = j - 1
      BY <1>2
    <3>2. i <= Len(b) <=> j <= Len(a)
      BY <1>2, <1>3
    <3>3. i <= Len(b) => b[i] = a[j]
      BY <1>2, <1>3
    <3>4. i > 1 => b[i - 1] = a[j - 1]
      BY <1>3, <3>1
    <3> HIDE DEF j
    <3> QED
      BY <3>2, <3>3, <3>4, SlotIn
  <2>4. k \in From(S, a[n]) <=> k \in S /\ a[n] <= k
    BY DEF From
  <2> HIDE DEF j
  <2>5. a[n] <= a[j - 1] /\ a[j - 1] \in Int /\ a[n] \in Int
    BY <1>2, <2>0
  <2>6. a[j - 1] <= k <=> a[n] <= k /\ (i > 1 => a[j - 1] <= k)
    BY <2>0, <2>5
  <2> QED
    BY <2>1, <2>2, <2>3, <2>4, <2>6
<1>8. \A i \in 1 .. Len(a) - n + 1 : e[i] \in C
  <2> TAKE i \in 1 .. Len(a) - n + 1
  <2>1. i + n \in 1 .. Len(c)
    BY <1>1, <1>2
  <2> QED
    BY <1>1, <1>4, <2>1
<1>9. Branches(b, e, From(S, a[n]), C, g)
  BY <1>2, <1>3, <1>4, <1>5, <1>6, <1>7, <1>8 DEF Branches
<1> QED
  BY <1>9 DEF b, e, m

\* What a node that divides its keys looks like, position by position.
LEMMA BranchFacts ==
    ASSUME NEW a, NEW c, NEW S, NEW C, NEW g, Branches(a, c, S, C, g)
    PROVE  /\ a \in Seq(Keys) /\ c \in Seq(Pages) /\ Len(c) = Len(a) + 1 /\ Sorted(a)
           /\ Len(a) \in Nat /\ \A i \in 1 .. Len(a) : a[i] \in S /\ a[i] \in Keys /\ a[i] \in Int
           /\ \A i, j \in 1 .. Len(a) : i < j => a[i] < a[j]
           /\ \A i, j \in 1 .. Len(a) : i <= j => a[i] <= a[j]
           /\ \A i \in 1 .. Len(c) : c[i] \in C /\ c[i] \in Pages
           /\ \A i \in 1 .. Len(c) : \A k \in Int :
                 k \in g[c[i]] <=> /\ k \in S
                                   /\ i > 1 => a[i - 1] <= k
                                   /\ i <= Len(a) => k < a[i]
<1>1. /\ a \in Seq(Keys) /\ c \in Seq(Pages) /\ Len(c) = Len(a) + 1 /\ Sorted(a)
      /\ \A i \in 1 .. Len(a) : a[i] \in S
      /\ \A i \in 1 .. Len(c) :
            c[i] \in C /\ \A k \in Int : k \in g[c[i]] <=> k \in S /\ k \in Slot(a, i)
  BY DEF Branches
<1>2. /\ Len(a) \in Nat /\ \A i \in 1 .. Len(a) : a[i] \in Keys /\ a[i] \in Int
      /\ \A i, j \in 1 .. Len(a) : i < j => a[i] < a[j]
      /\ \A i, j \in 1 .. Len(a) : i <= j => a[i] <= a[j]
  BY <1>1, SortedIn
<1>3. \A i \in 1 .. Len(c) : c[i] \in Pages
  BY <1>1
<1>4. \A i \in 1 .. Len(c) : \A k \in Int :
         k \in g[c[i]] <=> k \in S /\ (i > 1 => a[i - 1] <= k) /\ (i <= Len(a) => k < a[i])
  BY <1>1, SlotIn
<1> QED
  BY <1>1, <1>2, <1>3, <1>4

\* A node that looks like that divides its keys.
LEMMA BranchesMade ==
    ASSUME NEW a \in Seq(Keys), NEW c \in Seq(Pages), Len(c) = Len(a) + 1, NEW S, NEW C, NEW g,
           \A i, j \in 1 .. Len(a) : i < j => a[i] < a[j],
           \A i \in 1 .. Len(a) : a[i] \in S,
           \A i \in 1 .. Len(c) : c[i] \in C,
           \A i \in 1 .. Len(c) : \A k \in Int :
                 k \in g[c[i]] <=> /\ k \in S
                                   /\ i > 1 => a[i - 1] <= k
                                   /\ i <= Len(a) => k < a[i]
    PROVE  Branches(a, c, S, C, g)
<1>1. Sorted(a)
  <2>1. DOMAIN a = 1 .. Len(a)
    OBVIOUS
  <2> QED
    BY <2>1 DEF Sorted
<1>2. \A i \in 1 .. Len(c) : \A k \in Int : k \in g[c[i]] <=> k \in S /\ k \in Slot(a, i)
  BY SlotIn
<1> QED
  BY <1>1, <1>2 DEF Branches

\* Two nodes of children joined around a key.
LEMMA BranchJoin ==
    ASSUME NEW a, NEW c, NEW S, NEW b, NEW e, NEW T, NEW C, NEW g,
           Branches(a, c, S, C, g), Branches(b, e, T, C, g),
           NEW x \in Keys, x \in T, \A k \in S \cap Int : k < x, \A k \in T \cap Int : x <= k,
           NEW y \in Int, y \in g[e[1]]
    PROVE  Branches(a \o <<x>> \o b, c \o e, S \union T, C, g)
<1>0. x \in Int
  BY KeysInt
<1>1. /\ a \in Seq(Keys) /\ c \in Seq(Pages) /\ Len(c) = Len(a) + 1
      /\ Len(a) \in Nat /\ \A i \in 1 .. Len(a) : a[i] \in S /\ a[i] \in Keys /\ a[i] \in Int
      /\ \A i, j \in 1 .. Len(a) : i < j => a[i] < a[j]
      /\ \A i \in 1 .. Len(c) : c[i] \in C
      /\ \A i \in 1 .. Len(c) : \A k \in Int :
            k \in g[c[i]] <=> k \in S /\ (i > 1 => a[i - 1] <= k) /\ (i <= Len(a) => k < a[i])
  BY BranchFacts
<1>2. /\ b \in Seq(Keys) /\ e \in Seq(Pages) /\ Len(e) = Len(b) + 1
      /\ Len(b) \in Nat /\ \A i \in 1 .. Len(b) : b[i] \in T /\ b[i] \in Keys /\ b[i] \in Int
      /\ \A i, j \in 1 .. Len(b) : i < j => b[i] < b[j]
      /\ \A i \in 1 .. Len(e) : e[i] \in C
      /\ \A i \in 1 .. Len(e) : \A k \in Int :
            k \in g[e[i]] <=> k \in T /\ (i > 1 => b[i - 1] <= k) /\ (i <= Len(b) => k < b[i])
  BY BranchFacts
<1> DEFINE l == Len(a)  m == Len(b)  n == l + 1  ax == a \o <<x>>  u == ax \o b  v == c \o e
<1>6. l \in Nat /\ m \in Nat /\ n \in Nat /\ n = l + 1 /\ Len(c) = n /\ Len(e) = m + 1
  BY <1>1, <1>2
<1>3. ax \in Seq(Keys) /\ Len(ax) = n /\ (\A i \in 1 .. l : ax[i] = a[i]) /\ ax[n] = x
  BY <1>1
<1> HIDE DEF ax, n
<1>4. /\ u \in Seq(Keys) /\ Len(u) = n + m
      /\ \A i \in 1 .. n : u[i] = ax[i]
      /\ \A i \in n + 1 .. n + m : u[i] = b[i - n]
  <2>0. ax \in Seq(Keys) /\ b \in Seq(Keys)
    BY <1>2, <1>3
  <2>1. /\ u \in Seq(Keys) /\ Len(u) = Len(ax) + Len(b)
        /\ \A i \in 1 .. Len(ax) : u[i] = ax[i]
        /\ \A i \in Len(ax) + 1 .. Len(ax) + Len(b) : u[i] = b[i - Len(ax)]
    BY <2>0, Joined
  <2> HIDE DEF u
  <2> QED
    BY <1>3, <2>1
<1>5. /\ v \in Seq(Pages) /\ Len(v) = n + m + 1
      /\ \A i \in 1 .. n : v[i] = c[i]
      /\ \A i \in n + 1 .. n + m + 1 : v[i] = e[i - n]
  <2>1. /\ v \in Seq(Pages) /\ Len(v) = Len(c) + Len(e)
        /\ \A i \in 1 .. Len(c) : v[i] = c[i]
        /\ \A i \in Len(c) + 1 .. Len(c) + Len(e) : v[i] = e[i - Len(c)]
    BY <1>1, <1>2, Joined
  <2>2. n + (m + 1) = n + m + 1
    BY <1>6
  <2> HIDE DEF v, m
  <2> QED
    BY <1>6, <2>1, <2>2
<1> HIDE DEF u, v, l, m
<1>7. \A i \in 1 .. l : u[i] = a[i]
  BY <1>3, <1>4, <1>6
<1>8. u[n] = x
  BY <1>3, <1>4, <1>6
<1>9. \A i \in 1 .. Len(u) : i < n \/ i = n \/ i > n
  BY <1>4, <1>6
<1>10. \A i \in 1 .. Len(u) : i > n => i - n \in 1 .. m /\ u[i] = b[i - n]
  BY <1>4, <1>6
<1>11. \A i \in 1 .. Len(u) : u[i] \in S \union T /\ u[i] \in Int
  <2> TAKE i \in 1 .. Len(u)
  <2>1. CASE i < n
    BY <1>1, <1>6, <1>7, <2>1 DEF l
  <2>2. CASE i = n
    BY <1>0, <1>8, <2>2
  <2>3. CASE i > n
    BY <1>2, <1>10, <2>3 DEF m
  <2> QED
    BY <1>9, <2>1, <2>2, <2>3
<1>12. ASSUME NEW i \in 1 .. Len(u), NEW j \in 1 .. Len(u), i < j PROVE u[i] < u[j]
  <2>1. \A q \in 1 .. Len(u) : q < n => u[q] < x
    BY <1>1, <1>6, <1>7 DEF l
  <2>2. \A q \in 1 .. Len(u) : q > n => x <= u[q] /\ x \in Int
    BY <1>0, <1>2, <1>10 DEF m
  <2>3. CASE j < n
    <3>1. i \in 1 .. l /\ j \in 1 .. l
      BY <1>6, <1>12, <2>3
    <3> QED
      BY <1>1, <1>7, <1>12, <3>1 DEF l
  <2>4. CASE i > n
    <3>1. /\ i - n \in 1 .. m /\ j - n \in 1 .. m /\ i - n < j - n
          /\ u[i] = b[i - n] /\ u[j] = b[j - n]
      BY <1>6, <1>10, <1>12, <2>4
    <3> QED
      BY <1>2, <3>1 DEF m
  <2>5. CASE i < n /\ j = n
    BY <1>8, <2>1, <2>5
  <2>6. CASE i < n /\ j > n
    BY <1>0, <1>11, <2>1, <2>2, <2>6
  <2>7. CASE i = n
    <3>1. j - n \in 1 .. m /\ u[j] = b[j - n] /\ j > n
      BY <1>6, <1>10, <1>12, <2>7
    <3>2. y \in T /\ y < b[1] /\ b[1] \in Int /\ 1 \in 1 .. m
      <4>1. 1 \in 1 .. Len(e) /\ 1 <= m /\ 1 \in 1 .. m
        BY <1>2, <3>1 DEF m
      <4> QED
        BY <1>2, <4>1 DEF m
    <3>3. b[1] <= b[j - n]
      <4>1. 1 < j - n \/ 1 = j - n
        BY <3>1
      <4> QED
        BY <1>2, <3>1, <3>2, <4>1 DEF m
    <3>4. x <= y
      BY <3>2
    <3>5. x < u[j]
      BY <1>0, <1>11, <3>1, <3>2, <3>3, <3>4
    <3> QED
      BY <1>8, <2>7, <3>5
  <2> QED
    BY <1>6, <1>9, <1>12, <2>3, <2>4, <2>5, <2>6, <2>7
<1>13. \A i \in 1 .. Len(v) : i < n \/ i = n \/ i > n
  BY <1>5, <1>6
<1>14. \A i \in 1 .. Len(v) : v[i] \in C
  <2> TAKE i \in 1 .. Len(v)
  <2>1. CASE i <= n
    BY <1>1, <1>5, <1>6, <2>1 DEF l
  <2>2. CASE i > n
    <3>1. i \in n + 1 .. n + m + 1 /\ i - n \in 1 .. Len(e)
      BY <1>2, <1>5, <1>6, <2>2 DEF m
    <3> QED
      BY <1>2, <1>5, <3>1
  <2> QED
    BY <1>6, <2>1, <2>2
<1>15. ASSUME NEW i \in 1 .. Len(v), NEW k \in Int
       PROVE  k \in g[v[i]] <=> /\ k \in S \union T
                                /\ i > 1 => u[i - 1] <= k
                                /\ i <= Len(u) => k < u[i]
  <2>1. CASE i < n
    <3>1. i \in 1 .. n /\ i \in 1 .. l /\ i \in 1 .. Len(c) /\ i <= Len(a) /\ i <= Len(u)
      BY <1>1, <1>4, <1>6, <2>1 DEF l
    <3>2. v[i] = c[i] /\ u[i] = a[i] /\ (i > 1 => i - 1 \in 1 .. l /\ u[i - 1] = a[i - 1])
      BY <1>5, <1>6, <1>7, <3>1
    <3>3. k \in g[v[i]] <=> k \in S /\ (i > 1 => u[i - 1] <= k) /\ k < u[i]
      BY <1>1, <3>1, <3>2
    <3>4. k \in T => ~(k < u[i])
      <4>1. a[i] < x /\ a[i] \in Int
        BY <1>1, <3>1
      <4> QED
        BY <1>0, <3>2, <4>1
    <3> QED
      BY <3>1, <3>3, <3>4
  <2>2. CASE i = n
    <3>1. i \in 1 .. n /\ i = Len(c) /\ i \in 1 .. Len(c) /\ ~(i <= Len(a)) /\ i <= Len(u)
      BY <1>1, <1>4, <1>6, <2>2 DEF l
    <3>2. v[i] = c[i] /\ u[i] = x /\ (i > 1 => i - 1 \in 1 .. l /\ u[i - 1] = a[i - 1])
      BY <1>5, <1>6, <1>7, <1>8, <2>2, <3>1
    <3>3. k \in g[v[i]] <=> k \in S /\ (i > 1 => u[i - 1] <= k)
      BY <1>1, <3>1, <3>2
    <3>4. (k \in T => ~(k < x)) /\ (k \in S => k < x)
      BY <1>0
    <3> QED
      BY <3>1, <3>2, <3>3, <3>4
  <2>3. CASE i > n
    <3> DEFINE j == i - n
    <3>1. /\ i \in n + 1 .. n + m + 1 /\ j \in 1 .. Len(e) /\ i > 1
          /\ (i <= Len(u) <=> j <= Len(b)) /\ i - 1 \in 1 .. Len(u) /\ i - 1 >= n
      BY <1>2, <1>4, <1>5, <1>6, <2>3 DEF m
    <3>2. v[i] = e[j]
      BY <1>5, <3>1
    <3>3. i <= Len(u) => u[i] = b[j]
      BY <1>4, <1>6, <1>10, <2>3, <3>1
    <3>4. j > 1 => u[i - 1] = b[j - 1]
      <4>1. ASSUME j > 1 PROVE i - 1 > n /\ (i - 1) - n = j - 1
        BY <1>6, <4>1
      <4> QED
        BY <1>10, <3>1, <4>1
    <3>5. ~(j > 1) => u[i - 1] = x
      <4>1. ASSUME ~(j > 1) PROVE i - 1 = n
        BY <1>6, <3>1, <4>1
      <4> QED
        BY <1>8, <4>1
    <3>6. \/ j > 1 /\ j - 1 \in 1 .. Len(b) /\ b[j - 1] \in Int /\ x <= b[j - 1]
          \/ ~(j > 1)
      BY <1>2, <3>1
    <3>7. (k \in T => x <= k) /\ (k \in S => k < x)
      OBVIOUS
    <3> HIDE DEF j
    <3>8. k \in g[v[i]] <=> k \in T /\ (j > 1 => b[j - 1] <= k) /\ (j <= Len(b) => k < b[j])
      BY <1>2, <3>1, <3>2
    <3>9. k \in T /\ (j > 1 => b[j - 1] <= k) <=> (k \in S \/ k \in T) /\ u[i - 1] <= k
      BY <1>0, <3>4, <3>5, <3>6, <3>7
    <3> QED
      BY <3>1, <3>3, <3>8, <3>9
  <2> QED
    BY <1>13, <2>1, <2>2, <2>3
<1>16. Branches(u, v, S \union T, C, g)
  <2>1. Len(v) = Len(u) + 1
    BY <1>4, <1>5, <1>6 DEF l, m
  <2> QED
    BY <1>4, <1>5, <1>11, <1>12, <1>14, <1>15, <2>1, BranchesMade
<1> QED
  BY <1>16 DEF u, v, ax, n

\* A child is split in two: the node above gets the key between them and the new page.
LEMMA ParentAdd ==
    ASSUME NEW a, NEW c, NEW S, NEW C, NEW g, NEW D, NEW f, Branches(a, c, S, C, g),
           NEW n \in 1 .. Len(c), NEW x \in Keys, NEW q \in Pages, q \in D,
           \A i \in 1 .. Len(c) : c[i] \in D,
           \A i \in 1 .. Len(c) : i # n => f[c[i]] = g[c[i]],
           \A k \in Int : k \in f[c[n]] <=> k \in g[c[n]] /\ k < x,
           \A k \in Int : k \in f[q] <=> k \in g[c[n]] /\ x <= k,
           x \in g[c[n]], NEW y \in Int, y \in g[c[n]], y < x
    PROVE  Branches(InsertAt(a, n, x), InsertAt(c, n + 1, q), S, D, f)
<1>0. x \in Int
  BY KeysInt
<1>1. /\ a \in Seq(Keys) /\ c \in Seq(Pages) /\ Len(c) = Len(a) + 1
      /\ Len(a) \in Nat /\ \A i \in 1 .. Len(a) : a[i] \in S /\ a[i] \in Keys /\ a[i] \in Int
      /\ \A i, j \in 1 .. Len(a) : i < j => a[i] < a[j]
      /\ \A i, j \in 1 .. Len(a) : i <= j => a[i] <= a[j]
      /\ \A i \in 1 .. Len(c) : c[i] \in C
      /\ \A i \in 1 .. Len(c) : \A k \in Int :
            k \in g[c[i]] <=> k \in S /\ (i > 1 => a[i - 1] <= k) /\ (i <= Len(a) => k < a[i])
  BY BranchFacts
<1> DEFINE l == Len(a)  m == n + 1  u == InsertAt(a, n, x)  v == InsertAt(c, m, q)
<1>2. /\ l \in Nat /\ Len(c) = l + 1 /\ n \in 1 .. l + 1 /\ m \in 1 .. l + 2 /\ m = n + 1
      /\ m \in 1 .. Len(c) + 1 /\ n \in 1 .. Len(a) + 1 /\ Len(a) = l
  BY <1>1
<1> HIDE DEF l, m
<1>3. /\ u \in Seq(Keys) /\ Len(u) = Len(a) + 1
      /\ \A i \in 1 .. n - 1 : u[i] = a[i]
      /\ u[n] = x
      /\ \A i \in n + 1 .. Len(a) + 1 : u[i] = a[i - 1]
  <2>1. a \in Seq(Keys) /\ n \in 1 .. Len(a) + 1 /\ x \in Keys
    BY <1>1, <1>2
  <2> QED
    BY <2>1, InsertFacts
<1>4. /\ v \in Seq(Pages) /\ Len(v) = Len(c) + 1
      /\ \A i \in 1 .. m - 1 : v[i] = c[i]
      /\ v[m] = q
      /\ \A i \in m + 1 .. Len(c) + 1 : v[i] = c[i - 1]
  <2>1. c \in Seq(Pages) /\ m \in 1 .. Len(c) + 1 /\ q \in Pages
    BY <1>1, <1>2
  <2> QED
    BY <2>1, InsertFacts
<1> HIDE DEF u, v
<1>5. /\ Len(u) = l + 1 /\ Len(v) = l + 2 /\ n \in Nat
      /\ \A i \in 1 .. l + 1 : i < n => i \in 1 .. l /\ u[i] = a[i]
      /\ \A i \in 1 .. l + 1 : i > n => i - 1 \in 1 .. l /\ u[i] = a[i - 1]
      /\ \A i \in 1 .. l + 2 : i <= n => v[i] = c[i]
      /\ \A i \in 1 .. l + 2 : i > n + 1 => v[i] = c[i - 1]
      /\ \A i \in 1 .. l + 2 : i < n \/ i = n \/ i = n + 1 \/ i > n + 1
  <2>1. Len(u) = l + 1 /\ Len(v) = l + 2 /\ n \in Nat
    BY <1>2, <1>3, <1>4
  <2>2. \A i \in 1 .. l + 1 : i < n => i \in 1 .. l /\ u[i] = a[i]
    BY <1>2, <1>3
  <2>3. \A i \in 1 .. l + 1 : i > n => i - 1 \in 1 .. l /\ u[i] = a[i - 1]
    BY <1>2, <1>3
  <2>4. \A i \in 1 .. l + 2 : i <= n => v[i] = c[i]
    BY <1>2, <1>4
  <2>5. \A i \in 1 .. l + 2 : i > n + 1 => v[i] = c[i - 1]
    BY <1>2, <1>4
  <2>6. \A i \in 1 .. l + 2 : i < n \/ i = n \/ i = n + 1 \/ i > n + 1
    BY <1>2
  <2> QED
    BY <2>1, <2>2, <2>3, <2>4, <2>5, <2>6
<1>6. /\ x \in S /\ (n > 1 => a[n - 1] < x) /\ (n <= l => x < a[n])
  <2>1. /\ x \in S /\ (n > 1 => a[n - 1] <= x) /\ (n <= l => x < a[n])
        /\ (n > 1 => a[n - 1] <= y)
    BY <1>0, <1>1, <1>2
  <2>2. n > 1 => n - 1 \in 1 .. l /\ a[n - 1] \in Int
    BY <1>1, <1>2
  <2> QED
    BY <1>0, <2>1, <2>2
<1>7. \A i \in 1 .. l + 1 : u[i] \in S
  <2> TAKE i \in 1 .. l + 1
  <2> QED
    BY <1>1, <1>2, <1>3, <1>5, <1>6
<1>8. ASSUME NEW i \in 1 .. l + 1, NEW j \in 1 .. l + 1, i < j PROVE u[i] < u[j]
  <2>1. CASE j < n
    <3>1. i \in 1 .. l /\ j \in 1 .. l /\ u[i] = a[i] /\ u[j] = a[j]
      BY <1>2, <1>5, <1>8, <2>1
    <3> QED
      BY <1>1, <1>2, <1>8, <3>1
  <2>2. CASE i > n
    <3>1. /\ i - 1 \in 1 .. l /\ j - 1 \in 1 .. l /\ i - 1 < j - 1 /\ u[i] = a[i - 1] /\ u[j] = a[j - 1]
      BY <1>2, <1>5, <1>8, <2>2
    <3> QED
      BY <1>1, <1>2, <3>1
  <2>3. CASE i < n /\ j = n
    <3>1. i \in 1 .. l /\ u[i] = a[i] /\ n - 1 \in 1 .. l /\ i <= n - 1 /\ n > 1
      BY <1>2, <1>5, <2>3
    <3>2. a[i] <= a[n - 1] /\ a[n - 1] < x /\ a[i] \in Int /\ a[n - 1] \in Int
      BY <1>1, <1>2, <1>6, <3>1
    <3> QED
      BY <1>0, <1>3, <2>3, <3>1, <3>2
  <2>4. CASE i = n
    <3>1. j - 1 \in 1 .. l /\ u[j] = a[j - 1] /\ n \in 1 .. l /\ n <= j - 1 /\ n <= l
      BY <1>2, <1>5, <1>8, <2>4
    <3>2. a[n] <= a[j - 1] /\ x < a[n] /\ a[n] \in Int /\ a[j - 1] \in Int
      BY <1>1, <1>2, <1>6, <3>1
    <3> QED
      BY <1>0, <1>3, <2>4, <3>1, <3>2
  <2>5. CASE i < n /\ j > n
    <3>1. i \in 1 .. l /\ j - 1 \in 1 .. l /\ i < j - 1 /\ u[i] = a[i] /\ u[j] = a[j - 1]
      BY <1>2, <1>5, <1>8, <2>5
    <3> QED
      BY <1>1, <1>2, <3>1
  <2> QED
    BY <1>2, <1>8, <2>1, <2>2, <2>3, <2>4, <2>5
<1>9. \A i \in 1 .. l + 2 : v[i] \in D
  <2> TAKE i \in 1 .. l + 2
  <2>1. CASE i <= n
    BY <1>2, <1>5, <2>1
  <2>2. CASE i = n + 1
    BY <1>2, <1>4, <2>2
  <2>3. CASE i > n + 1
    <3>1. i - 1 \in 1 .. Len(c)
      BY <1>2, <2>3
    <3> QED
      BY <1>5, <2>3, <3>1
  <2> QED
    BY <1>2, <2>1, <2>2, <2>3
<1>10. ASSUME NEW i \in 1 .. l + 2, NEW k \in Int
       PROVE  k \in f[v[i]] <=> /\ k \in S
                                /\ i > 1 => u[i - 1] <= k
                                /\ i <= l + 1 => k < u[i]
  <2>1. CASE i < n
    <3>1. /\ i \in 1 .. Len(c) /\ i <= Len(a) /\ i <= l + 1 /\ v[i] = c[i] /\ u[i] = a[i] /\ i # n
          /\ (i > 1 => u[i - 1] = a[i - 1])
      BY <1>2, <1>5, <2>1
    <3> QED
      BY <1>1, <3>1
  <2>2. CASE i = n
    <3>1. /\ i \in 1 .. Len(c) /\ i <= l + 1 /\ v[i] = c[n] /\ u[i] = x
          /\ (i > 1 => u[i - 1] = a[n - 1])
      BY <1>2, <1>3, <1>5, <2>2
    <3>2. k \in g[c[n]] <=> k \in S /\ (i > 1 => a[n - 1] <= k) /\ (n <= Len(a) => k < a[n])
      BY <1>1, <2>2
    <3>3. k < x /\ n <= Len(a) => k < a[n]
      <4>1. n <= Len(a) => a[n] \in Int
        BY <1>1, <1>2
      <4> QED
        BY <1>0, <1>2, <1>6, <4>1
    <3> QED
      BY <3>1, <3>2, <3>3
  <2>3. CASE i = n + 1
    <3>1. /\ i > 1 /\ v[i] = q /\ u[i - 1] = x /\ (i <= l + 1 <=> n <= Len(a))
          /\ (i <= l + 1 => u[i] = a[n])
      BY <1>2, <1>3, <1>4, <1>5, <2>3
    <3>2. k \in g[c[n]] <=> k \in S /\ (n > 1 => a[n - 1] <= k) /\ (n <= Len(a) => k < a[n])
      BY <1>1
    <3>3. x <= k /\ n > 1 => a[n - 1] <= k
      <4>1. n > 1 => n - 1 \in 1 .. Len(a) /\ a[n - 1] \in Int
        BY <1>1, <1>2
      <4> QED
        BY <1>0, <1>2, <1>6, <4>1
    <3> QED
      BY <3>1, <3>2, <3>3
  <2>4. CASE i > n + 1
    <3> DEFINE j == i - 1
    <3>1. /\ j \in 1 .. Len(c) /\ j > 1 /\ i > 1 /\ j # n /\ v[i] = c[j] /\ (j <= Len(a) <=> i <= l + 1)
          /\ (i <= l + 1 => u[i] = a[j]) /\ u[j] = a[j - 1] /\ i - 1 = j
      BY <1>2, <1>5, <2>4
    <3> HIDE DEF j
    <3>2. k \in g[c[j]] <=> k \in S /\ (j > 1 => a[j - 1] <= k) /\ (j <= Len(a) => k < a[j])
      BY <1>1, <3>1
    <3>3. f[v[i]] = g[c[j]] /\ u[i - 1] = a[j - 1]
      BY <3>1
    <3> QED
      BY <3>1, <3>2, <3>3
  <2> QED
    BY <1>5, <2>1, <2>2, <2>3, <2>4
<1>11. Branches(u, v, S, D, f)
  <2>1. u \in Seq(Keys) /\ v \in Seq(Pages) /\ Len(u) = l + 1 /\ Len(v) = l + 2 /\ Len(v) = Len(u) + 1
    BY <1>2, <1>3, <1>4, <1>5
  <2>2. /\ \A i, j \in 1 .. Len(u) : i < j => u[i] < u[j]
        /\ \A i \in 1 .. Len(u) : u[i] \in S
        /\ \A i \in 1 .. Len(v) : v[i] \in D
    BY <1>7, <1>8, <1>9, <2>1
  <2>3. \A i \in 1 .. Len(v) : \A k \in Int :
           k \in f[v[i]] <=> k \in S /\ (i > 1 => u[i - 1] <= k) /\ (i <= Len(u) => k < u[i])
    BY <1>10, <2>1
  <2> QED
    BY <2>1, <2>2, <2>3, BranchesMade
<1> QED
  BY <1>11 DEF u, v, m

\* Something moves between two neighbours: the key between them changes.
LEMMA ParentShift ==
    ASSUME NEW a, NEW c, NEW S, NEW C, NEW g, NEW D, NEW f, Branches(a, c, S, C, g),
           NEW n \in 1 .. Len(a), NEW x \in Keys,
           \A i \in 1 .. Len(c) : c[i] \in D,
           \A i \in 1 .. Len(c) : i # n /\ i # n + 1 => f[c[i]] = g[c[i]],
           \A k \in Int : k \in f[c[n]] <=> (k \in g[c[n]] \/ k \in g[c[n + 1]]) /\ k < x,
           \A k \in Int : k \in f[c[n + 1]] <=> (k \in g[c[n]] \/ k \in g[c[n + 1]]) /\ x <= k,
           x \in g[c[n]] \/ x \in g[c[n + 1]],
           NEW y \in Int, y \in g[c[n]] \/ y \in g[c[n + 1]], y < x
    PROVE  Branches([a EXCEPT ![n] = x], c, S, D, f)
<1>0. x \in Int
  BY KeysInt
<1>1. /\ a \in Seq(Keys) /\ c \in Seq(Pages) /\ Len(c) = Len(a) + 1
      /\ Len(a) \in Nat /\ \A i \in 1 .. Len(a) : a[i] \in S /\ a[i] \in Keys /\ a[i] \in Int
      /\ \A i, j \in 1 .. Len(a) : i < j => a[i] < a[j]
      /\ \A i, j \in 1 .. Len(a) : i <= j => a[i] <= a[j]
      /\ \A i \in 1 .. Len(c) : \A k \in Int :
            k \in g[c[i]] <=> k \in S /\ (i > 1 => a[i - 1] <= k) /\ (i <= Len(a) => k < a[i])
  BY BranchFacts
<1> DEFINE l == Len(a)  u == [a EXCEPT ![n] = x]
<1>2. l \in Nat /\ Len(c) = l + 1 /\ n \in 1 .. l /\ Len(a) = l
  BY <1>1
<1>3. u \in Seq(Keys) /\ Len(u) = l /\ u[n] = x /\ \A i \in 1 .. l : i # n => u[i] = a[i]
  BY <1>1
<1> HIDE DEF l, u
<1>4. /\ n \in 1 .. Len(c) /\ n + 1 \in 1 .. Len(c) /\ n + 1 > 1 /\ (n + 1) - 1 = n /\ n <= Len(a)
      /\ (n + 1 <= Len(a) <=> n < l)
  BY <1>2
\* The two slots together go from the key before to the key after.
<1>5. ASSUME NEW k \in Int
      PROVE  k \in g[c[n]] \/ k \in g[c[n + 1]] <=>
                /\ k \in S /\ (n > 1 => a[n - 1] <= k) /\ (n < l => k < a[n + 1])
  <2>1. k \in g[c[n]] <=> k \in S /\ (n > 1 => a[n - 1] <= k) /\ k < a[n]
    BY <1>1, <1>4
  <2>2. k \in g[c[n + 1]] <=> k \in S /\ a[n] <= k /\ (n < l => k < a[n + 1])
    <3> DEFINE m == n + 1
    <3>1. m \in 1 .. Len(c) /\ m > 1 /\ m - 1 = n /\ (m <= Len(a) <=> n < l)
      BY <1>4
    <3> HIDE DEF m
    <3>2. k \in g[c[m]] <=> k \in S /\ a[n] <= k /\ (n < l => k < a[m])
      BY <1>1, <3>1
    <3> QED
      BY <3>2 DEF m
  <2>3. (n > 1 => n - 1 \in 1 .. l /\ a[n - 1] \in Int /\ a[n - 1] < a[n]) /\ a[n] \in Int
    BY <1>1, <1>2
  <2>4. n < l => n + 1 \in 1 .. l /\ a[n + 1] \in Int /\ a[n] < a[n + 1]
    BY <1>1, <1>2
  <2> QED
    BY <2>1, <2>2, <2>3, <2>4
<1>6. x \in S /\ (n > 1 => a[n - 1] < x) /\ (n < l => x < a[n + 1])
  <2>1. n > 1 => n - 1 \in 1 .. l /\ a[n - 1] \in Int
    BY <1>1, <1>2
  <2> QED
    BY <1>0, <1>5, <2>1
<1>7. \A i \in 1 .. l : u[i] \in S
  BY <1>1, <1>2, <1>3, <1>6
<1>8. ASSUME NEW i \in 1 .. l, NEW j \in 1 .. l, i < j PROVE u[i] < u[j]
  <2>1. CASE i # n /\ j # n
    BY <1>1, <1>2, <1>3, <1>8, <2>1
  <2>2. CASE j = n
    <3>1. n > 1 /\ n - 1 \in 1 .. l /\ i <= n - 1 /\ i # n
      BY <1>2, <1>8, <2>2
    <3>2. a[i] <= a[n - 1] /\ a[n - 1] < x /\ a[i] \in Int /\ a[n - 1] \in Int
      BY <1>1, <1>2, <1>6, <3>1
    <3> QED
      BY <1>0, <1>3, <2>2, <3>1, <3>2
  <2>3. CASE i = n
    <3>1. n < l /\ n + 1 \in 1 .. l /\ n + 1 <= j /\ j # n
      BY <1>2, <1>8, <2>3
    <3>2. a[n + 1] <= a[j] /\ x < a[n + 1] /\ a[j] \in Int /\ a[n + 1] \in Int
      BY <1>1, <1>2, <1>6, <3>1
    <3> QED
      BY <1>0, <1>3, <2>3, <3>1, <3>2
  <2> QED
    BY <2>1, <2>2, <2>3
<1>10. ASSUME NEW i \in 1 .. l + 1, NEW k \in Int
       PROVE  k \in f[c[i]] <=> /\ k \in S
                                /\ i > 1 => u[i - 1] <= k
                                /\ i <= l => k < u[i]
  <2>1. CASE i # n /\ i # n + 1
    <3>1. /\ i \in 1 .. Len(c) /\ (i <= Len(a) <=> i <= l) /\ f[c[i]] = g[c[i]]
          /\ (i <= l => u[i] = a[i]) /\ (i > 1 => i - 1 \in 1 .. l /\ i - 1 # n /\ u[i - 1] = a[i - 1])
      BY <1>2, <1>3, <2>1
    <3> QED
      BY <1>1, <3>1
  <2>2. CASE i = n
    <3>1. i <= l /\ u[i] = x /\ (i > 1 => i - 1 \in 1 .. l /\ i - 1 # n /\ u[i - 1] = a[n - 1])
      BY <1>2, <1>3, <2>2
    <3>2. n < l /\ k < x => k < a[n + 1]
      <4>1. n < l => n + 1 \in 1 .. l /\ a[n + 1] \in Int
        BY <1>1, <1>2
      <4> QED
        BY <1>0, <1>6, <4>1
    <3> QED
      BY <1>5, <2>2, <3>1, <3>2
  <2>3. CASE i = n + 1
    <3>1. i > 1 /\ i - 1 = n /\ (i <= l <=> n < l) /\ u[i - 1] = x /\ (i <= l => u[i] = a[n + 1])
      BY <1>2, <1>3, <2>3
    <3>2. n > 1 /\ x <= k => a[n - 1] <= k
      <4>1. n > 1 => n - 1 \in 1 .. l /\ a[n - 1] \in Int
        BY <1>1, <1>2
      <4> QED
        BY <1>0, <1>6, <4>1
    <3>3. k \in f[c[n + 1]] <=> k \in S /\ x <= k /\ (n < l => k < a[n + 1])
      BY <1>5, <3>2
    <3> QED
      BY <2>3, <3>1, <3>3
  <2> QED
    BY <2>1, <2>2, <2>3
<1>11. Branches(u, c, S, D, f)
  <2>1. u \in Seq(Keys) /\ c \in Seq(Pages) /\ Len(u) = l /\ Len(c) = l + 1 /\ Len(c) = Len(u) + 1
    BY <1>1, <1>2, <1>3
  <2>2. /\ \A i, j \in 1 .. Len(u) : i < j => u[i] < u[j]
        /\ \A i \in 1 .. Len(u) : u[i] \in S
        /\ \A i \in 1 .. Len(c) : c[i] \in D
    BY <1>7, <1>8, <2>1
  <2>3. \A i \in 1 .. Len(c) : \A k \in Int :
           k \in f[c[i]] <=> k \in S /\ (i > 1 => u[i - 1] <= k) /\ (i <= Len(u) => k < u[i])
    BY <1>10, <2>1
  <2> QED
    BY <2>1, <2>2, <2>3, BranchesMade
<1> QED
  BY <1>11 DEF u

\* Two neighbours become one: the key between them and the right one go.
LEMMA ParentDrop ==
    ASSUME NEW a, NEW c, NEW S, NEW C, NEW g, NEW D, NEW f, Branches(a, c, S, C, g),
           NEW n \in 1 .. Len(a),
           \A i \in 1 .. Len(c) : i # n + 1 => c[i] \in D,
           \A i \in 1 .. Len(c) : i # n /\ i # n + 1 => f[c[i]] = g[c[i]],
           \A k \in Int : k \in f[c[n]] <=> k \in g[c[n]] \/ k \in g[c[n + 1]]
    PROVE  Branches(RemoveAt(a, n), RemoveAt(c, n + 1), S, D, f)
<1>1. /\ a \in Seq(Keys) /\ c \in Seq(Pages) /\ Len(c) = Len(a) + 1
      /\ Len(a) \in Nat /\ \A i \in 1 .. Len(a) : a[i] \in S /\ a[i] \in Keys /\ a[i] \in Int
      /\ \A i, j \in 1 .. Len(a) : i < j => a[i] < a[j]
      /\ \A i \in 1 .. Len(c) : \A k \in Int :
            k \in g[c[i]] <=> k \in S /\ (i > 1 => a[i - 1] <= k) /\ (i <= Len(a) => k < a[i])
  BY BranchFacts
<1> DEFINE l == Len(a)  m == n + 1  u == RemoveAt(a, n)  v == RemoveAt(c, m)
<1>2. l \in Nat /\ Len(c) = l + 1 /\ n \in 1 .. l /\ Len(a) = l /\ m = n + 1 /\ m \in 1 .. Len(c)
  BY <1>1
<1> HIDE DEF l, m
<1>3. /\ u \in Seq(Keys) /\ Len(u) = Len(a) - 1
      /\ \A i \in 1 .. n - 1 : u[i] = a[i]
      /\ \A i \in n .. Len(a) - 1 : u[i] = a[i + 1]
  <2>1. a \in Seq(Keys) /\ n \in 1 .. Len(a)
    BY <1>1
  <2> QED
    BY <2>1, RemoveFacts
<1>4. /\ v \in Seq(Pages) /\ Len(v) = Len(c) - 1
      /\ \A i \in 1 .. m - 1 : v[i] = c[i]
      /\ \A i \in m .. Len(c) - 1 : v[i] = c[i + 1]
  <2>1. c \in Seq(Pages) /\ m \in 1 .. Len(c)
    BY <1>1, <1>2
  <2> QED
    BY <2>1, RemoveFacts
<1> HIDE DEF u, v
<1>5. /\ Len(u) = l - 1 /\ Len(v) = l /\ n \in Nat
      /\ \A i \in 1 .. l - 1 : i < n => i \in 1 .. l /\ u[i] = a[i]
      /\ \A i \in 1 .. l - 1 : i >= n => i + 1 \in 1 .. l /\ u[i] = a[i + 1]
      /\ \A i \in 1 .. l : i <= n => v[i] = c[i]
      /\ \A i \in 1 .. l : i > n => v[i] = c[i + 1]
  <2>1. Len(u) = l - 1 /\ Len(v) = l /\ n \in Nat
    BY <1>2, <1>3, <1>4
  <2>2. \A i \in 1 .. l - 1 : i < n => i \in 1 .. l /\ u[i] = a[i]
    BY <1>2, <1>3
  <2>3. \A i \in 1 .. l - 1 : i >= n => i + 1 \in 1 .. l /\ u[i] = a[i + 1]
    BY <1>2, <1>3
  <2>4. \A i \in 1 .. l : i <= n => v[i] = c[i]
    BY <1>2, <1>4
  <2>5. \A i \in 1 .. l : i > n => v[i] = c[i + 1]
    BY <1>2, <1>4
  <2> QED
    BY <2>1, <2>2, <2>3, <2>4, <2>5
<1>6. ASSUME NEW k \in Int
      PROVE  k \in g[c[n]] \/ k \in g[c[n + 1]] <=>
                /\ k \in S /\ (n > 1 => a[n - 1] <= k) /\ (n < l => k < a[n + 1])
  <2>1. k \in g[c[n]] <=> k \in S /\ (n > 1 => a[n - 1] <= k) /\ k < a[n]
    <3>1. n \in 1 .. Len(c) /\ n <= Len(a)
      BY <1>2
    <3> QED
      BY <1>1, <3>1
  <2>2. k \in g[c[m]] <=> k \in S /\ a[n] <= k /\ (n < l => k < a[m])
    <3>1. m \in 1 .. Len(c) /\ m > 1 /\ m - 1 = n /\ (m <= Len(a) <=> n < l)
      BY <1>2
    <3> QED
      BY <1>1, <3>1
  <2>3. (n > 1 => n - 1 \in 1 .. l /\ a[n - 1] \in Int /\ a[n - 1] < a[n]) /\ a[n] \in Int
    BY <1>1, <1>2
  <2>4. n < l => m \in 1 .. l /\ a[m] \in Int /\ a[n] < a[m]
    BY <1>1, <1>2
  <2> QED
    BY <1>2, <2>1, <2>2, <2>3, <2>4
<1>7. ASSUME NEW i \in 1 .. l - 1
      PROVE  /\ u[i] \in S
             /\ \A j \in 1 .. l - 1 : i < j => u[i] < u[j]
  <2>1. u[i] \in S
    <3>1. i < n \/ i >= n
      BY <1>2
    <3> QED
      BY <1>1, <1>2, <1>5, <3>1
  <2>2. ASSUME NEW j \in 1 .. l - 1, i < j PROVE u[i] < u[j]
    <3>1. CASE j < n
      BY <1>1, <1>2, <1>5, <2>2, <3>1
    <3>2. CASE i >= n
      <4>1. j >= n /\ i + 1 < j + 1
        BY <1>2, <2>2, <3>2
      <4> QED
        BY <1>1, <1>2, <1>5, <3>2, <4>1
    <3>3. CASE i < n /\ j >= n
      <4>1. i < j + 1
        BY <2>2
      <4> QED
        BY <1>1, <1>2, <1>5, <3>3, <4>1
    <3> QED
      BY <1>2, <2>2, <3>1, <3>2, <3>3
  <2> QED
    BY <2>1, <2>2
<1>8. \A i \in 1 .. l : v[i] \in D
  <2> TAKE i \in 1 .. l
  <2>1. CASE i <= n
    BY <1>2, <1>5, <2>1
  <2>2. CASE i > n
    <3>1. i + 1 \in 1 .. Len(c) /\ i + 1 # n + 1
      BY <1>2, <2>2
    <3> QED
      BY <1>5, <2>2, <3>1
  <2> QED
    BY <1>2, <2>1, <2>2
<1>9. ASSUME NEW i \in 1 .. l, NEW k \in Int
      PROVE  k \in f[v[i]] <=> /\ k \in S
                               /\ i > 1 => u[i - 1] <= k
                               /\ i <= l - 1 => k < u[i]
  <2>1. CASE i < n
    <3>1. /\ i \in 1 .. Len(c) /\ i <= Len(a) /\ i <= l - 1 /\ v[i] = c[i] /\ u[i] = a[i]
          /\ i # n /\ i # n + 1 /\ (i > 1 => u[i - 1] = a[i - 1])
      BY <1>2, <1>5, <2>1
    <3> QED
      BY <1>1, <3>1
  <2>2. CASE i = n
    <3>1. /\ v[i] = c[n] /\ (i > 1 => u[i - 1] = a[n - 1])
          /\ (i <= l - 1 <=> n < l) /\ (i <= l - 1 => u[i] = a[n + 1])
      BY <1>2, <1>5, <2>2
    <3> QED
      BY <1>6, <2>2, <3>1
  <2>3. CASE i > n
    <3> DEFINE j == i + 1
    <3>1. /\ j \in 1 .. Len(c) /\ j > 1 /\ i > 1 /\ j # n /\ j # n + 1 /\ v[i] = c[j]
          /\ (j <= Len(a) <=> i <= l - 1) /\ (i <= l - 1 => u[i] = a[j])
      BY <1>2, <1>5, <2>3
    <3>2. u[i - 1] = a[j - 1]
      <4>1. i - 1 \in 1 .. l - 1 /\ i - 1 >= n /\ (i - 1) + 1 = j - 1
        BY <1>2, <2>3
      <4> QED
        BY <1>5, <4>1
    <3> HIDE DEF j
    <3>3. k \in g[c[j]] <=> k \in S /\ (j > 1 => a[j - 1] <= k) /\ (j <= Len(a) => k < a[j])
      BY <1>1, <3>1
    <3>4. f[v[i]] = g[c[j]]
      BY <3>1
    <3> QED
      BY <3>1, <3>2, <3>3, <3>4
  <2> QED
    BY <1>5, <2>1, <2>2, <2>3
<1>11. Branches(u, v, S, D, f)
  <2>1. u \in Seq(Keys) /\ v \in Seq(Pages) /\ Len(u) = l - 1 /\ Len(v) = l /\ Len(v) = Len(u) + 1
    BY <1>2, <1>3, <1>4, <1>5
  <2>2. /\ \A i, j \in 1 .. Len(u) : i < j => u[i] < u[j]
        /\ \A i \in 1 .. Len(u) : u[i] \in S
        /\ \A i \in 1 .. Len(v) : v[i] \in D
    BY <1>7, <1>8, <2>1
  <2>3. \A i \in 1 .. Len(v) : \A k \in Int :
           k \in f[v[i]] <=> k \in S /\ (i > 1 => u[i - 1] <= k) /\ (i <= Len(u) => k < u[i])
    BY <1>9, <2>1
  <2> QED
    BY <2>1, <2>2, <2>3, BranchesMade
<1> QED
  BY <1>11 DEF u, v, m

---------------------------------------------------------------------------
(***************************************************************************)
(* Leaves.                                                                 *)
(***************************************************************************)
\* The keys a and the records r of a leaf are what d has under the keys of S.
LeafHolds(a, r, S, d) ==
    /\ a \in Seq(Keys) /\ r \in Seq(Records) /\ Len(r) = Len(a)
    /\ Sorted(a)
    /\ \A i \in 1 .. Len(a) : a[i] \in S /\ a[i] = r[i].key /\ d[a[i]] = r[i]
    /\ \A k \in Keys : k \in S /\ d[k] # None => \E i \in 1 .. Len(a) : a[i] = k

\* What a leaf that holds its records looks like, position by position.
LEMMA LeafFacts ==
    ASSUME NEW a, NEW r, NEW S, NEW d, LeafHolds(a, r, S, d)
    PROVE  /\ a \in Seq(Keys) /\ r \in Seq(Records) /\ Len(r) = Len(a) /\ Sorted(a)
           /\ Len(a) \in Nat /\ \A i \in 1 .. Len(a) : a[i] \in Keys /\ a[i] \in Int
           /\ \A i \in 1 .. Len(a) : a[i] \in S /\ a[i] = r[i].key /\ d[a[i]] = r[i] /\ r[i] \in Records
           /\ \A i, j \in 1 .. Len(a) : i < j => a[i] < a[j]
           /\ \A i, j \in 1 .. Len(a) : i <= j => a[i] <= a[j]
           /\ \A k \in Keys : k \in S /\ d[k] # None => \E i \in 1 .. Len(a) : a[i] = k
<1>1. /\ a \in Seq(Keys) /\ r \in Seq(Records) /\ Len(r) = Len(a) /\ Sorted(a)
      /\ \A i \in 1 .. Len(a) : a[i] \in S /\ a[i] = r[i].key /\ d[a[i]] = r[i]
      /\ \A k \in Keys : k \in S /\ d[k] # None => \E i \in 1 .. Len(a) : a[i] = k
  BY DEF LeafHolds
<1>2. /\ Len(a) \in Nat /\ \A i \in 1 .. Len(a) : a[i] \in Keys /\ a[i] \in Int
      /\ \A i, j \in 1 .. Len(a) : i < j => a[i] < a[j]
      /\ \A i, j \in 1 .. Len(a) : i <= j => a[i] <= a[j]
  BY <1>1, SortedIn
<1>3. \A i \in 1 .. Len(a) : r[i] \in Records
  BY <1>1
<1> QED
  BY <1>1, <1>2, <1>3

\* The same as a predicate, which is easier to cite.
LeafForm(a, r, S, d) ==
    /\ a \in Seq(Keys) /\ r \in Seq(Records) /\ Len(r) = Len(a) /\ Sorted(a)
    /\ Len(a) \in Nat /\ \A i \in 1 .. Len(a) : a[i] \in Keys /\ a[i] \in Int
    /\ \A i \in 1 .. Len(a) : a[i] \in S /\ a[i] = r[i].key /\ d[a[i]] = r[i] /\ r[i] \in Records
    /\ \A i, j \in 1 .. Len(a) : i < j => a[i] < a[j]
    /\ \A i, j \in 1 .. Len(a) : i <= j => a[i] <= a[j]
    /\ \A k \in Keys : k \in S /\ d[k] # None => \E i \in 1 .. Len(a) : a[i] = k

\* LeafFacts, so stated.
LEMMA LeafFormed ==
    ASSUME NEW a, NEW r, NEW S, NEW d, LeafHolds(a, r, S, d)
    PROVE  LeafForm(a, r, S, d)
  BY LeafFacts DEF LeafForm

\* A leaf that looks like that holds its records.
LEMMA LeafMade ==
    ASSUME NEW a \in Seq(Keys), NEW r \in Seq(Records), Len(r) = Len(a), NEW S, NEW d,
           \A i, j \in 1 .. Len(a) : i < j => a[i] < a[j],
           \A i \in 1 .. Len(a) : a[i] \in S /\ a[i] = r[i].key /\ d[a[i]] = r[i],
           \A k \in Keys : k \in S /\ d[k] # None => \E i \in 1 .. Len(a) : a[i] = k
    PROVE  LeafHolds(a, r, S, d)
<1>1. DOMAIN a = 1 .. Len(a)
  OBVIOUS
<1>2. Sorted(a)
  BY <1>1 DEF Sorted
<1> QED
  BY <1>2 DEF LeafHolds

\* A leaf cut before one of its keys.
LEMMA LeafCutLeft ==
    ASSUME NEW a, NEW r, NEW S, NEW d, LeafHolds(a, r, S, d), NEW n \in 1 .. Len(a)
    PROVE  LeafHolds(SubSeq(a, 1, n - 1), SubSeq(r, 1, n - 1), Below(S, a[n]), d)
<1>1. /\ a \in Seq(Keys) /\ r \in Seq(Records) /\ Len(r) = Len(a)
      /\ Len(a) \in Nat /\ \A i \in 1 .. Len(a) : a[i] \in Keys /\ a[i] \in Int
      /\ \A i \in 1 .. Len(a) : a[i] \in S /\ a[i] = r[i].key /\ d[a[i]] = r[i] /\ r[i] \in Records
      /\ \A i, j \in 1 .. Len(a) : i < j => a[i] < a[j]
      /\ \A i, j \in 1 .. Len(a) : i <= j => a[i] <= a[j]
      /\ \A k \in Keys : k \in S /\ d[k] # None => \E i \in 1 .. Len(a) : a[i] = k
  BY LeafFacts
<1> DEFINE u == SubSeq(a, 1, n - 1)  v == SubSeq(r, 1, n - 1)
<1>2. /\ 1 \in 1 .. Len(a) + 1 /\ n - 1 \in 0 .. Len(a) /\ n - 1 - 1 + 1 = n - 1 /\ 1 <= n - 1 + 1
      /\ 1 \in 1 .. Len(r) + 1 /\ n - 1 \in 0 .. Len(r)
      /\ \A i \in 1 .. n - 1 : 1 + i - 1 = i
  BY <1>1
<1>3. a \in Seq(Keys) /\ r \in Seq(Records)
  BY <1>1
<1>4. u \in Seq(Keys) /\ Len(u) = n - 1 /\ \A i \in 1 .. n - 1 : u[i] = a[i]
  BY <1>2, <1>3, PartFacts
<1>5. v \in Seq(Records) /\ Len(v) = n - 1 /\ \A i \in 1 .. n - 1 : v[i] = r[i]
  BY <1>2, <1>3, PartFacts
<1> HIDE DEF u, v
<1>6. \A i \in 1 .. Len(u) : i \in 1 .. Len(a) /\ i < n
  BY <1>1, <1>4
<1>7. \A i, j \in 1 .. Len(u) : i < j => u[i] < u[j]
  BY <1>1, <1>4, <1>6
<1>8. \A i \in 1 .. Len(u) : u[i] \in Below(S, a[n]) /\ u[i] = v[i].key /\ d[u[i]] = v[i]
  <2> TAKE i \in 1 .. Len(u)
  <2>1. u[i] = a[i] /\ v[i] = r[i] /\ a[i] < a[n]
    BY <1>1, <1>4, <1>5, <1>6
  <2> QED
    BY <1>1, <1>6, <2>1 DEF Below
<1>9. \A k \in Keys : k \in Below(S, a[n]) /\ d[k] # None => \E i \in 1 .. Len(u) : u[i] = k
  <2> SUFFICES ASSUME NEW k \in Keys, k \in S, k < a[n], d[k] # None
               PROVE  \E i \in 1 .. Len(u) : u[i] = k
    BY DEF Below
  <2>1. PICK i \in 1 .. Len(a) : a[i] = k
    BY <1>1
  <2>2. i < n \/ n <= i
    BY <1>1
  <2>3. n <= i => a[n] <= a[i] /\ a[n] \in Int /\ a[i] \in Int
    BY <1>1
  <2>4. i < n
    BY <2>1, <2>2, <2>3
  <2>5. i \in 1 .. n - 1
    BY <1>1, <2>4
  <2> QED
    BY <1>4, <2>1, <2>5
<1>10. LeafHolds(u, v, Below(S, a[n]), d)
  <2>1. u \in Seq(Keys) /\ v \in Seq(Records) /\ Len(v) = Len(u)
    BY <1>4, <1>5
  <2> QED
    BY <1>7, <1>8, <1>9, <2>1, LeafMade
<1> QED
  BY <1>10 DEF u, v

\* The right half of a leaf holds the records from the key on that went up.
LEMMA LeafCutRight ==
    ASSUME NEW a, NEW r, NEW S, NEW d, LeafHolds(a, r, S, d), NEW n \in 1 .. Len(a)
    PROVE  LeafHolds(SubSeq(a, n, Len(a)), SubSeq(r, n, Len(r)), From(S, a[n]), d)
<1>1. /\ a \in Seq(Keys) /\ r \in Seq(Records) /\ Len(r) = Len(a)
      /\ Len(a) \in Nat /\ \A i \in 1 .. Len(a) : a[i] \in Keys /\ a[i] \in Int
      /\ \A i \in 1 .. Len(a) : a[i] \in S /\ a[i] = r[i].key /\ d[a[i]] = r[i] /\ r[i] \in Records
      /\ \A i, j \in 1 .. Len(a) : i < j => a[i] < a[j]
      /\ \A i, j \in 1 .. Len(a) : i <= j => a[i] <= a[j]
      /\ \A k \in Keys : k \in S /\ d[k] # None => \E i \in 1 .. Len(a) : a[i] = k
  BY LeafFacts
<1> DEFINE u == SubSeq(a, n, Len(a))  v == SubSeq(r, n, Len(r))  m == Len(a) - n + 1
<1>2. /\ n \in 1 .. Len(a) + 1 /\ Len(a) \in 0 .. Len(a) /\ n <= Len(a) + 1 /\ Len(a) - n + 1 = m
      /\ n \in 1 .. Len(r) + 1 /\ Len(r) \in 0 .. Len(r) /\ n <= Len(r) + 1 /\ Len(r) - n + 1 = m
  BY <1>1
<1>3. a \in Seq(Keys) /\ r \in Seq(Records)
  BY <1>1
<1>4. u \in Seq(Keys) /\ Len(u) = m /\ \A i \in 1 .. m : u[i] = a[n + i - 1]
  BY <1>2, <1>3, PartFacts
<1>5. v \in Seq(Records) /\ Len(v) = m /\ \A i \in 1 .. m : v[i] = r[n + i - 1]
  BY <1>2, <1>3, PartFacts
<1> HIDE DEF u, v
<1>6. /\ \A i \in 1 .. Len(u) : n + i - 1 \in 1 .. Len(a) /\ n <= n + i - 1
      /\ \A i, j \in 1 .. Len(u) : i < j => n + i - 1 < n + j - 1
  BY <1>1, <1>4
<1>7. \A i, j \in 1 .. Len(u) : i < j => u[i] < u[j]
  BY <1>1, <1>4, <1>6
<1>8. \A i \in 1 .. Len(u) : u[i] \in From(S, a[n]) /\ u[i] = v[i].key /\ d[u[i]] = v[i]
  <2> TAKE i \in 1 .. Len(u)
  <2>1. u[i] = a[n + i - 1] /\ v[i] = r[n + i - 1] /\ a[n] <= a[n + i - 1]
    BY <1>1, <1>4, <1>5, <1>6
  <2> QED
    BY <1>1, <1>6, <2>1 DEF From
<1>9. \A k \in Keys : k \in From(S, a[n]) /\ d[k] # None => \E i \in 1 .. Len(u) : u[i] = k
  <2> SUFFICES ASSUME NEW k \in Keys, k \in S, a[n] <= k, d[k] # None
               PROVE  \E i \in 1 .. Len(u) : u[i] = k
    BY DEF From
  <2>1. PICK i \in 1 .. Len(a) : a[i] = k
    BY <1>1
  <2>2. i < n \/ n <= i
    BY <1>1
  <2>3. i < n => a[i] < a[n] /\ a[n] \in Int /\ a[i] \in Int
    BY <1>1
  <2>4. n <= i
    BY <2>1, <2>2, <2>3
  <2>5. i - n + 1 \in 1 .. m /\ n + (i - n + 1) - 1 = i
    BY <1>1, <2>4
  <2>6. u[i - n + 1] = k
    BY <1>4, <2>1, <2>5
  <2> QED
    BY <1>4, <2>5, <2>6
<1>10. LeafHolds(u, v, From(S, a[n]), d)
  <2>1. u \in Seq(Keys) /\ v \in Seq(Records) /\ Len(v) = Len(u)
    BY <1>4, <1>5
  <2> QED
    BY <1>7, <1>8, <1>9, <2>1, LeafMade
<1> QED
  BY <1>10 DEF u, v

\* Two leaves joined.
LEMMA LeafJoin ==
    ASSUME NEW a, NEW r, NEW S, NEW b, NEW s, NEW T, NEW d,
           LeafHolds(a, r, S, d), LeafHolds(b, s, T, d),
           \A x \in S \cap Int, y \in T \cap Int : x < y
    PROVE  LeafHolds(a \o b, r \o s, S \union T, d)
<1>1. /\ a \in Seq(Keys) /\ r \in Seq(Records) /\ Len(r) = Len(a)
      /\ Len(a) \in Nat /\ \A i \in 1 .. Len(a) : a[i] \in Keys /\ a[i] \in Int
      /\ \A i \in 1 .. Len(a) : a[i] \in S /\ a[i] = r[i].key /\ d[a[i]] = r[i] /\ r[i] \in Records
      /\ \A i, j \in 1 .. Len(a) : i < j => a[i] < a[j]
      /\ \A k \in Keys : k \in S /\ d[k] # None => \E i \in 1 .. Len(a) : a[i] = k
  BY LeafFacts
<1>2. /\ b \in Seq(Keys) /\ s \in Seq(Records) /\ Len(s) = Len(b)
      /\ Len(b) \in Nat /\ \A i \in 1 .. Len(b) : b[i] \in Keys /\ b[i] \in Int
      /\ \A i \in 1 .. Len(b) : b[i] \in T /\ b[i] = s[i].key /\ d[b[i]] = s[i] /\ s[i] \in Records
      /\ \A i, j \in 1 .. Len(b) : i < j => b[i] < b[j]
      /\ \A k \in Keys : k \in T /\ d[k] # None => \E i \in 1 .. Len(b) : b[i] = k
  BY LeafFacts
<1> DEFINE u == a \o b  v == r \o s  l == Len(a)  m == Len(b)
<1>3. a \in Seq(Keys) /\ r \in Seq(Records) /\ b \in Seq(Keys) /\ s \in Seq(Records)
  BY <1>1, <1>2
<1>4. /\ u \in Seq(Keys) /\ Len(u) = l + m
      /\ \A i \in 1 .. l : u[i] = a[i]
      /\ \A i \in l + 1 .. l + m : u[i] = b[i - l]
  BY <1>3, Joined
<1>5. /\ v \in Seq(Records) /\ Len(v) = l + m
      /\ \A i \in 1 .. l : v[i] = r[i]
      /\ \A i \in l + 1 .. l + m : v[i] = s[i - l]
  <2>1. /\ v \in Seq(Records) /\ Len(v) = Len(r) + Len(s)
        /\ \A i \in 1 .. Len(r) : v[i] = r[i]
        /\ \A i \in Len(r) + 1 .. Len(r) + Len(s) : v[i] = s[i - Len(r)]
    BY <1>3, Joined
  <2> HIDE DEF v
  <2> QED
    BY <1>1, <1>2, <2>1
<1> HIDE DEF u, v
<1>6. l \in Nat /\ m \in Nat
  BY <1>1, <1>2
<1>7. ASSUME NEW i \in 1 .. l + m
      PROVE  \/ i \in 1 .. l /\ u[i] = a[i] /\ v[i] = r[i]
             \/ i > l /\ i - l \in 1 .. m /\ u[i] = b[i - l] /\ v[i] = s[i - l]
  <2>1. i \in 1 .. l \/ (i \in l + 1 .. l + m /\ i > l /\ i - l \in 1 .. m)
    BY <1>6
  <2> QED
    BY <1>4, <1>5, <2>1
<1>8. \A i \in 1 .. Len(u) : u[i] \in S \union T /\ u[i] = v[i].key /\ d[u[i]] = v[i]
  <2> TAKE i \in 1 .. Len(u)
  <2>1. i \in 1 .. l + m
    BY <1>4
  <2>2. CASE i \in 1 .. l /\ u[i] = a[i] /\ v[i] = r[i]
    BY <1>1, <2>2
  <2>3. CASE i - l \in 1 .. m /\ u[i] = b[i - l] /\ v[i] = s[i - l]
    BY <1>2, <2>3
  <2> QED
    BY <1>7, <2>1, <2>2, <2>3
<1>9. ASSUME NEW i \in 1 .. Len(u), NEW j \in 1 .. Len(u), i < j PROVE u[i] < u[j]
  <2>1. CASE i \in 1 .. l /\ j \in 1 .. l
    BY <1>1, <1>4, <1>9, <2>1
  <2>2. CASE i > l
    <3>1. i - l \in 1 .. m /\ j - l \in 1 .. m /\ i - l < j - l /\ u[i] = b[i - l] /\ u[j] = b[j - l]
      BY <1>4, <1>6, <1>7, <1>9, <2>2
    <3> QED
      BY <1>2, <3>1
  <2>3. CASE i \in 1 .. l /\ j > l
    <3>1. j - l \in 1 .. m /\ u[i] = a[i] /\ u[j] = b[j - l]
      BY <1>4, <1>6, <1>7, <2>3
    <3> QED
      BY <1>1, <1>2, <2>3, <3>1
  <2> QED
    BY <1>4, <1>7, <2>1, <2>2, <2>3
<1>10. ASSUME NEW k \in Keys, k \in S \/ k \in T, d[k] # None
       PROVE  \E i \in 1 .. Len(u) : u[i] = k
  <2>1. CASE k \in S
    <3>1. PICK i \in 1 .. l : a[i] = k
      BY <1>1, <1>10, <2>1
    <3>2. i \in 1 .. l + m
      BY <1>6
    <3> QED
      BY <1>4, <3>1, <3>2
  <2>2. CASE k \in T
    <3>1. PICK i \in 1 .. m : b[i] = k
      BY <1>2, <1>10, <2>2
    <3>2. l + i \in 1 .. l + m /\ l + i \in l + 1 .. l + m /\ (l + i) - l = i
      BY <1>6
    <3>3. u[l + i] = k
      BY <1>4, <3>1, <3>2
    <3> QED
      BY <1>4, <3>2, <3>3
  <2> QED
    BY <1>10, <2>1, <2>2
<1>11. LeafHolds(u, v, S \union T, d)
  <2>1. u \in Seq(Keys) /\ v \in Seq(Records) /\ Len(v) = Len(u)
    BY <1>4, <1>5
  <2>2. \A k \in Keys : k \in S \union T /\ d[k] # None => \E i \in 1 .. Len(u) : u[i] = k
    BY <1>10
  <2> QED
    BY <1>8, <1>9, <2>1, <2>2, LeafMade
<1> QED
  BY <1>11 DEF u, v

\* The dictionaries a tree is compared with.
Dicts == [Keys -> Records \union {None}]

\* What changes under a key of another node's range is nothing to a leaf.
LEMMA LeafElsewhere ==
    ASSUME NEW a, NEW r, NEW S, NEW d \in Dicts, LeafHolds(a, r, S, d),
           NEW k \in Keys, k \notin S, NEW x
    PROVE  LeafHolds(a, r, S, [d EXCEPT ![k] = x])
<1> DEFINE e == [d EXCEPT ![k] = x]
<1>1. \A j \in Keys : j # k => e[j] = d[j]
  BY DEF Dicts
<1> HIDE DEF e
<1>2. /\ a \in Seq(Keys) /\ r \in Seq(Records) /\ Len(r) = Len(a)
      /\ \A i \in 1 .. Len(a) : a[i] \in Keys
      /\ \A i \in 1 .. Len(a) : a[i] \in S /\ a[i] = r[i].key /\ d[a[i]] = r[i]
      /\ \A i, j \in 1 .. Len(a) : i < j => a[i] < a[j]
      /\ \A j \in Keys : j \in S /\ d[j] # None => \E i \in 1 .. Len(a) : a[i] = j
  BY LeafFacts
<1>3. \A i \in 1 .. Len(a) : a[i] \in S /\ a[i] = r[i].key /\ e[a[i]] = r[i]
  BY <1>1, <1>2
<1>4. \A j \in Keys : j \in S /\ e[j] # None => \E i \in 1 .. Len(a) : a[i] = j
  BY <1>1, <1>2
<1>5. LeafHolds(a, r, S, e)
  BY <1>2, <1>3, <1>4, LeafMade
<1> QED
  BY <1>5 DEF e

\* insert_into_leaf, when the key is there: its record is replaced.
LEMMA LeafReplace ==
    ASSUME NEW a, NEW r, NEW S, NEW d \in Dicts, LeafHolds(a, r, S, d),
           NEW x \in Records, NEW n \in 1 .. Len(a), a[n] = x.key
    PROVE  LeafHolds(a, [r EXCEPT ![n] = x], S, [d EXCEPT ![x.key] = x])
<1>1. /\ a \in Seq(Keys) /\ r \in Seq(Records) /\ Len(r) = Len(a) /\ Len(a) \in Nat
      /\ \A i \in 1 .. Len(a) : a[i] \in Keys /\ a[i] \in Int
      /\ \A i \in 1 .. Len(a) : a[i] \in S /\ a[i] = r[i].key /\ d[a[i]] = r[i]
      /\ \A i, j \in 1 .. Len(a) : i < j => a[i] < a[j]
      /\ \A j \in Keys : j \in S /\ d[j] # None => \E i \in 1 .. Len(a) : a[i] = j
  BY LeafFacts
<1> DEFINE e == [d EXCEPT ![x.key] = x]  v == [r EXCEPT ![n] = x]
<1>2. x.key \in Keys
  BY DEF Keys
<1>3. e[x.key] = x /\ \A j \in Keys : j # x.key => e[j] = d[j]
  BY <1>2 DEF Dicts
<1>4. v \in Seq(Records) /\ Len(v) = Len(a) /\ v[n] = x /\ \A i \in 1 .. Len(a) : i # n => v[i] = r[i]
  BY <1>1
<1> HIDE DEF e, v
<1>5. \A i \in 1 .. Len(a) : i # n => a[i] # x.key
  <2> TAKE i \in 1 .. Len(a)
  <2>1. i < n \/ i = n \/ i > n
    BY <1>1
  <2>2. i < n => a[i] < a[n]
    BY <1>1
  <2>3. i > n => a[n] < a[i]
    BY <1>1
  <2> QED
    BY <1>1, <2>1, <2>2, <2>3
<1>6. \A i \in 1 .. Len(a) : a[i] \in S /\ a[i] = v[i].key /\ e[a[i]] = v[i]
  BY <1>1, <1>3, <1>4, <1>5
<1>7. \A j \in Keys : j \in S /\ e[j] # None => \E i \in 1 .. Len(a) : a[i] = j
  BY <1>1, <1>3
<1>8. LeafHolds(a, v, S, e)
  BY <1>1, <1>4, <1>6, <1>7, LeafMade
<1> QED
  BY <1>8 DEF e, v

\* insert_into_leaf, when the key is new: key and record enter at its position.
LEMMA LeafInsert ==
    ASSUME NEW a, NEW r, NEW S, NEW d \in Dicts, LeafHolds(a, r, S, d),
           NEW x \in Records, x.key \in S, NEW n \in 1 .. Len(a) + 1,
           \A i \in 1 .. Len(a) : i < n => a[i] < x.key,
           \A i \in 1 .. Len(a) : i >= n => x.key < a[i]
    PROVE  LeafHolds(InsertAt(a, n, x.key), InsertAt(r, n, x), S, [d EXCEPT ![x.key] = x])
<1>1. /\ a \in Seq(Keys) /\ r \in Seq(Records) /\ Len(r) = Len(a) /\ Len(a) \in Nat
      /\ \A i \in 1 .. Len(a) : a[i] \in Keys /\ a[i] \in Int
      /\ \A i \in 1 .. Len(a) : a[i] \in S /\ a[i] = r[i].key /\ d[a[i]] = r[i]
      /\ \A i, j \in 1 .. Len(a) : i < j => a[i] < a[j]
      /\ \A j \in Keys : j \in S /\ d[j] # None => \E i \in 1 .. Len(a) : a[i] = j
  BY LeafFacts
<1> DEFINE k == x.key  l == Len(a)
           e == [d EXCEPT ![k] = x]  u == InsertAt(a, n, k)  v == InsertAt(r, n, x)
<1>2. k \in Keys /\ k \in Int /\ k \in S
  BY KeysInt DEF Keys
<1> HIDE DEF k
<1>3. e[k] = x /\ \A j \in Keys : j # k => e[j] = d[j]
  BY <1>2 DEF Dicts
<1>4. /\ u \in Seq(Keys) /\ Len(u) = l + 1
      /\ \A i \in 1 .. n - 1 : u[i] = a[i]
      /\ u[n] = k
      /\ \A i \in n + 1 .. l + 1 : u[i] = a[i - 1]
  <2>1. a \in Seq(Keys) /\ n \in 1 .. Len(a) + 1
    BY <1>1
  <2> QED
    BY <1>2, <2>1, InsertFacts
<1>5. /\ v \in Seq(Records) /\ Len(v) = l + 1
      /\ \A i \in 1 .. n - 1 : v[i] = r[i]
      /\ v[n] = x
      /\ \A i \in n + 1 .. l + 1 : v[i] = r[i - 1]
  <2>1. r \in Seq(Records) /\ n \in 1 .. Len(r) + 1
    BY <1>1
  <2>2. /\ v \in Seq(Records) /\ Len(v) = Len(r) + 1
        /\ \A i \in 1 .. n - 1 : v[i] = r[i]
        /\ v[n] = x
        /\ \A i \in n + 1 .. Len(r) + 1 : v[i] = r[i - 1]
    BY <2>1, InsertFacts
  <2> HIDE DEF v
  <2> QED
    BY <1>1, <2>2
<1> HIDE DEF e, u, v, l
<1>6. l \in Nat /\ n \in 1 .. l + 1 /\ l = Len(a)
  BY <1>1 DEF l
<1>7. ASSUME NEW i \in 1 .. l + 1
      PROVE  \/ i < n /\ i \in 1 .. l /\ u[i] = a[i] /\ v[i] = r[i] /\ a[i] < k
             \/ i = n /\ u[i] = k /\ v[i] = x
             \/ i > n /\ i - 1 \in 1 .. l /\ u[i] = a[i - 1] /\ v[i] = r[i - 1] /\ k < a[i - 1]
  <2>1. CASE i < n
    <3>1. i \in 1 .. n - 1 /\ i \in 1 .. l
      BY <1>6, <2>1
    <3> QED
      BY <1>4, <1>5, <1>6, <2>1, <3>1 DEF k
  <2>2. CASE i = n
    BY <1>4, <1>5, <2>2
  <2>3. CASE i > n
    <3>1. i \in n + 1 .. l + 1 /\ i - 1 \in 1 .. l /\ i - 1 >= n
      BY <1>6, <2>3
    <3> QED
      BY <1>4, <1>5, <1>6, <2>3, <3>1 DEF k
  <2> QED
    BY <1>6, <2>1, <2>2, <2>3
<1>8. \A i \in 1 .. l : a[i] # k
  <2> TAKE i \in 1 .. l
  <2>1. a[i] < k \/ k < a[i]
    <3>1. i < n \/ i >= n
      BY <1>6
    <3> QED
      BY <1>6, <3>1 DEF k
  <2> QED
    BY <1>1, <1>2, <1>6, <2>1
<1>9. \A i \in 1 .. l + 1 : u[i] \in S /\ u[i] = v[i].key /\ e[u[i]] = v[i]
  <2> TAKE i \in 1 .. l + 1
  <2>1. CASE i < n /\ i \in 1 .. l /\ u[i] = a[i] /\ v[i] = r[i]
    BY <1>1, <1>3, <1>6, <1>8, <2>1
  <2>2. CASE i = n /\ u[i] = k /\ v[i] = x
    BY <1>2, <1>3, <2>2 DEF k
  <2>3. CASE i - 1 \in 1 .. l /\ u[i] = a[i - 1] /\ v[i] = r[i - 1]
    BY <1>1, <1>3, <1>6, <1>8, <2>3
  <2> QED
    BY <1>7, <2>1, <2>2, <2>3
<1>10. ASSUME NEW i \in 1 .. l + 1, NEW j \in 1 .. l + 1, i < j PROVE u[i] < u[j]
  <2>1. CASE j < n
    <3>1. i \in 1 .. l /\ j \in 1 .. l /\ u[i] = a[i] /\ u[j] = a[j]
      BY <1>6, <1>7, <1>10, <2>1
    <3> QED
      BY <1>1, <1>6, <1>10, <3>1
  <2>2. CASE i > n
    <3>1. i - 1 \in 1 .. l /\ j - 1 \in 1 .. l /\ i - 1 < j - 1 /\ u[i] = a[i - 1] /\ u[j] = a[j - 1]
      BY <1>6, <1>7, <1>10, <2>2
    <3> QED
      BY <1>1, <1>6, <3>1
  <2>3. CASE j = n
    BY <1>4, <1>7, <1>10, <2>3
  <2>4. CASE i = n
    BY <1>4, <1>7, <1>10, <2>4
  <2>5. CASE i < n /\ j > n
    <3>1. i \in 1 .. l /\ j - 1 \in 1 .. l /\ i < j - 1 /\ u[i] = a[i] /\ u[j] = a[j - 1]
      BY <1>6, <1>7, <1>10, <2>5
    <3> QED
      BY <1>1, <1>6, <3>1
  <2> QED
    BY <1>6, <2>1, <2>2, <2>3, <2>4, <2>5
<1>11. ASSUME NEW j \in Keys, j \in S, e[j] # None PROVE \E i \in 1 .. l + 1 : u[i] = j
  <2>1. CASE j = k
    BY <1>4, <1>6, <2>1
  <2>2. CASE j # k
    <3>1. PICK i \in 1 .. l : a[i] = j
      BY <1>1, <1>3, <1>6, <1>11, <2>2
    <3>2. CASE i < n
      <4>1. i \in 1 .. n - 1 /\ i \in 1 .. l + 1
        BY <1>6, <3>2
      <4> QED
        BY <1>4, <3>1, <4>1
    <3>3. CASE i >= n
      <4>1. i + 1 \in n + 1 .. l + 1 /\ i + 1 \in 1 .. l + 1 /\ (i + 1) - 1 = i
        BY <1>6, <3>3
      <4>2. u[i + 1] = j
        BY <1>4, <3>1, <4>1
      <4> QED
        BY <4>1, <4>2
    <3> QED
      BY <1>6, <3>2, <3>3
  <2> QED
    BY <2>1, <2>2
<1>12. LeafHolds(u, v, S, e)
  <2>1. u \in Seq(Keys) /\ v \in Seq(Records) /\ Len(v) = Len(u) /\ Len(u) = l + 1
    BY <1>4, <1>5
  <2>2. /\ \A i, j \in 1 .. Len(u) : i < j => u[i] < u[j]
        /\ \A j \in Keys : j \in S /\ e[j] # None => \E i \in 1 .. Len(u) : u[i] = j
    BY <1>10, <1>11, <2>1
  <2>3. \A i \in 1 .. Len(u) : u[i] \in S /\ u[i] = v[i].key /\ e[u[i]] = v[i]
    BY <1>9, <2>1
  <2> QED
    BY <2>1, <2>2, <2>3, LeafMade
<1> QED
  BY <1>12 DEF u, v, e, k

\* delete_from_leaf: key and record leave from the same position.
LEMMA LeafRemove ==
    ASSUME NEW a, NEW r, NEW S, NEW d \in Dicts, LeafHolds(a, r, S, d), NEW n \in 1 .. Len(a)
    PROVE  LeafHolds(RemoveAt(a, n), RemoveAt(r, n), S, [d EXCEPT ![a[n]] = None])
<1>1. /\ a \in Seq(Keys) /\ r \in Seq(Records) /\ Len(r) = Len(a) /\ Len(a) \in Nat
      /\ \A i \in 1 .. Len(a) : a[i] \in Keys /\ a[i] \in Int
      /\ \A i \in 1 .. Len(a) : a[i] \in S /\ a[i] = r[i].key /\ d[a[i]] = r[i]
      /\ \A i, j \in 1 .. Len(a) : i < j => a[i] < a[j]
      /\ \A j \in Keys : j \in S /\ d[j] # None => \E i \in 1 .. Len(a) : a[i] = j
  <2>1. /\ a \in Seq(Keys) /\ r \in Seq(Records) /\ Len(r) = Len(a) /\ Len(a) \in Nat
        /\ \A i \in 1 .. Len(a) : a[i] \in Keys /\ a[i] \in Int
    BY LeafFacts
  <2>2. \A i \in 1 .. Len(a) : a[i] \in S /\ a[i] = r[i].key /\ d[a[i]] = r[i]
    BY LeafFacts
  <2>3. \A i, j \in 1 .. Len(a) : i < j => a[i] < a[j]
    BY LeafFacts
  <2>4. \A j \in Keys : j \in S /\ d[j] # None => \E i \in 1 .. Len(a) : a[i] = j
    BY LeafFacts
  <2> QED
    BY <2>1, <2>2, <2>3, <2>4
<1> DEFINE k == a[n]  l == Len(a)
           e == [d EXCEPT ![k] = None]  u == RemoveAt(a, n)  v == RemoveAt(r, n)
<1>2. k \in Keys /\ k \in Int
  BY <1>1
<1>3. e[k] = None /\ \A j \in Keys : j # k => e[j] = d[j]
  BY <1>2 DEF Dicts
<1>4. /\ u \in Seq(Keys) /\ Len(u) = l - 1
      /\ \A i \in 1 .. n - 1 : u[i] = a[i]
      /\ \A i \in n .. l - 1 : u[i] = a[i + 1]
  <2>1. a \in Seq(Keys) /\ n \in 1 .. Len(a)
    BY <1>1
  <2> QED
    BY <2>1, RemoveFacts
<1>5. /\ v \in Seq(Records) /\ Len(v) = l - 1
      /\ \A i \in 1 .. n - 1 : v[i] = r[i]
      /\ \A i \in n .. l - 1 : v[i] = r[i + 1]
  <2>1. r \in Seq(Records) /\ n \in 1 .. Len(r)
    BY <1>1
  <2>2. /\ v \in Seq(Records) /\ Len(v) = Len(r) - 1
        /\ \A i \in 1 .. n - 1 : v[i] = r[i]
        /\ \A i \in n .. Len(r) - 1 : v[i] = r[i + 1]
    BY <2>1, RemoveFacts
  <2> HIDE DEF v
  <2> QED
    BY <1>1, <2>2
<1> HIDE DEF e, u, v, l
<1>6. l \in Nat /\ n \in 1 .. l /\ l = Len(a)
  BY <1>1 DEF l
<1> HIDE DEF k
<1>7. ASSUME NEW i \in 1 .. l - 1
      PROVE  \/ i < n /\ i \in 1 .. l /\ u[i] = a[i] /\ v[i] = r[i]
             \/ i >= n /\ i + 1 \in 1 .. l /\ u[i] = a[i + 1] /\ v[i] = r[i + 1]
  <2>1. CASE i < n
    <3>1. i \in 1 .. n - 1 /\ i \in 1 .. l
      BY <1>6, <2>1
    <3> QED
      BY <1>4, <1>5, <2>1, <3>1
  <2>2. CASE i >= n
    <3>1. i \in n .. l - 1 /\ i + 1 \in 1 .. l
      BY <1>6, <2>2
    <3> QED
      BY <1>4, <1>5, <2>2, <3>1
  <2> QED
    BY <1>6, <2>1, <2>2
<1>8. \A i \in 1 .. l : i # n => a[i] # k
  <2> TAKE i \in 1 .. l
  <2>1. i < n \/ i = n \/ n < i
    BY <1>6
  <2>2. i < n => a[i] < a[n]
    BY <1>1, <1>6
  <2>3. n < i => a[n] < a[i]
    BY <1>1, <1>6
  <2> QED
    BY <1>1, <1>6, <2>1, <2>2, <2>3 DEF k
<1>9. \A i \in 1 .. l - 1 : u[i] \in S /\ u[i] = v[i].key /\ e[u[i]] = v[i]
  <2> TAKE i \in 1 .. l - 1
  <2>1. CASE i < n /\ i \in 1 .. l /\ u[i] = a[i] /\ v[i] = r[i]
    <3>1. i # n
      BY <1>6, <2>1
    <3> QED
      BY <1>1, <1>3, <1>6, <1>8, <2>1, <3>1
  <2>2. CASE i >= n /\ i + 1 \in 1 .. l /\ u[i] = a[i + 1] /\ v[i] = r[i + 1]
    <3>1. i + 1 # n
      BY <1>6, <2>2
    <3> QED
      BY <1>1, <1>3, <1>6, <1>8, <2>2, <3>1
  <2> QED
    BY <1>7, <2>1, <2>2
<1>10. ASSUME NEW i \in 1 .. l - 1, NEW j \in 1 .. l - 1, i < j PROVE u[i] < u[j]
  <2>1. CASE j < n
    <3>1. i < n
      BY <1>6, <1>10, <2>1
    <3>2. i \in 1 .. l /\ j \in 1 .. l /\ u[i] = a[i] /\ u[j] = a[j]
      BY <1>6, <1>7, <1>10, <2>1, <3>1
    <3> QED
      BY <1>1, <1>6, <1>10, <3>2
  <2>2. CASE i >= n
    <3>1. j >= n /\ i + 1 < j + 1
      BY <1>6, <1>10, <2>2
    <3>2. i + 1 \in 1 .. l /\ j + 1 \in 1 .. l /\ u[i] = a[i + 1] /\ u[j] = a[j + 1]
      BY <1>6, <1>7, <2>2, <3>1
    <3> QED
      BY <1>1, <1>6, <3>1, <3>2
  <2>3. CASE i < n /\ j >= n
    <3>1. i < j + 1
      BY <1>10
    <3>2. i \in 1 .. l /\ j + 1 \in 1 .. l /\ u[i] = a[i] /\ u[j] = a[j + 1]
      BY <1>6, <1>7, <2>3
    <3> QED
      BY <1>1, <1>6, <3>1, <3>2
  <2> QED
    BY <1>6, <2>1, <2>2, <2>3
<1>11. ASSUME NEW j \in Keys, j \in S, e[j] # None PROVE \E i \in 1 .. l - 1 : u[i] = j
  <2>1. j # k
    BY <1>3, <1>11
  <2>2. PICK i \in 1 .. l : a[i] = j
    BY <1>1, <1>3, <1>6, <1>11, <2>1
  <2>3. i # n
    BY <2>1, <2>2 DEF k
  <2>4. CASE i < n
    <3>1. i \in 1 .. n - 1 /\ i \in 1 .. l - 1
      BY <1>6, <2>4
    <3> QED
      BY <1>4, <2>2, <3>1
  <2>5. CASE i > n
    <3>1. i - 1 \in n .. l - 1 /\ i - 1 \in 1 .. l - 1 /\ (i - 1) + 1 = i
      BY <1>6, <2>5
    <3>2. u[i - 1] = j
      BY <1>4, <2>2, <3>1
    <3> QED
      BY <3>1, <3>2
  <2> QED
    BY <1>6, <2>3, <2>4, <2>5
<1>12. LeafHolds(u, v, S, e)
  <2>1. u \in Seq(Keys) /\ v \in Seq(Records) /\ Len(v) = Len(u) /\ Len(u) = l - 1
    BY <1>4, <1>5
  <2>2. /\ \A i, j \in 1 .. Len(u) : i < j => u[i] < u[j]
        /\ \A j \in Keys : j \in S /\ e[j] # None => \E i \in 1 .. Len(u) : u[i] = j
    BY <1>10, <1>11, <2>1
  <2>3. \A i \in 1 .. Len(u) : u[i] \in S /\ u[i] = v[i].key /\ e[u[i]] = v[i]
    BY <1>9, <2>1
  <2> QED
    BY <2>1, <2>2, <2>3, LeafMade
<1> QED
  BY <1>12 DEF u, v, e, k

---------------------------------------------------------------------------
(***************************************************************************)
(* Trees.                                                                  *)
(***************************************************************************)
\* The pages of R one level below l.
Level(R, h, l) == {p \in R : h[p] + 1 = l}

\* The node n, l levels above the leaves, leads a search for a key of S on.
NodeHolds(n, l, S, C, g, d) ==
    /\ n.leaf <=> l = 0
    /\ l = 0 => LeafHolds(n.keys, n.recs, S, d)
    /\ l # 0 => Branches(n.keys, n.kids, S, C, g)

\* No key is missing between two of S.
Solid(S) == \A x, y \in S : \A z \in Int : x < z /\ z < y => z \in S

\* The keys of p come first, those of q next; or no keys come after those of p.
Follows(g, p, q) ==
    /\ \A x \in g[p] : \A y \in g[q] : x < y
    /\ \A x \in g[p] : \A z \in Int : x < z /\ z \notin g[p] => \E y \in g[q] : y <= z
\* No key of Int comes after those of p.
Ends(g, p) == \A x \in g[p] : \A z \in Int : x < z => z \in g[p]

\* next_leaf of every leaf is the leaf whose keys come next.
Chained(N, R, h, g) ==
    \A p \in R : h[p] = 0 =>
        \/ N[p].next = None /\ Ends(g, p)
        \/ N[p].next \in R /\ h[N[p].next] = 0 /\ Follows(g, p, N[p].next)

\* The pages R of N are a B+Tree of the records of d: h is the height above the
\* leaves, g the keys that belong under a page.  The root alone is on top, with all
\* keys; two pages of a level share no key; every node holds what g says; the
\* leaves are a chain.
Tree(N, R, h, g, top, count, d) ==
    /\ \A p \in R : /\ p \in Pages /\ p < count
                    /\ h[p] \in Nat /\ h[p] <= h[top]
                    /\ g[p] \subseteq Int /\ g[p] # {} /\ Solid(g[p])
                    /\ NodeHolds(N[p], h[p], g[p], Level(R, h, h[p]), g, d)
    /\ \A p, q \in R : p # q /\ h[p] = h[q] => \A k \in Int : ~(k \in g[p] /\ k \in g[q])
    /\ top \in R /\ g[top] = Int /\ h[top] < count
    /\ Chained(N, R, h, g)

\* The children of a node: one level down, with keys of their own parent.
LEMMA KidFacts ==
    ASSUME NEW N, NEW R, NEW h, NEW g, NEW top, NEW count, NEW d, Tree(N, R, h, g, top, count, d),
           NEW p \in R, h[p] # 0
    PROVE  /\ Branches(N[p].keys, N[p].kids, g[p], Level(R, h, h[p]), g)
           /\ ~N[p].leaf
           /\ \A i \in 1 .. Len(N[p].kids) : /\ N[p].kids[i] \in R /\ h[N[p].kids[i]] + 1 = h[p]
                                             /\ h[N[p].kids[i]] = h[p] - 1 /\ h[N[p].kids[i]] < h[p]
                                             /\ \A k \in g[N[p].kids[i]] : k \in g[p] /\ k \in Int
<1>1. NodeHolds(N[p], h[p], g[p], Level(R, h, h[p]), g, d) /\ \A q \in R : h[q] \in Nat
  BY DEF Tree
<1>2. Branches(N[p].keys, N[p].kids, g[p], Level(R, h, h[p]), g) /\ ~N[p].leaf
  BY <1>1 DEF NodeHolds
<1> DEFINE c == N[p].kids
<1>3. /\ \A i \in 1 .. Len(c) : c[i] \in Level(R, h, h[p])
      /\ \A i \in 1 .. Len(c) : \A k \in Int : k \in g[c[i]] => k \in g[p]
  BY <1>2 DEF Branches
<1> HIDE DEF c
<1>4. ASSUME NEW i \in 1 .. Len(c)
      PROVE  /\ c[i] \in R /\ h[c[i]] + 1 = h[p] /\ h[c[i]] = h[p] - 1 /\ h[c[i]] < h[p]
             /\ \A k \in g[c[i]] : k \in g[p] /\ k \in Int
  <2>1. c[i] \in R /\ h[c[i]] + 1 = h[p] /\ h[c[i]] \in Nat /\ h[p] \in Nat
    BY <1>1, <1>3 DEF Level
  <2>2. g[c[i]] \subseteq Int
    BY <2>1 DEF Tree
  <2> QED
    BY <1>3, <2>1, <2>2
<1> QED
  BY <1>2, <1>4 DEF c

\* A page is a child once: two places that point to it are the same place.
LEMMA OneParent ==
    ASSUME NEW N, NEW R, NEW h, NEW g, NEW top, NEW count, NEW d, Tree(N, R, h, g, top, count, d),
           NEW p \in R, h[p] # 0, NEW i \in 1 .. Len(N[p].kids),
           NEW q \in R, h[q] # 0, NEW j \in 1 .. Len(N[q].kids), N[p].kids[i] = N[q].kids[j]
    PROVE  p = q /\ i = j
<1> DEFINE x == N[p].kids[i]
<1>1. x \in R /\ h[x] + 1 = h[p] /\ h[x] + 1 = h[q] /\ \A k \in g[x] : k \in g[p] /\ k \in g[q] /\ k \in Int
  BY KidFacts
<1>2. PICK k \in Int : k \in g[x] /\ k \in g[p] /\ k \in g[q]
  <2>1. g[x] # {}
    BY <1>1 DEF Tree
  <2> QED
    BY <1>1, <2>1
<1>3. p = q
  BY <1>1, <1>2 DEF Tree
<1> DEFINE a == N[p].keys  c == N[p].kids
<1>4. Branches(a, c, g[p], Level(R, h, h[p]), g)
  BY KidFacts
<1>5. x = c[i] /\ x = c[j] /\ i \in 1 .. Len(c) /\ j \in 1 .. Len(c)
  BY <1>3
<1> HIDE DEF a, c, x
<1>6. /\ Len(c) = Len(a) + 1 /\ Len(a) \in Nat /\ \A n \in 1 .. Len(a) : a[n] \in Int
      /\ \A m, n \in 1 .. Len(a) : m <= n => a[m] <= a[n]
      /\ \A n \in 1 .. Len(c) : \A y \in Int :
            y \in g[c[n]] <=> y \in g[p] /\ (n > 1 => a[n - 1] <= y) /\ (n <= Len(a) => y < a[n])
  BY <1>4, BranchFacts
<1>7. /\ (i > 1 => a[i - 1] <= k) /\ (i <= Len(a) => k < a[i])
      /\ (j > 1 => a[j - 1] <= k) /\ (j <= Len(a) => k < a[j])
  BY <1>2, <1>5, <1>6
<1>8. ~(i < j)
  <2> SUFFICES ASSUME i < j PROVE FALSE
    OBVIOUS
  <2>1. i \in 1 .. Len(a) /\ j - 1 \in 1 .. Len(a) /\ i <= j - 1 /\ j > 1 /\ i <= Len(a)
    BY <1>5, <1>6
  <2>2. a[i] <= a[j - 1] /\ k < a[i] /\ a[j - 1] <= k /\ a[i] \in Int /\ a[j - 1] \in Int
    BY <1>6, <1>7, <2>1
  <2> QED
    BY <2>2
<1>9. ~(j < i)
  <2> SUFFICES ASSUME j < i PROVE FALSE
    OBVIOUS
  <2>1. j \in 1 .. Len(a) /\ i - 1 \in 1 .. Len(a) /\ j <= i - 1 /\ i > 1 /\ j <= Len(a)
    BY <1>5, <1>6
  <2>2. a[j] <= a[i - 1] /\ k < a[j] /\ a[i - 1] <= k /\ a[j] \in Int /\ a[i - 1] \in Int
    BY <1>6, <1>7, <2>1
  <2> QED
    BY <2>2
<1> QED
  BY <1>3, <1>8, <1>9

\* The tree N becomes M: the children D of the page p are replaced by the
\* pages E, which share the keys of D, and p leads on to them.
Replaced(N, R, h, g, top, count, d, M, Q, j, f, more, p, D, E) ==
    /\ Tree(N, R, h, g, top, count, d)
    /\ more \in Int /\ count \in Int /\ count <= more
    /\ p \in R /\ h[p] # 0 /\ D \subseteq R /\ Q = (R \ D) \union E
    /\ \A q \in D : \E i \in 1 .. Len(N[p].kids) : N[p].kids[i] = q
    /\ \A q \in E : q \in Pages /\ q < more /\ (q \in R => q \in D)
    /\ \A q \in Q : q \notin E /\ q # p => M[q] = N[q]
    /\ \A q \in R : q \notin E => j[q] = h[q] /\ f[q] = g[q]
    /\ \A q \in E : /\ j[q] + 1 = h[p] /\ j[q] \in Nat /\ f[q] \subseteq Int /\ f[q] # {} /\ Solid(f[q])
                     /\ NodeHolds(M[q], j[q], f[q], Level(R, h, j[q]), g, d)
                     /\ \A k \in f[q] : \E o \in D : k \in g[o]
    /\ \A q, o \in E : q # o => \A k \in Int : ~(k \in f[q] /\ k \in f[o])
    /\ NodeHolds(M[p], h[p], g[p], Level(Q, j, h[p]), f, d)
    /\ Chained(M, Q, j, f)

\* Then M is a tree of the same keys.
LEMMA TreeReplace ==
    ASSUME NEW N, NEW R, NEW h, NEW g, NEW top, NEW count, NEW d,
           NEW M, NEW Q, NEW j, NEW f, NEW more, NEW p, NEW D, NEW E,
           Replaced(N, R, h, g, top, count, d, M, Q, j, f, more, p, D, E)
    PROVE  Tree(M, Q, j, f, top, more, d)
<1> USE DEF Replaced
<1>1. \A q \in D : q \in R /\ h[q] + 1 = h[p] /\ h[q] < h[p]
  BY KidFacts
<1>2. /\ \A q \in R : h[q] \in Nat /\ h[q] <= h[top] /\ q \in Pages /\ q < count /\ q \in Int
      /\ \A q \in R : g[q] \subseteq Int /\ g[q] # {} /\ Solid(g[q])
      /\ top \in R /\ g[top] = Int /\ h[top] < count
      /\ \A q, o \in R : q # o /\ h[q] = h[o] => \A k \in Int : ~(k \in g[q] /\ k \in g[o])
  <2>1. \A q \in Pages : q \in Int
    BY DEF Pages
  <2> QED
    BY <2>1 DEF Tree
<1>3. p \notin D /\ p \notin E /\ top \notin D /\ top \notin E
  BY <1>1, <1>2
<1>4. top \in Q /\ f[top] = Int /\ j[top] = h[top] /\ j[top] < more /\ p \in Q /\ j[p] = h[p] /\ f[p] = g[p]
  BY <1>2, <1>3
<1>5. \A q \in Q : q \in E \/ (q \in R /\ q \notin D /\ q \notin E)
  OBVIOUS
<1>6. \A q \in Q : /\ q \in Pages /\ q < more /\ j[q] \in Nat /\ j[q] <= j[top]
                   /\ f[q] \subseteq Int /\ f[q] # {} /\ Solid(f[q])
  <2> TAKE q \in Q
  <2>1. CASE q \in E
    <3>1. j[q] <= h[top]
      BY <1>2, <2>1
    <3> QED
      BY <1>4, <2>1, <3>1
  <2>2. CASE q \in R /\ q \notin E
    BY <1>2, <1>4, <2>2
  <2> QED
    BY <1>5, <2>1, <2>2
<1>7. ASSUME NEW q \in Q, NEW o \in Q, q # o, j[q] = j[o], NEW k \in Int, k \in f[q], k \in f[o]
      PROVE  FALSE
  <2>1. CASE q \in E /\ o \in E
    BY <1>7, <2>1
  <2>2. CASE q \notin E /\ o \notin E
    <3>1. q \in R /\ o \in R /\ h[q] = h[o] /\ k \in g[q] /\ k \in g[o]
      BY <1>5, <1>7, <2>2
    <3> QED
      BY <1>2, <1>7, <3>1
  <2>3. ASSUME NEW x \in E, NEW y \in Q, y \notin E, j[x] = j[y], k \in f[x], k \in f[y] PROVE FALSE
    <3>1. PICK z \in D : k \in g[z]
      BY <2>3
    <3>2. y \in R /\ y \notin D /\ h[y] = j[y] /\ k \in g[y]
      BY <1>5, <2>3
    <3>3. z # y /\ z \in R /\ h[z] = h[y]
      <4>1. z \in R /\ z # y /\ h[z] + 1 = h[p] /\ h[z] \in Nat /\ h[y] \in Nat
        BY <1>1, <1>2, <3>1, <3>2
      <4>2. h[y] + 1 = h[p]
        BY <2>3, <3>2
      <4> QED
        BY <4>1, <4>2
    <3> QED
      BY <1>2, <3>1, <3>2, <3>3
  <2> QED
    BY <1>7, <2>1, <2>2, <2>3
<1>8. ASSUME NEW q \in Q, q # p
      PROVE  NodeHolds(M[q], j[q], f[q], Level(Q, j, j[q]), f, d)
  <2> DEFINE n == M[q]  l == j[q]
  <2>1. NodeHolds(n, l, f[q], Level(R, h, l), g, d)
    <3>1. CASE q \in E
      BY <3>1
    <3>2. CASE q \in R /\ q \notin D /\ q \notin E
      <4>1. M[q] = N[q] /\ j[q] = h[q] /\ f[q] = g[q]
        BY <1>8, <3>2
      <4>2. NodeHolds(N[q], h[q], g[q], Level(R, h, h[q]), g, d)
        BY <3>2 DEF Tree
      <4> QED
        BY <4>1, <4>2
    <3> QED
      BY <1>5, <3>1, <3>2
  <2>2. CASE l = 0
    BY <2>1, <2>2 DEF NodeHolds
  <2>3. CASE l # 0
    <3>1. Branches(n.keys, n.kids, f[q], Level(R, h, l), g)
      BY <2>1, <2>3 DEF NodeHolds
    <3>2. ASSUME NEW i \in 1 .. Len(n.kids) PROVE n.kids[i] \in R /\ h[n.kids[i]] + 1 = l
      BY <3>1 DEF Branches, Level
    <3>3. ASSUME NEW i \in 1 .. Len(n.kids) PROVE n.kids[i] \notin D
      <4>1. CASE q \in E
        <5>1. h[n.kids[i]] + 1 = l /\ l + 1 = h[p] /\ l \in Nat
          BY <3>2, <4>1
        <5> HIDE DEF n, l
        <5>2. n.kids[i] \in D => h[n.kids[i]] + 1 = h[p]
          BY <1>1
        <5> QED
          BY <5>1, <5>2
      <4>2. CASE q \in R /\ q \notin D /\ q \notin E
        <5>1. M[q] = N[q] /\ j[q] = h[q] /\ h[q] # 0 /\ i \in 1 .. Len(N[q].kids)
          BY <1>8, <2>3, <4>2
        <5> SUFFICES ASSUME n.kids[i] \in D PROVE FALSE
          OBVIOUS
        <5>2. PICK m \in 1 .. Len(N[p].kids) : N[p].kids[m] = N[q].kids[i]
          BY <5>1
        <5>3. p = q
          BY <4>2, <5>1, <5>2, OneParent
        <5> QED
          BY <1>8, <5>3
      <4> QED
        BY <1>5, <4>1, <4>2
    <3>4. ASSUME NEW i \in 1 .. Len(n.kids)
          PROVE  n.kids[i] \in Level(Q, j, l) /\ f[n.kids[i]] = g[n.kids[i]]
      <4>1. n.kids[i] \in R /\ n.kids[i] \notin D /\ n.kids[i] \notin E /\ h[n.kids[i]] + 1 = l
        BY <3>2, <3>3
      <4> HIDE DEF n, l
      <4>2. j[n.kids[i]] = h[n.kids[i]] /\ f[n.kids[i]] = g[n.kids[i]] /\ n.kids[i] \in Q
        BY <4>1
      <4> QED
        BY <4>1, <4>2 DEF Level
    <3> HIDE DEF n, l
    <3>5. Branches(n.keys, n.kids, f[q], Level(Q, j, l), f)
      BY <3>1, <3>4 DEF Branches
    <3> QED
      BY <2>1, <2>3, <3>5 DEF NodeHolds, n, l
  <2> QED
    BY <2>2, <2>3
<1>9. \A q \in Q : NodeHolds(M[q], j[q], f[q], Level(Q, j, j[q]), f, d)
  <2> TAKE q \in Q
  <2>1. q = p => NodeHolds(M[q], j[q], f[q], Level(Q, j, j[q]), f, d)
    BY <1>4
  <2> QED
    BY <1>8, <2>1
<1>10. \A q, o \in Q : q # o /\ j[q] = j[o] => \A k \in Int : ~(k \in f[q] /\ k \in f[o])
  BY <1>7
<1> QED
  BY <1>4, <1>6, <1>9, <1>10 DEF Tree

\* The chain is about leaves only.
LEMMA ChainSame ==
    ASSUME NEW N, NEW R, NEW h, NEW g, NEW M, NEW Q, NEW j, NEW f, Chained(N, R, h, g),
           \A p \in Q : j[p] = 0 => p \in R /\ h[p] = 0 /\ M[p].next = N[p].next /\ f[p] = g[p],
           \A p \in R : h[p] = 0 => p \in Q /\ j[p] = 0 /\ f[p] = g[p]
    PROVE  Chained(M, Q, j, f)
<1> SUFFICES ASSUME NEW p \in Q, j[p] = 0
             PROVE  \/ M[p].next = None /\ Ends(f, p)
                    \/ M[p].next \in Q /\ j[M[p].next] = 0 /\ Follows(f, p, M[p].next)
  BY DEF Chained
<1>1. p \in R /\ h[p] = 0 /\ M[p].next = N[p].next /\ f[p] = g[p]
  OBVIOUS
<1>2. CASE N[p].next = None /\ Ends(g, p)
  BY <1>1, <1>2 DEF Ends
<1>3. CASE N[p].next \in R /\ h[N[p].next] = 0 /\ Follows(g, p, N[p].next)
  <2>1. PICK q : q = N[p].next
    OBVIOUS
  <2>2. q \in Q /\ j[q] = 0 /\ f[q] = g[q]
    BY <1>3, <2>1
  <2>3. Follows(f, p, q)
    BY <1>1, <1>3, <2>1, <2>2 DEF Follows
  <2> QED
    BY <1>1, <2>1, <2>2, <2>3
<1> QED
  BY <1>1, <1>2, <1>3 DEF Chained

\* A set without gaps has none below or from a key on.
LEMMA SolidParts ==
    ASSUME NEW S \in SUBSET Int, Solid(S), NEW x \in Int
    PROVE  Solid(Below(S, x)) /\ Solid(From(S, x))
<1>1. ASSUME NEW a \in Below(S, x), NEW b \in Below(S, x), NEW z \in Int, a < z, z < b
      PROVE  z \in Below(S, x)
  <2>1. a \in S /\ b \in S /\ b < x /\ a \in Int /\ b \in Int
    BY DEF Below
  <2>2. z \in S
    BY <1>1, <2>1 DEF Solid
  <2>3. z < x
    BY <1>1, <2>1
  <2> QED
    BY <2>2, <2>3 DEF Below
<1>2. ASSUME NEW a \in From(S, x), NEW b \in From(S, x), NEW z \in Int, a < z, z < b
      PROVE  z \in From(S, x)
  <2>1. a \in S /\ b \in S /\ x <= a /\ a \in Int /\ b \in Int
    BY DEF From
  <2>2. z \in S
    BY <1>2, <2>1 DEF Solid
  <2>3. x <= z
    BY <1>2, <2>1
  <2> QED
    BY <2>2, <2>3 DEF From
<1> QED
  BY <1>1, <1>2 DEF Solid

\* A leaf is next_leaf of one leaf at most.
LEMMA OneBefore ==
    ASSUME NEW g, NEW o, NEW a, NEW b, g[o] \subseteq Int, g[a] \subseteq Int, g[b] \subseteq Int,
           g[o] # {}, g[a] # {}, Follows(g, o, b), Follows(g, a, b)
    PROVE  \E k \in Int : k \in g[o] /\ k \in g[a]
<1> SUFFICES ASSUME \A k \in Int : ~(k \in g[o] /\ k \in g[a]) PROVE FALSE
  OBVIOUS
<1>1. PICK x \in g[o], y \in g[a] : TRUE
  OBVIOUS
<1>2. x \in Int /\ y \in Int /\ x \notin g[a] /\ y \notin g[o] /\ x # y
  OBVIOUS
<1>3. CASE x < y
  <2>1. PICK z \in g[b] : z <= y
    BY <1>2, <1>3 DEF Follows
  <2>2. y < z /\ z \in Int
    BY DEF Follows
  <2> QED
    BY <1>2, <2>1, <2>2
<1>4. CASE y < x
  <2>1. PICK z \in g[b] : z <= x
    BY <1>2, <1>4 DEF Follows
  <2>2. x < z /\ z \in Int
    BY DEF Follows
  <2> QED
    BY <1>2, <2>1, <2>2
<1> QED
  BY <1>2, <1>3, <1>4

\* The leaf c is cut at x, and the new leaf q comes between it and the next.
ChainedCut(N, R, h, g, M, Q, j, f, c, q, x) ==
    /\ Chained(N, R, h, g) /\ c \in R /\ h[c] = 0 /\ q \notin R /\ Q = R \union {q}
    /\ j[q] = 0 /\ \A o \in R : j[o] = h[o] /\ g[o] \subseteq Int
    /\ \A o \in R : o # c => f[o] = g[o]
    /\ f[c] = Below(g[c], x) /\ f[q] = From(g[c], x)
    /\ x \in Int /\ x \in g[c] /\ Solid(g[c]) /\ \E y \in g[c] : y < x
    /\ M[c].next = q /\ M[q].next = N[c].next
    /\ \A o \in R : o # c /\ h[o] = 0 => M[o].next = N[o].next

\* A leaf cut in two: the new leaf takes its place in the chain.
LEMMA ChainCut ==
    ASSUME NEW N, NEW R, NEW h, NEW g, NEW M, NEW Q, NEW j, NEW f, NEW c, NEW q, NEW x,
           ChainedCut(N, R, h, g, M, Q, j, f, c, q, x)
    PROVE  Chained(M, Q, j, f)
<1>0. /\ Chained(N, R, h, g) /\ c \in R /\ h[c] = 0 /\ q \notin R /\ Q = R \union {q}
      /\ j[q] = 0 /\ \A o \in R : j[o] = h[o] /\ g[o] \subseteq Int
      /\ \A o \in R : o # c => f[o] = g[o]
      /\ f[c] = Below(g[c], x) /\ f[q] = From(g[c], x)
      /\ x \in Int /\ x \in g[c] /\ Solid(g[c]) /\ \E y \in g[c] : y < x
      /\ M[c].next = q /\ M[q].next = N[c].next
      /\ \A o \in R : o # c /\ h[o] = 0 => M[o].next = N[o].next
  BY DEF ChainedCut
<1>1. \A k : k \in f[c] <=> k \in g[c] /\ k < x
  BY ONLY <1>0 DEF Below
<1>2. \A k : k \in f[q] <=> k \in g[c] /\ x <= k
  BY ONLY <1>0 DEF From
<1>3. g[c] \subseteq Int /\ x \in Int /\ x \in g[c] /\ x <= x /\ Solid(g[c])
  BY ONLY <1>0
<1>4. PICK y \in g[c] : y < x
  BY <1>0
<1>5. \A o \in R : h[o] = 0 => \/ N[o].next = None /\ Ends(g, o)
                               \/ N[o].next \in R /\ h[N[o].next] = 0 /\ Follows(g, o, N[o].next)
  BY ONLY <1>0 DEF Chained
<1>6. Follows(f, c, q)
  <2>1. \A a \in f[c] : \A b \in f[q] : a < b
    BY ONLY <1>1, <1>2, <1>3
  <2>2. ASSUME NEW a \in f[c], NEW z \in Int, a < z, z \notin f[c] PROVE \E b \in f[q] : b <= z
    <3>1. x <= z
      <4> SUFFICES ASSUME z < x PROVE FALSE
        BY <1>3
      <4>1. z \notin g[c]
        BY <1>1, <2>2
      <4> QED
        BY <1>1, <1>3, <2>2, <4>1 DEF Solid
    <3> QED
      BY <1>2, <1>3, <3>1
  <2> QED
    BY <2>1, <2>2 DEF Follows
<1>7. ASSUME NEW r \in R, h[r] = 0, Follows(g, c, r)
      PROVE  r \in Q /\ j[r] = 0 /\ Follows(f, q, r)
  <2>1. r # c
    <3>1. ~(y < y)
      BY <1>3, <1>4
    <3> QED
      BY <1>4, <1>7, <3>1 DEF Follows
  <2>2. f[r] = g[r] /\ j[r] = 0 /\ r \in Q
    BY ONLY <1>0, <1>7, <2>1
  <2>3. \A a \in f[q] : \A b \in f[r] : a < b
    BY ONLY <1>2, <1>7, <2>2 DEF Follows
  <2>4. ASSUME NEW a \in f[q], NEW z \in Int, a < z, z \notin f[q] PROVE \E b \in f[r] : b <= z
    <3>1. a \in g[c] /\ x <= a /\ a \in Int
      BY <1>2, <1>3, <2>4
    <3>2. z \notin g[c]
      <4>1. x <= z
        BY <1>3, <2>4, <3>1
      <4> QED
        BY <1>2, <2>4, <4>1
    <3> QED
      BY <1>7, <2>2, <2>4, <3>1, <3>2 DEF Follows
  <2> QED
    BY <2>2, <2>3, <2>4 DEF Follows
<1>8. ASSUME Ends(g, c) PROVE Ends(f, q)
  <2> SUFFICES ASSUME NEW a \in f[q], NEW z \in Int, a < z PROVE z \in f[q]
    BY DEF Ends
  <2>1. a \in g[c] /\ x <= a /\ a \in Int
    BY <1>2, <1>3
  <2>2. z \in g[c] /\ x <= z
    BY <1>3, <1>8, <2>1 DEF Ends
  <2> QED
    BY <1>2, <2>2
<1>9. ASSUME NEW o \in R, o # c, Follows(g, o, c) PROVE Follows(f, o, c)
  <2>1. f[o] = g[o]
    BY ONLY <1>0, <1>9
  <2>2. \A a \in f[o] : \A b \in f[c] : a < b
    BY ONLY <1>1, <1>9, <2>1 DEF Follows
  <2>3. ASSUME NEW a \in f[o], NEW z \in Int, a < z, z \notin f[o] PROVE \E b \in f[c] : b <= z
    <3>1. PICK b \in g[c] : b <= z
      BY <1>9, <2>1, <2>3 DEF Follows
    <3>2. CASE b < x
      BY <1>1, <3>1, <3>2
    <3>3. CASE x <= b
      <4>1. y <= z
        BY <1>3, <1>4, <3>1, <3>3
      <4>2. y \in f[c]
        BY <1>1, <1>4
      <4> QED
        BY <4>1, <4>2
    <3> QED
      BY <1>3, <3>2, <3>3
  <2> QED
    BY <2>2, <2>3 DEF Follows
<1>10. ASSUME NEW o \in R, h[o] = 0, o # c
       PROVE  \/ M[o].next = None /\ Ends(f, o)
              \/ M[o].next \in Q /\ j[M[o].next] = 0 /\ Follows(f, o, M[o].next)
  <2>0. PICK r : r = N[o].next
    OBVIOUS
  <2>1. M[o].next = r /\ f[o] = g[o]
    BY ONLY <1>0, <1>10, <2>0
  <2>2. CASE r = None /\ Ends(g, o)
    BY ONLY <2>1, <2>2 DEF Ends
  <2>3. CASE r \in R /\ h[r] = 0 /\ Follows(g, o, r)
    <3>1. r \in Q /\ j[r] = 0
      BY ONLY <1>0, <2>3
    <3>2. CASE r = c
      <4>1. Follows(f, o, r)
        BY <1>9, <1>10, <2>3, <3>2
      <4> QED
        BY ONLY <2>1, <3>1, <4>1
    <3>3. CASE r # c
      <4>1. f[r] = g[r]
        BY ONLY <1>0, <2>3, <3>3
      <4>2. Follows(f, o, r)
        BY ONLY <2>1, <2>3, <4>1 DEF Follows
      <4> QED
        BY ONLY <2>1, <3>1, <4>2
    <3> QED
      BY <3>2, <3>3
  <2> QED
    BY ONLY <1>5, <1>10, <2>0, <2>2, <2>3
<1>11. \/ M[q].next = None /\ Ends(f, q)
       \/ M[q].next \in Q /\ j[M[q].next] = 0 /\ Follows(f, q, M[q].next)
  <2>0. PICK r : r = N[c].next
    OBVIOUS
  <2>1. M[q].next = r /\ c \in R /\ h[c] = 0
    BY ONLY <1>0, <2>0
  <2>2. CASE r = None /\ Ends(g, c)
    BY ONLY <1>8, <2>1, <2>2
  <2>3. CASE r \in R /\ h[r] = 0 /\ Follows(g, c, r)
    <3>1. r \in Q /\ j[r] = 0 /\ Follows(f, q, r)
      BY ONLY <1>7, <2>3
    <3> QED
      BY ONLY <2>1, <3>1
  <2> QED
    BY ONLY <1>5, <2>0, <2>1, <2>2, <2>3
<1>12. M[c].next = q /\ q \in Q /\ j[q] = 0
  BY ONLY <1>0
<1>13. ASSUME NEW o \in Q, j[o] = 0
       PROVE  \/ M[o].next = None /\ Ends(f, o)
              \/ M[o].next \in Q /\ j[M[o].next] = 0 /\ Follows(f, o, M[o].next)
  <2>1. o = q \/ o = c \/ (o \in R /\ h[o] = 0 /\ o # c)
    BY ONLY <1>0, <1>13
  <2>2. CASE o = q
    BY ONLY <1>11, <2>2
  <2>3. CASE o = c
    BY ONLY <1>6, <1>12, <2>3
  <2>4. CASE o \in R /\ h[o] = 0 /\ o # c
    BY ONLY <1>10, <2>4
  <2> QED
    BY ONLY <2>1, <2>2, <2>3, <2>4
<1> QED
  BY ONLY <1>13 DEF Chained

\* The leaf a takes over the keys of the next leaf b, which is left out.
ChainedMerge(N, R, h, g, M, Q, j, f, a, b) ==
    /\ Chained(N, R, h, g) /\ a \in R /\ b \in R /\ a # b /\ h[a] = 0 /\ h[b] = 0 /\ N[a].next = b
    /\ b # None /\ \A o \in R : g[o] \subseteq Int /\ g[o] # {}
    /\ \A o, r \in R : o # r /\ h[o] = h[r] => \A k \in Int : ~(k \in g[o] /\ k \in g[r])
    /\ Q = R \ {b} /\ \A o \in Q : j[o] = h[o] /\ (o # a => f[o] = g[o])
    /\ f[a] = g[a] \union g[b] /\ M[a].next = N[b].next
    /\ \A o \in Q : o # a /\ h[o] = 0 => M[o].next = N[o].next

\* Two leaves joined: the chain leaves the second one out.
LEMMA ChainMerge ==
    ASSUME NEW N, NEW R, NEW h, NEW g, NEW M, NEW Q, NEW j, NEW f, NEW a, NEW b,
           ChainedMerge(N, R, h, g, M, Q, j, f, a, b)
    PROVE  Chained(M, Q, j, f)
<1>0. /\ Chained(N, R, h, g) /\ a \in R /\ b \in R /\ a # b /\ h[a] = 0 /\ h[b] = 0 /\ N[a].next = b
      /\ b # None /\ \A o \in R : g[o] \subseteq Int /\ g[o] # {}
      /\ \A o, r \in R : o # r /\ h[o] = h[r] => \A k \in Int : ~(k \in g[o] /\ k \in g[r])
      /\ Q = R \ {b} /\ \A o \in Q : j[o] = h[o] /\ (o # a => f[o] = g[o])
      /\ f[a] = g[a] \union g[b] /\ M[a].next = N[b].next
      /\ \A o \in Q : o # a /\ h[o] = 0 => M[o].next = N[o].next
  BY DEF ChainedMerge
<1>1. \A o \in R : h[o] = 0 => \/ N[o].next = None /\ Ends(g, o)
                               \/ N[o].next \in R /\ h[N[o].next] = 0 /\ Follows(g, o, N[o].next)
  BY ONLY <1>0 DEF Chained
<1>2. g[a] \subseteq Int /\ g[b] \subseteq Int /\ g[a] # {} /\ g[b] # {}
      /\ \A k : k \in f[a] <=> k \in g[a] \/ k \in g[b]
  BY ONLY <1>0
<1>3. Follows(g, a, b)
  BY ONLY <1>0, <1>1
<1>4. PICK v \in g[a], w \in g[b] : TRUE
  BY <1>2
<1>5. /\ \A x \in g[a] : \A y \in g[b] : x < y
      /\ \A x \in g[a] : \A z \in Int : x < z /\ z \notin g[a] => \E y \in g[b] : y <= z
  BY ONLY <1>3 DEF Follows
<1>6. ASSUME NEW o \in R, h[o] = 0, Follows(g, o, b) PROVE o = a
  <2>1. g[o] \subseteq Int /\ g[o] # {}
    BY ONLY <1>0
  <2>2. \E k \in Int : k \in g[o] /\ k \in g[a]
    BY ONLY <1>2, <1>3, <1>6, <2>1, OneBefore
  <2> QED
    BY ONLY <1>0, <1>6, <2>2
<1>7. ASSUME NEW x \in f[a], NEW z \in Int, x < z, z \notin f[a]
      PROVE  \E y \in g[b] : y < z
  <2>1. z \notin g[a] /\ z \notin g[b]
    BY ONLY <1>2, <1>7
  <2>2. CASE x \in g[b]
    BY ONLY <1>7, <2>2
  <2>3. CASE x \in g[a]
    <3>1. PICK y \in g[b] : y <= z
      BY ONLY <1>5, <1>7, <2>1, <2>3
    <3>2. y < z
      BY ONLY <1>2, <2>1, <3>1, z \in Int
    <3> QED
      BY <3>2
  <2> QED
    BY ONLY <1>2, <1>7, <2>2, <2>3
<1>8. ASSUME Ends(g, b) PROVE Ends(f, a)
  <2> SUFFICES ASSUME NEW x \in f[a], NEW z \in Int, x < z, z \notin f[a] PROVE FALSE
    BY DEF Ends
  <2>1. PICK y \in g[b] : y < z
    BY ONLY <1>7, x \in f[a], z \in Int, x < z, z \notin f[a]
  <2> QED
    BY <1>2, <1>8, <2>1 DEF Ends
<1>9. ASSUME NEW r \in R, h[r] = 0, Follows(g, b, r)
      PROVE  r \in Q /\ j[r] = 0 /\ Follows(f, a, r)
  <2>1. PICK u \in g[r] : u \in Int
    BY ONLY <1>0
  <2>2. /\ \A x \in g[b] : \A y \in g[r] : x < y
        /\ \A x \in g[b] : \A z \in Int : x < z /\ z \notin g[b] => \E y \in g[r] : y <= z
    BY ONLY <1>9 DEF Follows
  <2>3. r # a
    <3> SUFFICES ASSUME r = a PROVE FALSE
      OBVIOUS
    <3>1. v < w /\ w < v /\ v \in Int /\ w \in Int
      BY <1>2, <1>4, <1>5, <2>2
    <3> QED
      BY ONLY <3>1
  <2>4. r # b
    <3> SUFFICES ASSUME r = b PROVE FALSE
      OBVIOUS
    <3>1. w < w /\ w \in Int
      BY <1>2, <1>4, <2>2
    <3> QED
      BY ONLY <3>1
  <2>5. r \in Q /\ j[r] = 0 /\ f[r] = g[r] /\ g[r] \subseteq Int
    BY ONLY <1>0, <1>9, <2>3, <2>4
  <2>6. ASSUME NEW x \in f[a], NEW y \in f[r] PROVE x < y
    <3>1. y \in g[r] /\ y \in Int /\ w \in Int /\ w < y
      BY <1>2, <1>4, <2>2, <2>5
    <3>2. CASE x \in g[a]
      <4>1. x < w /\ x \in Int
        BY <1>2, <1>4, <1>5, <3>2
      <4> QED
        BY ONLY <3>1, <4>1
    <3>3. CASE x \in g[b]
      BY ONLY <2>2, <3>1, <3>3
    <3> QED
      BY ONLY <1>2, <2>6, <3>2, <3>3
  <2>7. ASSUME NEW x \in f[a], NEW z \in Int, x < z, z \notin f[a] PROVE \E y \in f[r] : y <= z
    <3>1. PICK y \in g[b] : y < z
      BY ONLY <1>7, <2>7
    <3>2. z \notin g[b]
      BY ONLY <1>2, <2>7
    <3> QED
      BY ONLY <2>2, <2>5, <3>1, <3>2, z \in Int
  <2>8. Follows(f, a, r)
    BY ONLY <2>6, <2>7 DEF Follows
  <2> QED
    BY ONLY <2>5, <2>8
<1>10. ASSUME NEW o \in R, o # a, o # b, Follows(g, o, a) PROVE Follows(f, o, a)
  <2>0. f[o] = g[o] /\ g[o] \subseteq Int
    BY ONLY <1>0, <1>10
  <2>1. /\ \A x \in g[o] : \A y \in g[a] : x < y
        /\ \A x \in g[o] : \A z \in Int : x < z /\ z \notin g[o] => \E y \in g[a] : y <= z
    BY ONLY <1>10 DEF Follows
  <2>2. ASSUME NEW x \in f[o], NEW y \in f[a] PROVE x < y
    <3>1. x \in g[o] /\ x \in Int /\ x < v /\ v \in Int
      BY <1>2, <1>4, <2>0, <2>1
    <3>2. CASE y \in g[a]
      BY ONLY <2>1, <3>1, <3>2
    <3>3. CASE y \in g[b]
      <4>1. v < y /\ y \in Int
        BY <1>2, <1>4, <1>5, <3>3
      <4> QED
        BY ONLY <3>1, <4>1
    <3> QED
      BY ONLY <1>2, <2>2, <3>2, <3>3
  <2>3. ASSUME NEW x \in f[o], NEW z \in Int, x < z, z \notin f[o] PROVE \E y \in f[a] : y <= z
    BY ONLY <1>2, <2>0, <2>1, <2>3
  <2> QED
    BY ONLY <2>2, <2>3 DEF Follows
<1>11. ASSUME NEW o \in Q, j[o] = 0, o # a
       PROVE  \/ M[o].next = None /\ Ends(f, o)
              \/ M[o].next \in Q /\ j[M[o].next] = 0 /\ Follows(f, o, M[o].next)
  <2>0. PICK r : r = N[o].next
    OBVIOUS
  <2>1. M[o].next = r /\ f[o] = g[o] /\ o \in R /\ h[o] = 0 /\ o # b
    BY ONLY <1>0, <1>11, <2>0
  <2>2. CASE r = None /\ Ends(g, o)
    BY ONLY <2>1, <2>2 DEF Ends
  <2>3. CASE r \in R /\ h[r] = 0 /\ Follows(g, o, r)
    <3>1. r # b
      BY ONLY <1>6, <1>11, <2>1, <2>3
    <3>2. r \in Q /\ j[r] = 0
      BY ONLY <1>0, <2>3, <3>1
    <3>3. CASE r = a
      <4>1. Follows(f, o, r)
        BY ONLY <1>10, <1>11, <2>1, <2>3, <3>3
      <4> QED
        BY ONLY <2>1, <3>2, <4>1
    <3>4. CASE r # a
      <4>1. f[r] = g[r]
        BY ONLY <1>0, <3>2, <3>4
      <4>2. Follows(f, o, r)
        BY ONLY <2>1, <2>3, <4>1 DEF Follows
      <4> QED
        BY ONLY <2>1, <3>2, <4>2
    <3> QED
      BY ONLY <3>3, <3>4
  <2> QED
    BY ONLY <1>1, <2>0, <2>1, <2>2, <2>3
<1>12. \/ M[a].next = None /\ Ends(f, a)
       \/ M[a].next \in Q /\ j[M[a].next] = 0 /\ Follows(f, a, M[a].next)
  <2>0. PICK r : r = N[b].next
    OBVIOUS
  <2>1. M[a].next = r /\ b \in R /\ h[b] = 0
    BY ONLY <1>0, <2>0
  <2>2. CASE r = None /\ Ends(g, b)
    BY ONLY <1>8, <2>1, <2>2
  <2>3. CASE r \in R /\ h[r] = 0 /\ Follows(g, b, r)
    <3>1. r \in Q /\ j[r] = 0 /\ Follows(f, a, r)
      BY ONLY <1>9, <2>3
    <3> QED
      BY ONLY <2>1, <3>1
  <2> QED
    BY ONLY <1>1, <2>0, <2>1, <2>2, <2>3
<1>13. ASSUME NEW o \in Q, j[o] = 0
       PROVE  \/ M[o].next = None /\ Ends(f, o)
              \/ M[o].next \in Q /\ j[M[o].next] = 0 /\ Follows(f, o, M[o].next)
  <2>1. CASE o = a
    BY ONLY <1>12, <2>1
  <2>2. CASE o # a
    BY ONLY <1>11, <1>13, <2>2
  <2> QED
    BY ONLY <2>1, <2>2
<1> QED
  BY ONLY <1>13 DEF Chained

\* Two leaves next to each other move the key that parts them.
ChainedShift(N, R, h, g, M, f, a, b, x) ==
    /\ Chained(N, R, h, g) /\ a \in R /\ b \in R /\ a # b /\ h[a] = 0 /\ h[b] = 0 /\ N[a].next = b
    /\ b # None /\ \A o \in R : g[o] \subseteq Int /\ g[o] # {}
    /\ \A o, r \in R : o # r /\ h[o] = h[r] => \A k \in Int : ~(k \in g[o] /\ k \in g[r])
    /\ Solid(g[a] \union g[b])
    /\ \A o \in R : o # a /\ o # b => f[o] = g[o]
    /\ x \in Int /\ f[a] = Below(g[a] \union g[b], x) /\ f[b] = From(g[a] \union g[b], x)
    /\ f[a] # {} /\ f[b] # {}
    /\ \A o \in R : h[o] = 0 => M[o].next = N[o].next

\* They are one for a moment.
LEMMA ChainShift ==
    ASSUME NEW N, NEW R, NEW h, NEW g, NEW M, NEW f, NEW a, NEW b, NEW x,
           ChainedShift(N, R, h, g, M, f, a, b, x)
    PROVE  Chained(M, R, h, f)
<1>0. /\ Chained(N, R, h, g) /\ a \in R /\ b \in R /\ a # b /\ h[a] = 0 /\ h[b] = 0 /\ N[a].next = b
      /\ b # None /\ \A o \in R : g[o] \subseteq Int /\ g[o] # {}
      /\ \A o, r \in R : o # r /\ h[o] = h[r] => \A k \in Int : ~(k \in g[o] /\ k \in g[r])
      /\ Solid(g[a] \union g[b])
      /\ \A o \in R : o # a /\ o # b => f[o] = g[o]
      /\ x \in Int /\ f[a] = Below(g[a] \union g[b], x) /\ f[b] = From(g[a] \union g[b], x)
      /\ f[a] # {} /\ f[b] # {}
      /\ \A o \in R : h[o] = 0 => M[o].next = N[o].next
  BY DEF ChainedShift
<1>1. PICK U : U = g[a] \union g[b]
  OBVIOUS
<1>2. PICK Q : Q = R \ {b}
  OBVIOUS
<1>3. PICK g1 : g1 = [o \in R |-> IF o = a THEN U ELSE g[o]]
  OBVIOUS
<1>4. PICK N1 : N1 = [o \in R |-> IF o = a THEN N[b] ELSE N[o]]
  OBVIOUS
<1>5. /\ g1[a] = U /\ \A o \in R : o # a => g1[o] = g[o]
      /\ N1[a] = N[b] /\ \A o \in R : o # a => N1[o] = N[o]
  BY ONLY <1>0, <1>3, <1>4
<1>6. ChainedMerge(N, R, h, g, N1, Q, h, g1, a, b)
  BY ONLY <1>0, <1>1, <1>2, <1>5 DEF ChainedMerge
<1>7. Chained(N1, Q, h, g1)
  BY ONLY <1>6, ChainMerge
<1>8. U \subseteq Int /\ Solid(U)
  BY ONLY <1>0, <1>1
<1>9. PICK v \in U, w \in U : v < x /\ x <= w
  BY ONLY <1>0, <1>1 DEF Below, From
<1>10. x \in U
  <2>1. CASE x = w
    BY <1>9, <2>1
  <2>2. CASE x < w
    BY ONLY <1>0, <1>8, <1>9, <2>2 DEF Solid
  <2> QED
    BY <1>0, <1>8, <1>9, <2>1, <2>2
<1>11. ChainedCut(N1, Q, h, g1, M, R, h, f, a, b, x)
  <2>1. a \in Q /\ b \notin Q /\ R = Q \union {b} /\ h[b] = 0
    BY ONLY <1>0, <1>2
  <2>2. \A o \in Q : g1[o] \subseteq Int /\ (o # a => f[o] = g1[o])
    BY ONLY <1>0, <1>2, <1>5, <1>8
  <2>3. f[a] = Below(g1[a], x) /\ f[b] = From(g1[a], x) /\ x \in g1[a] /\ Solid(g1[a])
        /\ \E y \in g1[a] : y < x
    BY ONLY <1>0, <1>1, <1>5, <1>8, <1>9, <1>10
  <2>4. M[a].next = b /\ M[b].next = N1[a].next
    BY ONLY <1>0, <1>5
  <2>5. \A o \in Q : o # a /\ h[o] = 0 => M[o].next = N1[o].next
    BY ONLY <1>0, <1>2, <1>5
  <2> QED
    BY ONLY <1>0, <1>7, <2>1, <2>2, <2>3, <2>4, <2>5 DEF ChainedCut
<1> QED
  BY ONLY <1>11, ChainCut

\* What a tree says of each of its pages, for solvers that do not expand it.
LEMMA TreeTypes ==
    ASSUME NEW N, NEW R, NEW h, NEW g, NEW top, NEW count, NEW d, Tree(N, R, h, g, top, count, d)
    PROVE  /\ \A p \in R : /\ p \in Pages /\ p \in Int /\ p < count /\ h[p] \in Nat /\ h[p] <= h[top]
                           /\ g[p] \subseteq Int /\ g[p] # {} /\ Solid(g[p])
                           /\ NodeHolds(N[p], h[p], g[p], Level(R, h, h[p]), g, d)
           /\ \A p, q \in R : p # q /\ h[p] = h[q] => \A k \in Int : ~(k \in g[p] /\ k \in g[q])
           /\ top \in R /\ top \in Pages /\ g[top] = Int /\ h[top] < count /\ h[top] \in Nat
           /\ \A p \in R : h[p] = h[top] => p = top
           /\ Chained(N, R, h, g)
<1>1. /\ \A p \in R : /\ p \in Pages /\ p < count /\ h[p] \in Nat /\ h[p] <= h[top]
                      /\ g[p] \subseteq Int /\ g[p] # {} /\ Solid(g[p])
                      /\ NodeHolds(N[p], h[p], g[p], Level(R, h, h[p]), g, d)
      /\ \A p, q \in R : p # q /\ h[p] = h[q] => \A k \in Int : ~(k \in g[p] /\ k \in g[q])
      /\ top \in R /\ g[top] = Int /\ h[top] < count
      /\ Chained(N, R, h, g)
  BY DEF Tree
<1>2. \A p \in Pages : p \in Int
  BY DEF Pages
<1>3. ASSUME NEW p \in R, h[p] = h[top] PROVE p = top
  <2>1. PICK k \in Int : k \in g[p] /\ k \in g[top]
    BY <1>1
  <2> QED
    BY <1>1, <1>3, <2>1
<1> QED
  BY <1>1, <1>2, <1>3

\* What a node leads to does not depend on pages that are not below it.
LEMMA NodeKept ==
    ASSUME NEW n, NEW l, NEW S, NEW R, NEW h, NEW g, NEW d, NEW Q, NEW j, NEW f,
           NodeHolds(n, l, S, Level(R, h, l), g, d),
           l # 0 => \A q \in Level(R, h, l) : q \in Q /\ j[q] = h[q] /\ f[q] = g[q]
    PROVE  NodeHolds(n, l, S, Level(Q, j, l), f, d)
<1>1. CASE l = 0
  BY <1>1 DEF NodeHolds
<1>2. CASE l # 0
  <2>1. Branches(n.keys, n.kids, S, Level(R, h, l), g)
    BY <1>2 DEF NodeHolds
  <2>2. \A q \in Level(R, h, l) : q \in Level(Q, j, l) /\ f[q] = g[q]
    BY <1>2 DEF Level
  <2>3. Branches(n.keys, n.kids, S, Level(Q, j, l), f)
    BY <2>1, <2>2 DEF Branches
  <2> QED
    BY <1>2, <2>3 DEF NodeHolds
<1> QED
  BY <1>1, <1>2

\* A page above the root, with no key.
Topped(N, R, h, g, top, count, d, M, j, f, p, more) ==
    /\ count \in Int /\ Tree(N, R, h, g, top, count, d)
    /\ p \in Pages /\ p \notin R /\ more \in Int /\ p < more /\ count < more
    /\ \A q \in R : M[q] = N[q] /\ j[q] = h[q] /\ f[q] = g[q]
    /\ ~M[p].leaf /\ M[p].keys = << >> /\ M[p].kids = <<top>> /\ f[p] = Int /\ j[p] = h[top] + 1

\* NewRoot: a node above the root makes a tree a level higher.
LEMMA TreeTop ==
    ASSUME NEW N, NEW R, NEW h, NEW g, NEW top, NEW count, NEW d, NEW M, NEW j, NEW f, NEW p, NEW more,
           Topped(N, R, h, g, top, count, d, M, j, f, p, more)
    PROVE  \E Q : Tree(M, Q, j, f, p, more, d) /\ Q = R \union {p}
<1>0. /\ count \in Int /\ Tree(N, R, h, g, top, count, d)
      /\ p \in Pages /\ p \notin R /\ more \in Int /\ p < more /\ count < more
      /\ \A q \in R : M[q] = N[q] /\ j[q] = h[q] /\ f[q] = g[q]
      /\ ~M[p].leaf /\ M[p].keys = << >> /\ M[p].kids = <<top>> /\ f[p] = Int /\ j[p] = h[top] + 1
  BY DEF Topped
<1> USE <1>0
<1> DEFINE Q == R \union {p}
<1>1. /\ \A q \in R : /\ q \in Pages /\ q \in Int /\ q < count /\ h[q] \in Nat /\ h[q] <= h[top]
                      /\ g[q] \subseteq Int /\ g[q] # {} /\ Solid(g[q])
                      /\ NodeHolds(N[q], h[q], g[q], Level(R, h, h[q]), g, d)
      /\ \A o, q \in R : o # q /\ h[o] = h[q] => \A k \in Int : ~(k \in g[o] /\ k \in g[q])
      /\ top \in R /\ top \in Pages /\ g[top] = Int /\ h[top] < count /\ h[top] \in Nat
      /\ Chained(N, R, h, g)
  BY TreeTypes
<1>2. \A q \in R : NodeHolds(M[q], j[q], f[q], Level(Q, j, j[q]), f, d)
  <2> TAKE q \in R
  <2>1. NodeHolds(N[q], h[q], g[q], Level(R, h, h[q]), g, d)
    BY <1>1
  <2>2. \A o \in Level(R, h, h[q]) : o \in Q /\ j[o] = h[o] /\ f[o] = g[o]
    BY DEF Level
  <2>3. NodeHolds(N[q], h[q], g[q], Level(Q, j, h[q]), f, d)
    BY <2>1, <2>2, NodeKept
  <2> QED
    BY <2>3
<1>3. NodeHolds(M[p], j[p], f[p], Level(Q, j, j[p]), f, d)
  <2> DEFINE a == << >>  c == <<top>>
  <2>1. /\ a \in Seq(Keys) /\ c \in Seq(Pages) /\ Len(a) = 0 /\ Len(c) = 1 /\ c[1] = top
        /\ Len(c) = Len(a) + 1
    BY <1>1
  <2>2. top \in Level(Q, j, j[p]) /\ f[top] = Int
    BY <1>1 DEF Level
  <2> HIDE DEF a, c
  <2>3. \A i \in 1 .. Len(c) : i = 1 /\ c[i] = top
    BY <2>1
  <2>4. \A i \in 1 .. Len(a) : FALSE
    BY <2>1
  <2>5. \A i \in 1 .. Len(c) : \A k \in Int :
           k \in f[c[i]] <=> k \in f[p] /\ (i > 1 => a[i - 1] <= k) /\ (i <= Len(a) => k < a[i])
    BY <2>1, <2>2, <2>3
  <2>6. Branches(a, c, f[p], Level(Q, j, j[p]), f)
    BY ZenonT(30), <2>1, <2>2, <2>3, <2>4, <2>5, BranchesMade
  <2>7. j[p] # 0
    BY <1>1
  <2> QED
    BY <2>6, <2>7 DEF NodeHolds, a, c
<1>4. p \in Int
  BY DEF Pages
<1>5. \A q \in Q : /\ q \in Pages /\ q < more
                   /\ j[q] \in Nat /\ j[q] <= j[p]
                   /\ f[q] \subseteq Int /\ f[q] # {} /\ Solid(f[q])
  <2> TAKE q \in Q
  <2>1. CASE q \in R
    BY <1>1, <2>1
  <2>2. CASE q = p
    BY <1>1, <2>2 DEF Solid
  <2> QED
    BY <2>1, <2>2
<1>6. \A o, q \in Q : o # q /\ j[o] = j[q] => \A k \in Int : ~(k \in f[o] /\ k \in f[q])
  <2>1. \A q \in R : j[q] # j[p]
    BY <1>1
  <2>2. \A o, q \in R : o # q /\ j[o] = j[q] => \A k \in Int : ~(k \in f[o] /\ k \in f[q])
    BY <1>1
  <2> QED
    BY <2>1, <2>2
<1>7. p \in Q /\ j[p] < more
  BY <1>1
<1>8. \A q \in Q : NodeHolds(M[q], j[q], f[q], Level(Q, j, j[q]), f, d)
  BY <1>2, <1>3
<1>9. Chained(M, Q, j, f)
  <2>1. \A q \in Q : j[q] = 0 => q \in R /\ h[q] = 0 /\ M[q].next = N[q].next /\ f[q] = g[q]
    <3>1. j[p] # 0
      BY <1>1
    <3> QED
      BY <3>1
  <2>2. \A q \in R : h[q] = 0 => q \in Q /\ j[q] = 0 /\ f[q] = g[q]
    OBVIOUS
  <2> HIDE DEF Q
  <2> QED
    BY <1>1, <2>1, <2>2, ChainSame
<1> QED
  <2>1. Tree(M, Q, j, f, p, more, d)
    BY <1>5, <1>6, <1>7, <1>8, <1>9 DEF Tree
  <2> QED
    BY <2>1

\* A root left with one child and no key gives way to the child.
LEMMA TreeCollapse ==
    ASSUME NEW N, NEW R, NEW h, NEW g, NEW top, NEW count, NEW d, Tree(N, R, h, g, top, count, d),
           count \in Int, ~N[top].leaf, N[top].keys = << >>
    PROVE  Tree(N, R \ {top}, h, g, N[top].kids[1], count, d) /\ N[top].kids[1] \in R
<1> DEFINE a == N[top].keys  c == N[top].kids  kid == c[1]  Q == R \ {top}
<1>1. /\ \A q \in R : /\ q \in Pages /\ q \in Int /\ q < count /\ h[q] \in Nat /\ h[q] <= h[top]
                      /\ g[q] \subseteq Int /\ g[q] # {} /\ Solid(g[q])
                      /\ NodeHolds(N[q], h[q], g[q], Level(R, h, h[q]), g, d)
      /\ \A o, q \in R : o # q /\ h[o] = h[q] => \A k \in Int : ~(k \in g[o] /\ k \in g[q])
      /\ top \in R /\ top \in Pages /\ g[top] = Int /\ h[top] < count /\ h[top] \in Nat
      /\ \A q \in R : h[q] = h[top] => q = top
      /\ Chained(N, R, h, g)
  BY TreeTypes
<1>2. h[top] # 0
  BY <1>1 DEF NodeHolds
<1>3. /\ Branches(a, c, g[top], Level(R, h, h[top]), g)
      /\ \A i \in 1 .. Len(c) : c[i] \in R /\ h[c[i]] + 1 = h[top]
  BY <1>1, <1>2, KidFacts
<1>4. Len(a) = 0
  OBVIOUS
<1> HIDE DEF a, c
<1>5. /\ Len(c) = Len(a) + 1
      /\ \A i \in 1 .. Len(c) : \A k \in Int :
            k \in g[c[i]] <=> k \in g[top] /\ (i > 1 => a[i - 1] <= k) /\ (i <= Len(a) => k < a[i])
  BY <1>3, BranchFacts
<1>6. 1 \in 1 .. Len(c) /\ ~(1 > 1) /\ ~(1 <= Len(a))
  BY <1>4, <1>5
<1>7. kid \in R /\ h[kid] + 1 = h[top] /\ \A k \in Int : k \in g[kid]
  BY <1>1, <1>3, <1>5, <1>6
<1> HIDE DEF kid
<1>8. g[kid] = Int /\ kid \in Q /\ h[kid] < count
  <2>1. g[kid] \subseteq Int /\ h[kid] \in Nat
    BY <1>1, <1>7
  <2>2. g[kid] = Int
    BY <1>7, <2>1
  <2>3. h[kid] # h[top]
    BY <1>1, <1>7, <2>1
  <2>4. h[kid] < count
    BY <1>1, <1>7, <2>1
  <2> QED
    BY <1>7, <2>2, <2>3, <2>4
<1>9. \A q \in Q : h[q] <= h[kid]
  <2> TAKE q \in Q
  <2>1. h[q] \in Nat /\ h[q] <= h[top] /\ h[q] # h[top] /\ h[kid] \in Nat
    BY <1>1, <1>7
  <2> QED
    BY <1>1, <1>7, <2>1
<1>10. \A q \in Q : NodeHolds(N[q], h[q], g[q], Level(Q, h, h[q]), g, d)
  <2> TAKE q \in Q
  <2>1. NodeHolds(N[q], h[q], g[q], Level(R, h, h[q]), g, d)
    BY <1>1
  <2>2. \A o \in Level(R, h, h[q]) : o \in Q
    <3> TAKE o \in Level(R, h, h[q])
    <3>1. o \in R /\ h[o] + 1 = h[q] /\ h[q] <= h[top] /\ h[o] \in Nat /\ h[q] \in Nat
      BY <1>1 DEF Level
    <3> QED
      BY <1>1, <3>1
  <2> QED
    BY <2>1, <2>2, NodeKept
<1>12. Chained(N, Q, h, g)
  <2>1. \A q \in Q : h[q] = 0 => q \in R /\ h[q] = 0 /\ N[q].next = N[q].next /\ g[q] = g[q]
    OBVIOUS
  <2>2. \A q \in R : h[q] = 0 => q \in Q /\ h[q] = 0 /\ g[q] = g[q]
    BY <1>2
  <2> HIDE DEF Q
  <2> QED
    BY <1>1, <2>1, <2>2, ChainSame
<1>11. Tree(N, Q, h, g, kid, count, d)
  BY <1>1, <1>8, <1>9, <1>10, <1>12 DEF Tree
<1> QED
  BY <1>7, <1>11 DEF kid, c

\* One leaf changes, with what its records are compared with.
LEMMA TreeLeaf ==
    ASSUME NEW N, NEW R, NEW h, NEW g, NEW top, NEW count, NEW d \in Dicts,
           Tree(N, R, h, g, top, count, d),
           NEW p \in R, h[p] = 0, NEW k \in Keys, k \in g[p], NEW x, NEW M,
           \A q \in R : q # p => M[q] = N[q], M[p].next = N[p].next,
           M[p].leaf, LeafHolds(M[p].keys, M[p].recs, g[p], [d EXCEPT ![k] = x])
    PROVE  Tree(M, R, h, g, top, count, [d EXCEPT ![k] = x])
<1> DEFINE e == [d EXCEPT ![k] = x]
<1>1. /\ \A q \in R : /\ q \in Pages /\ q < count /\ h[q] \in Nat /\ h[q] <= h[top]
                      /\ g[q] \subseteq Int /\ g[q] # {} /\ Solid(g[q])
                      /\ NodeHolds(N[q], h[q], g[q], Level(R, h, h[q]), g, d)
      /\ \A o, q \in R : o # q /\ h[o] = h[q] => \A i \in Int : ~(i \in g[o] /\ i \in g[q])
      /\ top \in R /\ g[top] = Int /\ h[top] < count
      /\ Chained(N, R, h, g)
  BY TreeTypes
<1>2. ASSUME NEW q \in R PROVE NodeHolds(M[q], h[q], g[q], Level(R, h, h[q]), g, e)
  <2>1. CASE q = p
    BY <2>1 DEF NodeHolds
  <2>2. CASE q # p /\ h[q] = 0
    <3>1. k \notin g[q]
      BY <1>1, <2>2, KeysInt
    <3>2. N[q].leaf /\ LeafHolds(N[q].keys, N[q].recs, g[q], d)
      BY <1>1, <2>2 DEF NodeHolds
    <3>3. LeafHolds(N[q].keys, N[q].recs, g[q], e)
      BY <3>1, <3>2, LeafElsewhere
    <3> HIDE DEF e
    <3> QED
      BY <2>2, <3>2, <3>3 DEF NodeHolds
  <2>3. CASE q # p /\ h[q] # 0
    <3> HIDE DEF e
    <3> QED
      BY <1>1, <2>3 DEF NodeHolds
  <2> QED
    BY <2>1, <2>2, <2>3
<1> HIDE DEF e
<1>4. Chained(M, R, h, g)
  <2>1. \A q \in R : h[q] = 0 => q \in R /\ h[q] = 0 /\ M[q].next = N[q].next /\ g[q] = g[q]
    BY Zenon
  <2>2. \A q \in R : h[q] = 0 => q \in R /\ h[q] = 0 /\ g[q] = g[q]
    OBVIOUS
  <2> QED
    BY ONLY <1>1, <2>1, <2>2, ChainSame
<1>3. Tree(M, R, h, g, top, count, e)
  BY <1>1, <1>2, <1>4 DEF Tree
<1> QED
  BY <1>3 DEF e

---------------------------------------------------------------------------
(***************************************************************************)
(* Nodes.                                                                  *)
(***************************************************************************)
\* A node a write_node may be given.
NodeOK(n) == n \in NodeSet /\ WellFormed(n)

\* A leaf with other keys and records is a node again.
LEMMA WithKeysRecs ==
    ASSUME NEW n \in NodeSet, NEW a \in Seq(Keys), NEW r \in Seq(Records), NEW m,
           m = [n EXCEPT !.keys = a, !.recs = r]
    PROVE  /\ m \in NodeSet /\ m.leaf = n.leaf /\ m.keys = a /\ m.recs = r
           /\ m.kids = n.kids /\ m.next = n.next
  BY DEF NodeSet

\* An internal node with other keys and children is a node again.
LEMMA WithKeysKids ==
    ASSUME NEW n \in NodeSet, NEW a \in Seq(Keys), NEW c \in Seq(Pages), NEW m,
           m = [n EXCEPT !.keys = a, !.kids = c]
    PROVE  /\ m \in NodeSet /\ m.leaf = n.leaf /\ m.keys = a /\ m.kids = c
           /\ m.recs = n.recs /\ m.next = n.next
  BY DEF NodeSet

\* A node with one key changed is a node again.
LEMMA WithKey ==
    ASSUME NEW n \in NodeSet, NEW i \in 1 .. Len(n.keys), NEW k \in Keys, NEW m,
           m = [n EXCEPT !.keys[i] = k]
    PROVE  /\ m \in NodeSet /\ m.leaf = n.leaf /\ m.keys = [n.keys EXCEPT ![i] = k]
           /\ m.kids = n.kids /\ m.recs = n.recs /\ m.next = n.next
<1>1. n.keys \in Seq(Keys)
  BY DEF NodeSet
<1>2. [n.keys EXCEPT ![i] = k] \in Seq(Keys)
  BY <1>1
<1>3. m = [n EXCEPT !.keys = [n.keys EXCEPT ![i] = k]]
  OBVIOUS
<1> QED
  BY <1>2, <1>3 DEF NodeSet

\* A node with one record changed is a node again.
LEMMA WithRec ==
    ASSUME NEW n \in NodeSet, NEW i \in 1 .. Len(n.recs), NEW x \in Records, NEW m,
           m = [n EXCEPT !.recs[i] = x]
    PROVE  /\ m \in NodeSet /\ m.leaf = n.leaf /\ m.recs = [n.recs EXCEPT ![i] = x]
           /\ m.kids = n.kids /\ m.keys = n.keys /\ m.next = n.next
<1>1. n.recs \in Seq(Records)
  BY DEF NodeSet
<1>2. [n.recs EXCEPT ![i] = x] \in Seq(Records)
  BY <1>1
<1>3. m = [n EXCEPT !.recs = [n.recs EXCEPT ![i] = x]]
  OBVIOUS
<1> QED
  BY <1>2, <1>3 DEF NodeSet

\* What Node::new_leaf returns.
LEMMA LeafNodeFacts ==
    ASSUME NEW a \in Seq(Keys), NEW r \in Seq(Records), NEW x \in Pages \union {None}, NEW n,
           n = LeafNode(a, r, x)
    PROVE  /\ n \in NodeSet /\ n.leaf = TRUE /\ n.keys = a /\ n.recs = r
           /\ n.kids = << >> /\ n.next = x
  BY DEF NodeSet, LeafNode

\* What Node::new_internal returns.
LEMMA InternalNodeFacts ==
    ASSUME NEW a \in Seq(Keys), NEW c \in Seq(Pages), NEW n, n = InternalNode(a, c)
    PROVE  /\ n \in NodeSet /\ n.leaf = FALSE /\ n.keys = a /\ n.kids = c
           /\ n.recs = << >> /\ n.next = None
  BY DEF NodeSet, InternalNode

\* A node that is right to search is well formed.
LEMMA HoldsFormed ==
    ASSUME NEW n \in NodeSet, NEW l, NEW S, NEW C, NEW g, NEW d, NodeHolds(n, l, S, C, g, d),
           n.leaf => n.kids = << >>, ~n.leaf => n.recs = << >>
    PROVE  NodeOK(n)
<1>1. CASE n.leaf
  <2>1. LeafHolds(n.keys, n.recs, S, d)
    BY <1>1 DEF NodeHolds
  <2>2. /\ n.keys \in Seq(Keys) /\ n.recs \in Seq(Records) /\ Len(n.recs) = Len(n.keys)
        /\ \A i \in 1 .. Len(n.keys) : n.keys[i] = n.recs[i].key
    BY <2>1 DEF LeafHolds
  <2> DEFINE a == n.keys  r == n.recs
  <2>3. DOMAIN a = 1 .. Len(a) /\ DOMAIN r = 1 .. Len(r) /\ a = [i \in 1 .. Len(a) |-> a[i]]
    BY <2>2
  <2> HIDE DEF a, r
  <2>4. [i \in 1 .. Len(a) |-> a[i]] = [i \in DOMAIN r |-> r[i].key]
    BY <2>2, <2>3 DEF a, r
  <2>5. a = [i \in DOMAIN r |-> r[i].key]
    BY Zenon, <2>3, <2>4
  <2> QED
    BY <1>1, <2>5 DEF NodeOK, WellFormed, a, r
<1>2. CASE ~n.leaf
  <2>1. Branches(n.keys, n.kids, S, C, g)
    BY <1>2 DEF NodeHolds
  <2> QED
    BY <1>2, <2>1 DEF NodeOK, WellFormed, Branches
<1>3. n.leaf \in BOOLEAN
  BY DEF NodeSet
<1> QED
  BY <1>1, <1>2, <1>3

\* A well-formed node, position by position.
LEMMA FormedFacts ==
    ASSUME NEW n, NodeOK(n)
    PROVE  /\ n \in NodeSet /\ n.leaf \in BOOLEAN /\ n.keys \in Seq(Keys) /\ n.kids \in Seq(Pages)
           /\ n.recs \in Seq(Records) /\ n.next \in Pages \union {None}
           /\ Len(n.keys) \in Nat /\ Len(n.kids) \in Nat /\ Len(n.recs) \in Nat
           /\ n.leaf => n.kids = << >> /\ Len(n.keys) = Len(n.recs)
           /\ ~n.leaf => Len(n.kids) = Len(n.keys) + 1 /\ n.recs = << >>
<1>1. n \in NodeSet /\ WellFormed(n)
  BY DEF NodeOK
<1>2. /\ n.leaf \in BOOLEAN /\ n.keys \in Seq(Keys) /\ n.kids \in Seq(Pages)
      /\ n.recs \in Seq(Records) /\ n.next \in Pages \union {None}
  BY <1>1 DEF NodeSet
<1>3. Len(n.keys) \in Nat /\ Len(n.kids) \in Nat /\ Len(n.recs) \in Nat
  BY <1>2
<1>4. n.leaf => n.kids = << >> /\ Len(n.keys) = Len(n.recs)
  <2> SUFFICES ASSUME n.leaf PROVE n.kids = << >> /\ Len(n.keys) = Len(n.recs)
    OBVIOUS
  <2>1. n.keys = [i \in DOMAIN n.recs |-> n.recs[i].key] /\ n.kids = << >>
    BY <1>1 DEF WellFormed
  <2>2. DOMAIN n.keys = 1 .. Len(n.keys) /\ DOMAIN n.recs = 1 .. Len(n.recs)
    BY <1>2
  <2>3. DOMAIN n.keys = DOMAIN n.recs
    BY <2>1
  <2>4. Len(n.keys) = Len(n.recs)
    BY <1>3, <2>2, <2>3
  <2> QED
    BY <2>1, <2>4
<1>5. ~n.leaf => Len(n.kids) = Len(n.keys) + 1 /\ n.recs = << >>
  BY <1>1 DEF WellFormed
<1> QED
  BY <1>1, <1>2, <1>3, <1>4, <1>5

\* Sequences of one length with the same members at each position are equal.
LEMMA SameSeq ==
    ASSUME NEW T, NEW a \in Seq(T), NEW b \in Seq(T), Len(a) = Len(b),
           \A i \in 1 .. Len(a) : a[i] = b[i]
    PROVE  a = b
  OBVIOUS

\* The parts of a sequence the model writes with Head, Tail, Front and Last.
LEMMA PartNames ==
    ASSUME NEW T, NEW s \in Seq(T), Len(s) >= 1
    PROVE  /\ SubSeq(s, 1, 1) = <<Head(s)>> /\ SubSeq(s, 2, Len(s)) = Tail(s)
           /\ SubSeq(s, 1, Len(s) - 1) = Front(s) /\ SubSeq(s, Len(s), Len(s)) = <<Last(s)>>
           /\ Head(s) = s[1] /\ Last(s) = s[Len(s)] /\ Head(s) \in T /\ Last(s) \in T
<1> DEFINE l == Len(s)
<1>1. l \in Nat /\ 1 \in 1 .. l /\ l \in 1 .. l /\ \A i \in 1 .. l : s[i] \in T
  OBVIOUS
<1>2. Head(s) = s[1] /\ Last(s) = s[Len(s)] /\ Head(s) \in T /\ Last(s) \in T
  BY <1>1 DEF Last
<1>3. SubSeq(s, 1, 1) = <<Head(s)>>
  <2>1. 1 \in 1 .. Len(s) + 1 /\ 1 \in 0 .. Len(s) /\ 1 <= 1 + 1 /\ 1 - 1 + 1 = 1 /\ 1 + 1 - 1 = 1
    BY <1>1
  <2>2. /\ SubSeq(s, 1, 1) \in Seq(T) /\ Len(SubSeq(s, 1, 1)) = 1 - 1 + 1
        /\ \A i \in 1 .. 1 - 1 + 1 : SubSeq(s, 1, 1)[i] = s[1 + i - 1]
    BY <2>1, PartFacts
  <2>3. <<Head(s)>> \in Seq(T) /\ Len(<<Head(s)>>) = 1 /\ <<Head(s)>>[1] = s[1]
    BY <1>2
  <2> DEFINE a == SubSeq(s, 1, 1)  b == <<Head(s)>>
  <2>4. a \in Seq(T) /\ Len(a) = 1 /\ a[1] = s[1]
    BY <2>1, <2>2
  <2> HIDE DEF a, b
  <2>5. Len(a) = Len(b) /\ \A i \in 1 .. Len(a) : a[i] = b[i]
    BY <2>3, <2>4 DEF b
  <2>6. a = b
    BY <2>3, <2>4, <2>5, SameSeq DEF b
  <2> QED
    BY <2>6 DEF a, b
<1>4. SubSeq(s, 2, Len(s)) = Tail(s)
  <2>1. Tail(s) \in Seq(T) /\ Len(Tail(s)) = l - 1 /\ \A i \in 1 .. l - 1 : Tail(s)[i] = s[i + 1]
    BY <1>1
  <2>2. 2 \in 1 .. Len(s) + 1 /\ Len(s) \in 0 .. Len(s) /\ 2 <= Len(s) + 1 /\ Len(s) - 2 + 1 = l - 1
    BY <1>1
  <2>3. /\ SubSeq(s, 2, Len(s)) \in Seq(T) /\ Len(SubSeq(s, 2, Len(s))) = Len(s) - 2 + 1
        /\ \A i \in 1 .. Len(s) - 2 + 1 : SubSeq(s, 2, Len(s))[i] = s[2 + i - 1]
    BY <2>2, PartFacts
  <2>4. \A i \in 1 .. l - 1 : 2 + i - 1 = i + 1
    BY <1>1
  <2> QED
    BY <2>1, <2>2, <2>3, <2>4, SameSeq
<1>5. SubSeq(s, 1, Len(s) - 1) = Front(s)
  BY DEF Front
<1>6. SubSeq(s, l, l) = <<Last(s)>>
  <2>1. l \in 1 .. Len(s) + 1 /\ l \in 0 .. Len(s) /\ l <= l + 1 /\ l - l + 1 = 1 /\ l + 1 - 1 = l
    BY <1>1
  <2> HIDE DEF l
  <2>2. /\ SubSeq(s, l, l) \in Seq(T) /\ Len(SubSeq(s, l, l)) = l - l + 1
        /\ \A i \in 1 .. l - l + 1 : SubSeq(s, l, l)[i] = s[l + i - 1]
    BY <2>1, PartFacts
  <2>3. <<Last(s)>> \in Seq(T) /\ Len(<<Last(s)>>) = 1 /\ <<Last(s)>>[1] = s[l]
    BY <1>2 DEF l
  <2> DEFINE a == SubSeq(s, l, l)  b == <<Last(s)>>
  <2>4. a \in Seq(T) /\ Len(a) = 1 /\ a[1] = s[l]
    BY <2>1, <2>2
  <2> HIDE DEF a, b
  <2>5. Len(a) = Len(b) /\ \A i \in 1 .. Len(a) : a[i] = b[i]
    BY <2>3, <2>4 DEF b
  <2>6. a = b
    BY <2>3, <2>4, <2>5, SameSeq DEF b
  <2> QED
    BY <2>6 DEF a, b
<1> QED
  BY <1>2, <1>3, <1>4, <1>5, <1>6

\* Tail is the part from the second position on.
LEMMA TailPart ==
    ASSUME NEW T, NEW s \in Seq(T), NEW n \in 1 .. Len(s)
    PROVE  /\ Tail(SubSeq(s, n, Len(s))) = SubSeq(s, n + 1, Len(s))
           /\ Head(SubSeq(s, n, Len(s))) = s[n]
<1> DEFINE m == n + 1  a == SubSeq(s, n, Len(s))  b == SubSeq(s, m, Len(s))
<1>1. /\ Len(s) \in Nat /\ n \in 1 .. Len(s) + 1 /\ Len(s) \in 0 .. Len(s) /\ n <= Len(s) + 1
      /\ m \in 1 .. Len(s) + 1 /\ m <= Len(s) + 1 /\ m = n + 1
  OBVIOUS
<1> HIDE DEF m
<1>2. a \in Seq(T) /\ Len(a) = Len(s) - n + 1 /\ \A i \in 1 .. Len(s) - n + 1 : a[i] = s[n + i - 1]
  BY <1>1, PartFacts
<1>3. b \in Seq(T) /\ Len(b) = Len(s) - m + 1 /\ \A i \in 1 .. Len(s) - m + 1 : b[i] = s[m + i - 1]
  BY <1>1, PartFacts
<1> HIDE DEF a, b
<1>4. Tail(a) \in Seq(T) /\ Len(Tail(a)) = Len(s) - n /\ \A i \in 1 .. Len(s) - n : Tail(a)[i] = a[i + 1]
  BY <1>1, <1>2
<1>5. ASSUME NEW i \in 1 .. Len(s) - n PROVE Tail(a)[i] = b[i]
  <2>1. i + 1 \in 1 .. Len(s) - n + 1 /\ n + (i + 1) - 1 = m + i - 1 /\ i \in 1 .. Len(s) - m + 1
    BY <1>1
  <2> QED
    BY <1>2, <1>3, <1>4, <2>1
<1>6. Tail(a) = b
  <2>0. Len(s) - m + 1 = Len(s) - n
    BY <1>1
  <2>1. Len(Tail(a)) = Len(b)
    BY <2>0, <1>3, <1>4
  <2> QED
    BY <1>3, <1>4, <1>5, <2>1, SameSeq
<1>7. Head(a) = s[n]
  <2>1. 1 \in 1 .. Len(s) - n + 1 /\ n + 1 - 1 = n
    BY <1>1
  <2> QED
    BY <1>2, <2>1
<1> QED
  BY <1>6, <1>7 DEF a, b, m

\* At height 0 a node holds its keys as a leaf does.
LEMMA LeafNodeHolds ==
    ASSUME NEW a, NEW r, NEW x \in Pages \union {None}, NEW S, NEW C, NEW g, NEW d,
           LeafHolds(a, r, S, d), NEW n, n = LeafNode(a, r, x)
    PROVE  NodeOK(n) /\ NodeHolds(n, 0, S, C, g, d) /\ n.keys = a /\ n.recs = r /\ n.leaf
<1>1. a \in Seq(Keys) /\ r \in Seq(Records)
  BY DEF LeafHolds
<1>2. n \in NodeSet /\ n.leaf = TRUE /\ n.keys = a /\ n.recs = r /\ n.kids = << >>
  BY <1>1 DEF LeafNode, NodeSet
<1>3. NodeHolds(n, 0, S, C, g, d)
  BY <1>2 DEF NodeHolds
<1>4. NodeOK(n)
  BY <1>2, <1>3, HoldsFormed
<1> QED
  BY <1>2, <1>3, <1>4

\* Above height 0 it holds them as a branch does.
LEMMA InternalNodeHolds ==
    ASSUME NEW a, NEW c, NEW l, l # 0, NEW S, NEW C, NEW g, NEW d,
           Branches(a, c, S, C, g), NEW n, n = InternalNode(a, c)
    PROVE  NodeOK(n) /\ NodeHolds(n, l, S, C, g, d) /\ n.keys = a /\ n.kids = c /\ ~n.leaf
<1>1. a \in Seq(Keys) /\ c \in Seq(Pages)
  BY DEF Branches
<1>2. n \in NodeSet /\ n.leaf = FALSE /\ n.keys = a /\ n.kids = c /\ n.recs = << >>
  BY <1>1 DEF InternalNode, NodeSet
<1>3. NodeHolds(n, l, S, C, g, d)
  BY <1>2 DEF NodeHolds
<1>4. NodeOK(n)
  BY <1>2, <1>3, HoldsFormed
<1> QED
  BY <1>2, <1>3, <1>4

\* A node that is split leads on, in its two halves, to what it led to.
LEMMA NodeCut ==
    ASSUME NEW n, NodeOK(n), NEW l, NEW S \in SUBSET Int, NEW C, NEW g, NEW d,
           NodeHolds(n, l, S, C, g, d), Len(n.keys) >= 2, NEW q \in Pages, NEW s, s = Split(n, q)
    PROVE  /\ s.up \in Keys /\ s.up \in S
           /\ \E y \in S : y < s.up
           /\ NodeOK(s.left) /\ NodeHolds(s.left, l, Below(S, s.up), C, g, d)
           /\ NodeOK(s.right) /\ NodeHolds(s.right, l, From(S, s.up), C, g, d)
<1> DEFINE half == Len(n.keys) \div 2  m == half + 1  a == n.keys
           rest == SubSeq(a, m, Len(a))
<1>1. /\ n \in NodeSet /\ n.leaf \in BOOLEAN /\ a \in Seq(Keys) /\ n.kids \in Seq(Pages)
      /\ n.recs \in Seq(Records) /\ n.next \in Pages \union {None}
      /\ Len(a) \in Nat
  BY FormedFacts
<1>2. half \in Nat /\ half >= 1 /\ half < Len(a) /\ m \in 1 .. Len(a) /\ m - 1 = half /\ m > 1 /\ 1 \in 1 .. Len(a)
  <2> DEFINE k == Len(n.keys)
  <2>1. k \in Nat /\ k >= 2 /\ half = k \div 2
    BY <1>1
  <2> HIDE DEF k
  <2>2. half \in Nat /\ half >= 1 /\ half < k
    <3>1. k \div 2 \in Int /\ 2 * (k \div 2) <= k /\ k < 2 * (k \div 2) + 2
      BY <2>1, SMT
    <3> DEFINE u == k \div 2
    <3>2. u \in Int /\ 2 * u <= k /\ k < 2 * u + 2
      BY <3>1
    <3> HIDE DEF u
    <3>3. u \in Nat /\ u >= 1 /\ u < k
      BY <2>1, <3>2
    <3> QED
      BY <2>1, <3>3 DEF u
  <2> HIDE DEF half
  <2>3. half \in Nat /\ half >= 1 /\ half < Len(a)
    BY <2>2 DEF k
  <2> QED
    BY <1>1, <2>3
<1> HIDE DEF half
<1>3. Head(rest) = a[m] /\ Tail(rest) = SubSeq(a, m + 1, Len(a))
  BY <1>1, <1>2, TailPart
<1>4. ASSUME n.leaf
      PROVE  /\ s = [up |-> a[m], left |-> LeafNode(SubSeq(a, 1, m - 1), SubSeq(n.recs, 1, m - 1), q),
                     right |-> LeafNode(rest, SubSeq(n.recs, m, Len(n.recs)), n.next)]
             /\ LeafHolds(a, n.recs, S, d) /\ l = 0
  <2>1. LeafHolds(a, n.recs, S, d) /\ l = 0
    BY <1>4 DEF NodeHolds
  <2> QED
    BY <1>2, <1>3, <1>4, <2>1 DEF Split, half
<1>5. ASSUME ~n.leaf
      PROVE  /\ s = [up |-> a[m], left |-> InternalNode(SubSeq(a, 1, m - 1), SubSeq(n.kids, 1, m)),
                     right |-> InternalNode(SubSeq(a, m + 1, Len(a)), SubSeq(n.kids, m + 1, Len(n.kids)))]
             /\ Branches(a, n.kids, S, C, g) /\ l # 0
  <2>1. Branches(a, n.kids, S, C, g) /\ l # 0
    BY <1>5 DEF NodeHolds
  <2>2. half + 2 = m + 1
    BY <1>2
  <2> QED
    BY <1>2, <1>3, <1>5, <2>1, <2>2 DEF Split, half
<1>6. s.up = a[m]
  BY <1>1, <1>4, <1>5
<1> HIDE DEF a, m, rest
<1>7. a[m] \in Keys /\ a[m] \in S /\ a[1] \in S /\ a[1] < a[m]
  <2>1. CASE n.leaf
    <3>1. /\ \A i \in 1 .. Len(a) : a[i] \in Keys /\ a[i] \in S
          /\ \A i, j \in 1 .. Len(a) : i < j => a[i] < a[j]
      BY <1>4, <2>1, LeafFacts
    <3> QED
      BY <1>2, <3>1
  <2>2. CASE ~n.leaf
    <3>1. /\ \A i \in 1 .. Len(a) : a[i] \in Keys /\ a[i] \in S
          /\ \A i, j \in 1 .. Len(a) : i < j => a[i] < a[j]
      BY <1>5, <2>2, BranchFacts
    <3> QED
      BY <1>2, <3>1
  <2> QED
    BY <1>1, <2>1, <2>2
<1>8. /\ NodeOK(s.left) /\ NodeHolds(s.left, l, Below(S, s.up), C, g, d)
      /\ NodeOK(s.right) /\ NodeHolds(s.right, l, From(S, s.up), C, g, d)
  <2>1. CASE n.leaf
    <3>1. /\ LeafHolds(SubSeq(a, 1, m - 1), SubSeq(n.recs, 1, m - 1), Below(S, a[m]), d)
          /\ LeafHolds(rest, SubSeq(n.recs, m, Len(n.recs)), From(S, a[m]), d)
      BY <1>2, <1>4, <2>1, LeafCutLeft, LeafCutRight DEF rest
    <3>2. /\ s.left = LeafNode(SubSeq(a, 1, m - 1), SubSeq(n.recs, 1, m - 1), q)
          /\ s.right = LeafNode(rest, SubSeq(n.recs, m, Len(n.recs)), n.next) /\ l = 0
      BY <1>4, <2>1
    <3> HIDE DEF a
    <3>3. q \in Pages \union {None}
      OBVIOUS
    <3>4. NodeOK(s.left) /\ NodeHolds(s.left, 0, Below(S, a[m]), C, g, d)
      BY <3>1, <3>2, <3>3, LeafNodeHolds
    <3>5. NodeOK(s.right) /\ NodeHolds(s.right, 0, From(S, a[m]), C, g, d)
      BY <1>1, <3>1, <3>2, LeafNodeHolds
    <3> QED
      BY <1>6, <3>2, <3>4, <3>5
  <2>2. CASE ~n.leaf
    <3>1. /\ Branches(SubSeq(a, 1, m - 1), SubSeq(n.kids, 1, m), Below(S, a[m]), C, g)
          /\ Branches(SubSeq(a, m + 1, Len(a)), SubSeq(n.kids, m + 1, Len(n.kids)), From(S, a[m]), C, g)
      BY <1>2, <1>5, <2>2, BranchCutLeft, BranchCutRight
    <3>2. /\ s.left = InternalNode(SubSeq(a, 1, m - 1), SubSeq(n.kids, 1, m))
          /\ s.right = InternalNode(SubSeq(a, m + 1, Len(a)), SubSeq(n.kids, m + 1, Len(n.kids))) /\ l # 0
      BY <1>5, <2>2
    <3>4. NodeOK(s.left) /\ NodeHolds(s.left, l, Below(S, a[m]), C, g, d)
      BY <3>1, <3>2, InternalNodeHolds
    <3>5. NodeOK(s.right) /\ NodeHolds(s.right, l, From(S, a[m]), C, g, d)
      BY <3>1, <3>2, InternalNodeHolds
    <3> QED
      BY <1>6, <3>4, <3>5
  <2> QED
    BY <1>1, <2>1, <2>2
<1> QED
  BY <1>6, <1>7, <1>8

\* Two nodes that are merged lead on to what both led to.
LEMMA NodeJoin ==
    ASSUME NEW A, NodeOK(A), NEW B, NodeOK(B), NEW l, NEW S \in SUBSET Int, NEW T \in SUBSET Int,
           NEW C, NEW g, NEW d,
           NodeHolds(A, l, S, C, g, d), NodeHolds(B, l, T, C, g, d),
           \A q \in C : g[q] \subseteq Int /\ g[q] # {},
           NEW x \in Keys, x \in T, \A k \in S : k < x, \A k \in T : x <= k,
           NEW M, M = (IF A.leaf THEN LeafNode(A.keys \o B.keys, A.recs \o B.recs, B.next)
                       ELSE InternalNode(A.keys \o <<x>> \o B.keys, A.kids \o B.kids))
    PROVE  NodeOK(M) /\ NodeHolds(M, l, S \union T, C, g, d)
<1>0. A.leaf \in BOOLEAN /\ B.next \in Pages \union {None}
  BY FormedFacts
<1>1. CASE A.leaf
  <2>1. l = 0 /\ LeafHolds(A.keys, A.recs, S, d) /\ LeafHolds(B.keys, B.recs, T, d)
    BY <1>1 DEF NodeHolds
  <2>2. \A y \in S \cap Int, z \in T \cap Int : y < z
    BY KeysInt
  <2>3. LeafHolds(A.keys \o B.keys, A.recs \o B.recs, S \union T, d)
    BY <2>1, <2>2, LeafJoin
  <2>4. M = LeafNode(A.keys \o B.keys, A.recs \o B.recs, B.next)
    BY <1>1
  <2>5. NodeOK(M) /\ NodeHolds(M, 0, S \union T, C, g, d)
    BY <1>0, <2>3, <2>4, LeafNodeHolds
  <2> QED
    BY <2>1, <2>5
<1>2. CASE ~A.leaf
  <2>1. l # 0 /\ Branches(A.keys, A.kids, S, C, g) /\ Branches(B.keys, B.kids, T, C, g)
    BY <1>2 DEF NodeHolds
  <2>2. PICK y \in Int : y \in g[B.kids[1]]
    <3>1. /\ Len(B.kids) = Len(B.keys) + 1 /\ Len(B.keys) \in Nat
          /\ \A i \in 1 .. Len(B.kids) : B.kids[i] \in C
      BY <2>1, BranchFacts
    <3>2. B.kids[1] \in C
      BY <3>1
    <3> QED
      BY <3>2
  <2>3. (\A k \in S \cap Int : k < x) /\ (\A k \in T \cap Int : x <= k)
    OBVIOUS
  <2>4. Branches(A.keys \o <<x>> \o B.keys, A.kids \o B.kids, S \union T, C, g)
    BY <2>1, <2>2, <2>3, BranchJoin
  <2>5. M = InternalNode(A.keys \o <<x>> \o B.keys, A.kids \o B.kids)
    BY <1>2
  <2> QED
    BY <2>1, <2>4, <2>5, InternalNodeHolds
<1> QED
  BY <1>0, <1>1, <1>2

---------------------------------------------------------------------------
(***************************************************************************)
(* Borrows and merges of two nodes.                                        *)
(***************************************************************************)
\* What a node of the parent's children hands over at key x to its neighbour:
\* A leads on to the keys below x, B to the others.
Parted(A, B, x, l, U, C, g, d) ==
    /\ x \in Keys /\ x \in U /\ \E y \in U : y < x
    /\ NodeOK(A) /\ NodeHolds(A, l, Below(U, x), C, g, d)
    /\ NodeOK(B) /\ NodeHolds(B, l, From(U, x), C, g, d)

\* The empty sequence and one of one member, which the borrows build on.
LEMMA EmptySeqs ==
    ASSUME NEW T, NEW s \in Seq(T)
    PROVE  << >> \o s = s /\ s \o << >> = s /\ SubSeq(s, 1, 0) = << >> /\ SubSeq(s, Len(s) + 1, Len(s)) = << >>
<1>1. << >> \o s = s /\ s \o << >> = s /\ SubSeq(s, 1, 0) = << >>
  OBVIOUS
<1>2. SubSeq(s, Len(s) + 1, Len(s)) = << >>
  <2> DEFINE m == Len(s) + 1  a == SubSeq(s, m, Len(s))
  <2>1. m \in 1 .. Len(s) + 1 /\ Len(s) \in 0 .. Len(s) /\ m <= Len(s) + 1 /\ Len(s) - m + 1 = 0
    OBVIOUS
  <2> HIDE DEF m
  <2>2. a \in Seq(T) /\ Len(a) = Len(s) - m + 1
    BY <2>1, PartFacts
  <2> HIDE DEF a
  <2>3. a = << >>
    BY <2>1, <2>2
  <2> QED
    BY <2>3 DEF a, m
<1> QED
  BY <1>1, <1>2

\* Vec::push: the member comes last.
LEMMA Appended ==
    ASSUME NEW T, NEW s \in Seq(T), NEW e \in T
    PROVE  Append(s, e) = s \o <<e>> /\ Append(s, e) = s \o <<e>> \o << >> /\ Append(s, e) \in Seq(T)
<1>1. Append(s, e) = s \o <<e>> /\ Append(s, e) \in Seq(T)
  OBVIOUS
<1> DEFINE a == s \o <<e>>
<1>2. a \in Seq(T)
  OBVIOUS
<1> HIDE DEF a
<1>3. a \o << >> = a
  BY <1>2
<1> QED
  BY <1>1, <1>3 DEF a

\* borrow_from_right: the two siblings still divide their keys, at the new separator.
LEMMA BorrowRight ==
    ASSUME NEW A, NodeOK(A), NEW B, NodeOK(B), NEW l, NEW S \in SUBSET Int, NEW T \in SUBSET Int,
           NEW C, NEW g, NEW d,
           NodeHolds(A, l, S, C, g, d), NodeHolds(B, l, T, C, g, d),
           \A q \in C : g[q] \subseteq Int /\ g[q] # {}, S # {},
           Len(B.keys) >= 2,
           NEW p, NodeOK(p), NEW n \in 1 .. Len(p.keys), p.keys[n] \in T,
           \A k \in S : k < p.keys[n], \A k \in T : p.keys[n] <= k,
           NEW b, b = BorrowFromRight(p, n, A, B), NEW x, x = b.parent.keys[n]
    PROVE  /\ Parted(b.child, b.sibling, x, l, S \union T, C, g, d)
           /\ b.parent = [p EXCEPT !.keys[n] = x]
<1> DEFINE sep == p.keys[n]
<1>0. /\ A \in NodeSet /\ B \in NodeSet /\ p \in NodeSet /\ A.leaf \in BOOLEAN
      /\ A.keys \in Seq(Keys) /\ A.recs \in Seq(Records) /\ A.kids \in Seq(Pages)
      /\ B.keys \in Seq(Keys) /\ B.recs \in Seq(Records) /\ B.kids \in Seq(Pages)
      /\ p.keys \in Seq(Keys) /\ sep \in Keys /\ Len(B.keys) \in Nat
      /\ B.leaf \in BOOLEAN
      /\ B.leaf => B.kids = << >> /\ Len(B.keys) = Len(B.recs)
      /\ ~B.leaf => Len(B.kids) = Len(B.keys) + 1 /\ B.recs = << >>
      /\ A.leaf => A.kids = << >>
      /\ ~A.leaf => A.recs = << >>
  BY FormedFacts
<1>1. 1 \in 1 .. Len(B.keys) /\ 2 \in 1 .. Len(B.keys) /\ 2 - 1 = 1 /\ Len(B.keys) >= 1 /\ 1 + 1 = 2
  BY <1>0
<1>2. /\ SubSeq(B.keys, 1, 1) = <<Head(B.keys)>> /\ SubSeq(B.keys, 2, Len(B.keys)) = Tail(B.keys)
      /\ Head(B.keys) = B.keys[1] /\ B.keys[1] \in Keys /\ B.keys[2] \in Keys
  <2>1. B.keys \in Seq(Keys) /\ Len(B.keys) >= 1
    BY <1>0, <1>1
  <2>2. \A i \in 1 .. Len(B.keys) : B.keys[i] \in Keys
    BY <2>1
  <2> QED
    BY <1>1, <2>1, <2>2, PartNames
<1>3. \A y \in Keys : [p EXCEPT !.keys[n] = y].keys[n] = y
  BY <1>0, WithKey
<1>4. CASE A.leaf
  <2> DEFINE z == B.keys[2]
             P == [p EXCEPT !.keys[n] = z]
             a == Append(A.keys, Head(B.keys))  r == Append(A.recs, Head(B.recs))
             X == [A EXCEPT !.keys = a, !.recs = r]
             Y == [B EXCEPT !.keys = Tail(B.keys), !.recs = Tail(B.recs)]
  <2>1. b = [parent |-> P, child |-> X, sibling |-> Y]
    BY <1>4 DEF BorrowFromRight
  <2>2. x = z /\ b.parent = P /\ b.child = X /\ b.sibling = Y
    <3>1. b.parent = P /\ b.child = X /\ b.sibling = Y
      BY <2>1
    <3>2. P.keys[n] = z
      BY <1>2, <1>3
    <3> QED
      BY <3>1, <3>2
  <2>3. l = 0 /\ B.leaf /\ LeafHolds(A.keys, A.recs, S, d) /\ LeafHolds(B.keys, B.recs, T, d)
    BY <1>0, <1>4 DEF NodeHolds
  <2>4. /\ SubSeq(B.recs, 1, 1) = <<Head(B.recs)>> /\ SubSeq(B.recs, 2, Len(B.recs)) = Tail(B.recs)
        /\ Head(B.recs) \in Records
    BY <1>0, <1>1, <2>3, PartNames
  <2>5. /\ LeafHolds(<<Head(B.keys)>>, <<Head(B.recs)>>, Below(T, z), d)
        /\ LeafHolds(Tail(B.keys), Tail(B.recs), From(T, z), d)
    <3>1. /\ LeafHolds(SubSeq(B.keys, 1, 2 - 1), SubSeq(B.recs, 1, 2 - 1), Below(T, z), d)
          /\ LeafHolds(SubSeq(B.keys, 2, Len(B.keys)), SubSeq(B.recs, 2, Len(B.recs)), From(T, z), d)
      BY <1>1, <2>3, LeafCutLeft, LeafCutRight
    <3> QED
      BY <1>1, <1>2, <2>4, <3>1
  <2>6. z \in T /\ z \in Int /\ B.keys[1] \in T /\ B.keys[1] < z
    <3>1. /\ \A i \in 1 .. Len(B.keys) : B.keys[i] \in T /\ B.keys[i] \in Int
          /\ \A i, j \in 1 .. Len(B.keys) : i < j => B.keys[i] < B.keys[j]
      BY <2>3, LeafFacts
    <3> QED
      BY <1>1, <3>1
  <2>7. sep \in Int /\ \A k \in S : k < z
    <3>1. sep \in Int /\ sep <= z
      BY <1>0, <2>6, KeysInt
    <3> QED
      BY <3>1, <2>6
  <2>8. S \union Below(T, z) = Below(S \union T, z) /\ From(T, z) = From(S \union T, z)
    <3> HIDE DEF z
    <3>1. S \subseteq Int /\ T \subseteq Int /\ z \in Int /\ \A k \in S : k < z
      BY <2>6, <2>7
    <3>2. \A k \in S : ~(z <= k)
      BY <3>1
    <3>3. S \union Below(T, z) = Below(S \union T, z)
      BY <3>1, <3>2 DEF Below
    <3>4. From(T, z) = From(S \union T, z)
      BY <3>1, <3>2 DEF From
    <3> QED
      BY <3>3, <3>4
  <2>9. LeafHolds(a, r, Below(S \union T, z), d)
    <3>1. \A u \in S \cap Int, v \in Below(T, z) \cap Int : u < v
      <4> TAKE u \in S \cap Int, v \in Below(T, z) \cap Int
      <4>1. u < sep /\ sep <= v
        BY DEF Below
      <4> QED
        BY <2>7, <4>1
    <3>2. a = A.keys \o <<Head(B.keys)>> /\ r = A.recs \o <<Head(B.recs)>>
      <4>1. Head(B.keys) \in Keys /\ Head(B.recs) \in Records /\ A.keys \in Seq(Keys) /\ A.recs \in Seq(Records)
        BY <1>0, <1>2, <2>4
      <4> QED
        BY <4>1, Appended
    <3> HIDE DEF a, r, z
    <3>3. LeafHolds(A.keys \o <<Head(B.keys)>>, A.recs \o <<Head(B.recs)>>, S \union Below(T, z), d)
      BY <2>3, <2>5, <3>1, LeafJoin
    <3> QED
      BY <2>8, <3>2, <3>3
  <2>10. a \in Seq(Keys) /\ r \in Seq(Records) /\ Tail(B.keys) \in Seq(Keys) /\ Tail(B.recs) \in Seq(Records)
    BY <2>5, <2>9 DEF LeafHolds
  <2>11. X \in NodeSet /\ X.leaf = A.leaf /\ X.keys = a /\ X.recs = r /\ X.kids = A.kids
    BY <1>0, <2>10 DEF NodeSet
  <2>12. Y \in NodeSet /\ Y.leaf = B.leaf /\ Y.keys = Tail(B.keys) /\ Y.recs = Tail(B.recs) /\ Y.kids = B.kids
    BY <1>0, <2>10 DEF NodeSet
  <2> HIDE DEF X, Y, a, r, z, P
  <2>13. NodeHolds(X, l, Below(S \union T, z), C, g, d) /\ NodeHolds(Y, l, From(S \union T, z), C, g, d)
    BY <1>4, <2>3, <2>5, <2>8, <2>9, <2>11, <2>12 DEF NodeHolds
  <2>14. NodeOK(X) /\ NodeOK(Y)
    BY <1>0, <1>4, <2>3, <2>11, <2>12, <2>13, HoldsFormed
  <2>15. z \in Keys
    BY <1>2 DEF z
  <2>16. Parted(X, Y, z, l, S \union T, C, g, d)
    BY <2>6, <2>13, <2>14, <2>15 DEF Parted
  <2> QED
    BY <2>2, <2>16 DEF P
<1>5. CASE ~A.leaf
  <2> DEFINE z == Head(B.keys)
             P == [p EXCEPT !.keys[n] = z]
             a == Append(A.keys, sep)  c == Append(A.kids, Head(B.kids))
             X == [A EXCEPT !.keys = a, !.kids = c]
             Y == [B EXCEPT !.keys = Tail(B.keys), !.kids = Tail(B.kids)]
  <2>1. b = [parent |-> P, child |-> X, sibling |-> Y]
    BY <1>5 DEF BorrowFromRight
  <2>2. x = z /\ b.parent = P /\ b.child = X /\ b.sibling = Y
    <3>1. b.parent = P /\ b.child = X /\ b.sibling = Y
      BY <2>1
    <3>2. P.keys[n] = z
      BY <1>2, <1>3
    <3> QED
      BY <3>1, <3>2
  <2>3. l # 0 /\ ~B.leaf /\ Branches(A.keys, A.kids, S, C, g) /\ Branches(B.keys, B.kids, T, C, g)
    BY <1>0, <1>5 DEF NodeHolds
  <2>4. /\ SubSeq(B.kids, 1, 1) = <<Head(B.kids)>> /\ SubSeq(B.kids, 2, Len(B.kids)) = Tail(B.kids)
        /\ Head(B.kids) \in Pages /\ Head(B.kids) = B.kids[1]
    <3>1. Len(B.kids) >= 1
      BY <1>0, <1>1, <2>3
    <3> QED
      BY <1>0, <3>1, PartNames
  <2>5. /\ Branches(<< >>, <<Head(B.kids)>>, Below(T, z), C, g)
        /\ Branches(Tail(B.keys), Tail(B.kids), From(T, z), C, g)
    <3>1. /\ Branches(SubSeq(B.keys, 1, 1 - 1), SubSeq(B.kids, 1, 1), Below(T, B.keys[1]), C, g)
          /\ Branches(SubSeq(B.keys, 1 + 1, Len(B.keys)), SubSeq(B.kids, 1 + 1, Len(B.kids)), From(T, B.keys[1]), C, g)
      BY <1>1, <2>3, BranchCutLeft, BranchCutRight
    <3>2. SubSeq(B.keys, 1, 1 - 1) = << >>
      BY <1>0, EmptySeqs
    <3> QED
      BY <1>1, <1>2, <2>4, <3>1, <3>2
  <2>6. /\ z \in T /\ z \in Int /\ Head(B.kids) \in C
        /\ \A k \in g[Head(B.kids)] : k \in Int /\ k \in T /\ k < z
    <3>1. /\ \A i \in 1 .. Len(B.keys) : B.keys[i] \in T /\ B.keys[i] \in Int
          /\ \A i \in 1 .. Len(B.kids) : B.kids[i] \in C
          /\ \A i \in 1 .. Len(B.kids) : \A k \in Int :
                k \in g[B.kids[i]] <=> k \in T /\ (i > 1 => B.keys[i - 1] <= k) /\ (i <= Len(B.keys) => k < B.keys[i])
      BY <2>3, BranchFacts
    <3>2. 1 \in 1 .. Len(B.kids) /\ 1 <= Len(B.keys)
      BY <1>0, <1>1, <2>3
    <3>3. Head(B.kids) \in C /\ g[Head(B.kids)] \subseteq Int
      BY <2>4, <3>1, <3>2
    <3> QED
      BY <1>1, <1>2, <2>4, <3>1, <3>2, <3>3
  <2>7. PICK y \in Int : y \in g[Head(B.kids)] /\ y \in T /\ y < z
    BY <2>6
  <2>8. sep \in Int /\ sep < z /\ sep \in Below(T, z) /\ \A k \in S : k < z
    <3>1. sep \in Int /\ sep <= y
      BY <1>0, <2>7, KeysInt
    <3>2. sep < z
      BY <3>1, <2>6, <2>7
    <3> QED
      BY <2>6, <3>1, <3>2 DEF Below
  <2>9. S \union Below(T, z) = Below(S \union T, z) /\ From(T, z) = From(S \union T, z)
    <3> HIDE DEF z
    <3>1. S \subseteq Int /\ T \subseteq Int /\ z \in Int /\ \A k \in S : k < z
      BY <2>6, <2>8
    <3>2. \A k \in S : ~(z <= k)
      BY <3>1
    <3>3. S \union Below(T, z) = Below(S \union T, z)
      BY <3>1, <3>2 DEF Below
    <3>4. From(T, z) = From(S \union T, z)
      BY <3>1, <3>2 DEF From
    <3> QED
      BY <3>3, <3>4
  <2>10. Branches(a, c, Below(S \union T, z), C, g)
    <3>1. (\A k \in S \cap Int : k < sep) /\ (\A k \in Below(T, z) \cap Int : sep <= k)
      BY DEF Below
    <3>2. y \in g[<<Head(B.kids)>>[1]]
      BY <2>7
    <3>3. a = A.keys \o <<sep>> \o << >> /\ c = A.kids \o <<Head(B.kids)>>
      <4>1. sep \in Keys /\ Head(B.kids) \in Pages /\ A.keys \in Seq(Keys) /\ A.kids \in Seq(Pages)
        BY <1>0, <2>4
      <4> HIDE DEF sep
      <4> QED
        BY <4>1, Appended
    <3> HIDE DEF a, c, z, sep
    <3>4. sep \in Keys
      BY <1>0
    <3>5. Branches(A.keys \o <<sep>> \o << >>, A.kids \o <<Head(B.kids)>>, S \union Below(T, z), C, g)
      BY <2>3, <2>5, <2>8, <3>1, <3>2, <3>4, BranchJoin
    <3> QED
      BY <2>9, <3>3, <3>5
  <2>11. a \in Seq(Keys) /\ c \in Seq(Pages) /\ Tail(B.keys) \in Seq(Keys) /\ Tail(B.kids) \in Seq(Pages)
    BY <2>5, <2>10 DEF Branches
  <2>12. X \in NodeSet /\ X.leaf = A.leaf /\ X.keys = a /\ X.kids = c /\ X.recs = A.recs
    BY <1>0, <2>11 DEF NodeSet
  <2>13. Y \in NodeSet /\ Y.leaf = B.leaf /\ Y.keys = Tail(B.keys) /\ Y.kids = Tail(B.kids) /\ Y.recs = B.recs
    BY <1>0, <2>11 DEF NodeSet
  <2>14. z \in Keys
    BY <1>2
  <2> HIDE DEF X, Y, a, c, z, P
  <2>15. NodeHolds(X, l, Below(S \union T, z), C, g, d) /\ NodeHolds(Y, l, From(S \union T, z), C, g, d)
    BY <1>5, <2>3, <2>5, <2>9, <2>10, <2>12, <2>13 DEF NodeHolds
  <2>16. NodeOK(X) /\ NodeOK(Y)
    BY <1>0, <1>5, <2>3, <2>12, <2>13, <2>15, HoldsFormed
  <2>17. Parted(X, Y, z, l, S \union T, C, g, d)
    BY <2>6, <2>7, <2>14, <2>15, <2>16 DEF Parted
  <2> QED
    BY <2>2, <2>17 DEF P
<1> QED
  BY <1>0, <1>4, <1>5

\* borrow_from_left: the two siblings still divide their keys, at the new separator.
LEMMA BorrowLeft ==
    ASSUME NEW A, NodeOK(A), NEW B, NodeOK(B), NEW l, NEW S \in SUBSET Int, NEW T \in SUBSET Int,
           NEW C, NEW g, NEW d,
           NodeHolds(A, l, S, C, g, d), NodeHolds(B, l, T, C, g, d),
           \A q \in C : g[q] \subseteq Int /\ g[q] # {},
           Len(A.keys) >= 2,
           NEW p, NodeOK(p), NEW n \in 1 .. Len(p.keys), p.keys[n] \in T,
           \A k \in S : k < p.keys[n], \A k \in T : p.keys[n] <= k,
           NEW b, b = BorrowFromLeft(p, n, A, B), NEW x, x = b.parent.keys[n]
    PROVE  /\ Parted(b.sibling, b.child, x, l, S \union T, C, g, d)
           /\ b.parent = [p EXCEPT !.keys[n] = x]
<1> DEFINE sep == p.keys[n]  z == Last(A.keys)  m == Len(A.keys)
           P == [p EXCEPT !.keys[n] = z]
<1>0. /\ A \in NodeSet /\ B \in NodeSet /\ p \in NodeSet /\ A.leaf \in BOOLEAN
      /\ A.keys \in Seq(Keys) /\ A.recs \in Seq(Records) /\ A.kids \in Seq(Pages)
      /\ B.keys \in Seq(Keys) /\ B.recs \in Seq(Records) /\ B.kids \in Seq(Pages)
      /\ p.keys \in Seq(Keys) /\ sep \in Keys /\ m \in Nat
      /\ B.leaf \in BOOLEAN
      /\ B.leaf => B.kids = << >>
      /\ ~B.leaf => B.recs = << >>
      /\ A.leaf => A.kids = << >> /\ m = Len(A.recs)
      /\ ~A.leaf => Len(A.kids) = m + 1 /\ A.recs = << >>
  BY FormedFacts
<1>1. 1 \in 1 .. m /\ m \in 1 .. m /\ m >= 1 /\ m - 1 \in 1 .. m /\ m - 1 < m /\ 1 < m
  <2>1. m \in Nat /\ m >= 2
    BY <1>0
  <2> HIDE DEF m
  <2> QED
    BY <2>1
<1>2. /\ SubSeq(A.keys, 1, m - 1) = Front(A.keys) /\ SubSeq(A.keys, m, Len(A.keys)) = <<z>>
      /\ z = A.keys[m] /\ z \in Keys /\ z \in Int
  <2>1. A.keys \in Seq(Keys) /\ Len(A.keys) >= 1
    BY <1>0, <1>1
  <2> QED
    BY <2>1, PartNames, KeysInt
<1>3. P.keys[n] = z
  BY <1>0, <1>2, WithKey
<1>c. z \in S /\ A.keys[1] \in S /\ A.keys[1] < z
  <2>1. CASE A.leaf
    <3>1. LeafHolds(A.keys, A.recs, S, d)
      BY <2>1 DEF NodeHolds
    <3>2. /\ \A i \in 1 .. Len(A.keys) : A.keys[i] \in S
          /\ \A i, j \in 1 .. Len(A.keys) : i < j => A.keys[i] < A.keys[j]
      BY <3>1, LeafFacts
    <3> QED
      BY <1>1, <1>2, <3>2
  <2>2. CASE ~A.leaf
    <3>1. Branches(A.keys, A.kids, S, C, g)
      BY <2>2 DEF NodeHolds
    <3>2. /\ \A i \in 1 .. Len(A.keys) : A.keys[i] \in S
          /\ \A i, j \in 1 .. Len(A.keys) : i < j => A.keys[i] < A.keys[j]
      BY <3>1, BranchFacts
    <3> QED
      BY <1>1, <1>2, <3>2
  <2> QED
    BY <1>0, <2>1, <2>2
<1>d. sep \in Int /\ z < sep
  BY <1>0, <1>c, KeysInt
<1>e. Below(S, z) = Below(S \union T, z) /\ From(S, z) \union T = From(S \union T, z)
  <2> HIDE DEF z
  <2>1. S \subseteq Int /\ T \subseteq Int /\ z \in Int /\ \A k \in T : z <= k
    BY <1>2, <1>d
  <2>2. \A k \in T : ~(k < z)
    <3> TAKE k \in T
    <3>1. k \in Int /\ z <= k
      BY <2>1
    <3> QED
      BY <2>1, <3>1
  <2>3. Below(S, z) = Below(S \union T, z)
    BY <2>1, <2>2 DEF Below
  <2>4. From(S, z) \union T = From(S \union T, z)
    BY <2>1, <2>2 DEF From
  <2> QED
    BY <2>3, <2>4
<1>f. (\A k \in From(S, z) : k \in S /\ k < sep) /\ From(S, z) \subseteq Int
  BY DEF From
<1>4. CASE A.leaf
  <2> DEFINE a == <<z>> \o B.keys  r == <<Last(A.recs)>> \o B.recs
             X == [A EXCEPT !.keys = Front(A.keys), !.recs = Front(A.recs)]
             Y == [B EXCEPT !.keys = a, !.recs = r]
  <2>0. l = 0 /\ B.leaf /\ LeafHolds(A.keys, A.recs, S, d) /\ LeafHolds(B.keys, B.recs, T, d)
    BY <1>0, <1>4 DEF NodeHolds
  <2>1. b = [parent |-> P, child |-> Y, sibling |-> X]
    BY <2>0 DEF BorrowFromLeft
  <2>2. x = z /\ b.parent = P /\ b.child = Y /\ b.sibling = X
    <3>1. b.parent = P /\ b.child = Y /\ b.sibling = X
      BY <2>1
    <3> QED
      BY <3>1, <1>3
  <2>4. /\ SubSeq(A.recs, 1, m - 1) = Front(A.recs) /\ SubSeq(A.recs, m, Len(A.recs)) = <<Last(A.recs)>>
    <3>1. A.recs \in Seq(Records) /\ Len(A.recs) >= 1 /\ Len(A.recs) = m
      BY <1>0, <1>1, <1>4
    <3> HIDE DEF m
    <3>2. /\ SubSeq(A.recs, 1, Len(A.recs) - 1) = Front(A.recs)
          /\ SubSeq(A.recs, Len(A.recs), Len(A.recs)) = <<Last(A.recs)>>
      BY <3>1, PartNames
    <3> QED
      BY <3>1, <3>2
  <2>5. /\ LeafHolds(Front(A.keys), Front(A.recs), Below(S, z), d)
        /\ LeafHolds(<<z>>, <<Last(A.recs)>>, From(S, z), d)
    <3>1. /\ LeafHolds(SubSeq(A.keys, 1, m - 1), SubSeq(A.recs, 1, m - 1), Below(S, A.keys[m]), d)
          /\ LeafHolds(SubSeq(A.keys, m, Len(A.keys)), SubSeq(A.recs, m, Len(A.recs)), From(S, A.keys[m]), d)
      BY <1>1, <2>0, LeafCutLeft, LeafCutRight
    <3> QED
      BY <1>2, <2>4, <3>1
  <2>9. LeafHolds(a, r, From(S \union T, z), d)
    <3>1. \A u \in From(S, z) \cap Int, v \in T \cap Int : u < v
      <4> TAKE u \in From(S, z) \cap Int, v \in T \cap Int
      <4>1. u < sep /\ sep <= v
        BY <1>f
      <4> QED
        BY <1>d, <4>1
    <3>3. LeafHolds(<<z>> \o B.keys, <<Last(A.recs)>> \o B.recs, From(S, z) \union T, d)
      <4> HIDE DEF z
      <4> QED
        BY <2>0, <2>5, <3>1, LeafJoin
    <3> QED
      BY <1>e, <3>3
  <2>10. a \in Seq(Keys) /\ r \in Seq(Records) /\ Front(A.keys) \in Seq(Keys) /\ Front(A.recs) \in Seq(Records)
    BY <2>5, <2>9 DEF LeafHolds
  <2>11. X \in NodeSet /\ X.leaf = A.leaf /\ X.keys = Front(A.keys) /\ X.recs = Front(A.recs) /\ X.kids = A.kids
    BY <1>0, <2>10 DEF NodeSet
  <2>12. Y \in NodeSet /\ Y.leaf = B.leaf /\ Y.keys = a /\ Y.recs = r /\ Y.kids = B.kids
    BY <1>0, <2>10 DEF NodeSet
  <2> HIDE DEF X, Y, a, r, z, P
  <2>13. NodeHolds(X, l, Below(S \union T, z), C, g, d) /\ NodeHolds(Y, l, From(S \union T, z), C, g, d)
    BY <1>4, <1>e, <2>0, <2>5, <2>9, <2>11, <2>12 DEF NodeHolds
  <2>14. NodeOK(X) /\ NodeOK(Y)
    BY <1>0, <1>4, <2>0, <2>11, <2>12, <2>13, HoldsFormed
  <2>16. Parted(X, Y, z, l, S \union T, C, g, d)
    BY <1>2, <1>c, <2>13, <2>14 DEF Parted
  <2> QED
    BY <2>2, <2>16 DEF P
<1>5. CASE ~A.leaf
  <2> DEFINE a == <<sep>> \o B.keys  c == <<Last(A.kids)>> \o B.kids
             X == [A EXCEPT !.keys = Front(A.keys), !.kids = Front(A.kids)]
             Y == [B EXCEPT !.keys = a, !.kids = c]
  <2>0. l # 0 /\ ~B.leaf /\ Branches(A.keys, A.kids, S, C, g) /\ Branches(B.keys, B.kids, T, C, g)
    BY <1>0, <1>5 DEF NodeHolds
  <2>1. b = [parent |-> P, child |-> Y, sibling |-> X]
    BY <2>0 DEF BorrowFromLeft
  <2>2. x = z /\ b.parent = P /\ b.child = Y /\ b.sibling = X
    <3>1. b.parent = P /\ b.child = Y /\ b.sibling = X
      BY <2>1
    <3> QED
      BY <3>1, <1>3
  <2>4. /\ SubSeq(A.kids, 1, m) = Front(A.kids) /\ SubSeq(A.kids, m + 1, Len(A.kids)) = <<Last(A.kids)>>
    <3>1. A.kids \in Seq(Pages) /\ Len(A.kids) >= 1 /\ Len(A.kids) = m + 1 /\ Len(A.kids) - 1 = m
      BY <1>0, <1>1, <1>5
    <3> HIDE DEF m
    <3>2. /\ SubSeq(A.kids, 1, Len(A.kids) - 1) = Front(A.kids)
          /\ SubSeq(A.kids, Len(A.kids), Len(A.kids)) = <<Last(A.kids)>>
      BY <3>1, PartNames
    <3> QED
      BY <3>1, <3>2
  <2>5. /\ Branches(Front(A.keys), Front(A.kids), Below(S, z), C, g)
        /\ Branches(<< >>, <<Last(A.kids)>>, From(S, z), C, g)
    <3>1. /\ Branches(SubSeq(A.keys, 1, m - 1), SubSeq(A.kids, 1, m), Below(S, A.keys[m]), C, g)
          /\ Branches(SubSeq(A.keys, m + 1, Len(A.keys)), SubSeq(A.kids, m + 1, Len(A.kids)), From(S, A.keys[m]), C, g)
      BY <1>1, <2>0, BranchCutLeft, BranchCutRight
    <3>2. SubSeq(A.keys, m + 1, Len(A.keys)) = << >>
      BY <1>0, EmptySeqs
    <3> QED
      BY <1>2, <2>4, <3>1, <3>2
  <2>7. PICK y \in Int : y \in g[B.kids[1]]
    <3>1. /\ Len(B.kids) = Len(B.keys) + 1 /\ Len(B.keys) \in Nat
          /\ \A i \in 1 .. Len(B.kids) : B.kids[i] \in C
      BY <2>0, BranchFacts
    <3>2. B.kids[1] \in C
      BY <3>1
    <3> QED
      BY <3>2
  <2>10. Branches(a, c, From(S \union T, z), C, g)
    <3>1. (\A k \in From(S, z) \cap Int : k < sep) /\ (\A k \in T \cap Int : sep <= k)
      BY <1>f
    <3>3. a = << >> \o <<sep>> \o B.keys
      OBVIOUS
    <3>4. sep \in Keys /\ sep \in T
      BY <1>0
    <3> HIDE DEF a, z, sep
    <3>5. Branches(<< >> \o <<sep>> \o B.keys, <<Last(A.kids)>> \o B.kids, From(S, z) \union T, C, g)
      BY <2>0, <2>5, <2>7, <3>1, <3>4, BranchJoin
    <3> QED
      BY <1>e, <3>3, <3>5
  <2>11. a \in Seq(Keys) /\ c \in Seq(Pages) /\ Front(A.keys) \in Seq(Keys) /\ Front(A.kids) \in Seq(Pages)
    BY <2>5, <2>10 DEF Branches
  <2>12. X \in NodeSet /\ X.leaf = A.leaf /\ X.keys = Front(A.keys) /\ X.kids = Front(A.kids) /\ X.recs = A.recs
    BY <1>0, <2>11 DEF NodeSet
  <2>13. Y \in NodeSet /\ Y.leaf = B.leaf /\ Y.keys = a /\ Y.kids = c /\ Y.recs = B.recs
    BY <1>0, <2>11 DEF NodeSet
  <2> HIDE DEF X, Y, a, c, z, P
  <2>15. NodeHolds(X, l, Below(S \union T, z), C, g, d) /\ NodeHolds(Y, l, From(S \union T, z), C, g, d)
    BY <1>5, <1>e, <2>0, <2>5, <2>10, <2>12, <2>13 DEF NodeHolds
  <2>16. NodeOK(X) /\ NodeOK(Y)
    BY <1>0, <1>5, <2>0, <2>12, <2>13, <2>15, HoldsFormed
  <2>17. Parted(X, Y, z, l, S \union T, C, g, d)
    BY <1>2, <1>c, <2>15, <2>16 DEF Parted
  <2> QED
    BY <2>2, <2>17 DEF P
<1> QED
  BY <1>0, <1>4, <1>5

---------------------------------------------------------------------------
(***************************************************************************)
(* Splits, borrows and merges in a tree.                                   *)
(***************************************************************************)
\* A node's n-th child and the one after it, and the key between them.
LEMMA Siblings ==
    ASSUME NEW N, NEW R, NEW h, NEW g, NEW top, NEW count, NEW d, Tree(N, R, h, g, top, count, d),
           NEW p \in R, h[p] # 0, NEW n \in 1 .. Len(N[p].keys),
           NEW a, a = N[p].kids[n], NEW b, b = N[p].kids[n + 1]
    PROVE  /\ n \in 1 .. Len(N[p].kids) /\ n + 1 \in 1 .. Len(N[p].kids)
           /\ a \in R /\ b \in R /\ a # b /\ a # p /\ b # p
           /\ h[a] + 1 = h[p] /\ h[b] = h[a] /\ h[a] \in Nat
           /\ g[a] \subseteq Int /\ g[b] \subseteq Int /\ g[a] # {} /\ g[b] # {}
           /\ N[p].keys[n] \in Keys /\ N[p].keys[n] \in Int /\ N[p].keys[n] \in g[b]
           /\ \A k \in g[a] : k < N[p].keys[n]
           /\ \A k \in g[b] : N[p].keys[n] <= k
<1> DEFINE x == N[p].keys[n]  s == N[p].keys  c == N[p].kids  m == n + 1
<1>1. /\ Branches(s, c, g[p], Level(R, h, h[p]), g)
      /\ \A i \in 1 .. Len(c) : c[i] \in R /\ h[c[i]] + 1 = h[p] /\ h[c[i]] < h[p]
  BY KidFacts
<1>2. /\ \A q \in R : h[q] \in Nat /\ g[q] \subseteq Int /\ g[q] # {}
  BY TreeTypes
<1>3. a = c[n] /\ b = c[m] /\ x = s[n] /\ n \in 1 .. Len(s)
  OBVIOUS
<1>4. m = n + 1 /\ n \in Int
  OBVIOUS
<1> HIDE DEF s, c, m, x
<1>5. /\ Len(c) = Len(s) + 1 /\ Len(s) \in Nat
      /\ \A i \in 1 .. Len(s) : s[i] \in g[p] /\ s[i] \in Keys /\ s[i] \in Int
      /\ \A i, j \in 1 .. Len(s) : i < j => s[i] < s[j]
      /\ \A i \in 1 .. Len(c) : \A k \in Int :
            k \in g[c[i]] <=> /\ k \in g[p]
                              /\ i > 1 => s[i - 1] <= k
                              /\ i <= Len(s) => k < s[i]
  BY <1>1, BranchFacts
<1>6. n \in 1 .. Len(c) /\ m \in 1 .. Len(c) /\ m > 1 /\ m - 1 = n /\ n <= Len(s)
  BY <1>3, <1>4, <1>5
<1>7. /\ \A k \in Int : k \in g[a] => k < x
      /\ \A k \in Int : k \in g[b] => x <= k
  BY <1>3, <1>5, <1>6
<1>8. x \in g[b]
  <2>1. x \in g[p] /\ x \in Int /\ s[m - 1] <= x
    BY <1>3, <1>5, <1>6
  <2>2. m <= Len(s) => x < s[m]
    <3>1. m <= Len(s) => m \in 1 .. Len(s) /\ n < m
      BY <1>4, <1>6
    <3> QED
      BY <1>3, <1>5, <3>1
  <2> QED
    BY <1>3, <1>5, <1>6, <2>1, <2>2
<1>9. a \in R /\ b \in R /\ h[a] + 1 = h[p] /\ h[b] + 1 = h[p] /\ h[a] < h[p] /\ h[b] < h[p]
  BY <1>1, <1>3, <1>6
<1>10. h[a] = h[b] /\ h[a] \in Nat /\ a # p /\ b # p
  <2>1. h[a] \in Nat /\ h[b] \in Nat /\ h[p] \in Nat
    BY <1>2, <1>9
  <2>2. h[a] = h[b]
    BY <1>9, <2>1
  <2>3. ~(h[p] < h[p])
    BY <2>1
  <2>4. a # p /\ b # p
    BY <1>9, <2>3
  <2> QED
    BY <2>1, <2>2, <2>4
<1>11. a # b
  <2>1. x \in Int /\ ~(x < x)
    BY <1>3, <1>5
  <2> QED
    BY <1>7, <1>8, <2>1
<1>12. x \in Keys /\ x \in Int
  BY <1>3, <1>5
<1> QED
  BY <1>2, <1>4, <1>6, <1>7, <1>8, <1>9, <1>10, <1>11, <1>12 DEF c, x

\* The two have no gap between them, and are linked if they are leaves.
Abut(N, h, g, a, b) == Solid(g[a] \union g[b]) /\ (h[a] = 0 => N[a].next = b)

\* The keys of neighbouring children of a node are next to each other.
LEMMA SiblingsAbut ==
    ASSUME NEW N, NEW R, NEW h, NEW g, NEW top, NEW count, NEW d, Tree(N, R, h, g, top, count, d),
           NEW p \in R, h[p] # 0, NEW n \in 1 .. Len(N[p].keys),
           NEW a, a = N[p].kids[n], NEW b, b = N[p].kids[n + 1]
    PROVE  Abut(N, h, g, a, b)
<1> DEFINE x == N[p].keys[n]  s == N[p].keys  c == N[p].kids  m == n + 1
<1>1. /\ n \in 1 .. Len(c) /\ m \in 1 .. Len(c) /\ a \in R /\ b \in R /\ a # b
      /\ h[b] = h[a] /\ g[a] \subseteq Int /\ g[b] \subseteq Int /\ g[a] # {}
      /\ x \in Int /\ x \in g[b] /\ \A k \in g[a] : k < x
      /\ \A k \in g[b] : x <= k
  BY Siblings
<1>2. /\ Branches(s, c, g[p], Level(R, h, h[p]), g)
      /\ \A i \in 1 .. Len(c) : \A k \in g[c[i]] : k \in g[p] /\ k \in Int
  BY KidFacts
<1>3. /\ Solid(g[p]) /\ Chained(N, R, h, g) /\ None \notin R
      /\ \A o, q \in R : o # q /\ h[o] = h[q] => \A k \in Int : ~(k \in g[o] /\ k \in g[q])
      /\ \A q \in R : g[q] \subseteq Int
  <2>1. None \notin Pages
    BY NoneAssumption DEF Pages
  <2> QED
    BY <2>1, TreeTypes
<1>4. a = c[n] /\ b = c[m] /\ x = s[n] /\ n \in 1 .. Len(s) /\ m = n + 1 /\ n \in Int
  OBVIOUS
<1> HIDE DEF s, c, m, x
<1>5. /\ Len(c) = Len(s) + 1 /\ Len(s) \in Nat
      /\ \A i \in 1 .. Len(s) : s[i] \in Int
      /\ \A i \in 1 .. Len(c) : \A k \in Int :
            k \in g[c[i]] <=> /\ k \in g[p]
                              /\ i > 1 => s[i - 1] <= k
                              /\ i <= Len(s) => k < s[i]
  BY <1>2, BranchFacts
<1>6. /\ m > 1 /\ m - 1 = n /\ n <= Len(s)
      /\ n > 1 => s[n - 1] \in Int
      /\ m <= Len(s) => s[m] \in Int
  BY <1>4, <1>5
<1>7. /\ \A k \in Int : k \in g[a] <=> k \in g[p] /\ (n > 1 => s[n - 1] <= k) /\ k < x
      /\ \A k \in Int : k \in g[b] <=> k \in g[p] /\ x <= k /\ (m <= Len(s) => k < s[m])
  BY <1>1, <1>4, <1>5, <1>6
<1>8. ASSUME NEW v \in g[a] \union g[b], NEW w \in g[a] \union g[b], NEW z \in Int, v < z, z < w
      PROVE  z \in g[a] \union g[b]
  <2>1. v \in Int /\ w \in Int /\ v \in g[p] /\ w \in g[p]
    BY <1>1, <1>7
  <2>2. z \in g[p]
    BY <1>3, <1>8, <2>1 DEF Solid
  <2>3. CASE z < x
    <3>1. v < x
      BY ONLY <1>1, <1>8, <2>1, <2>3
    <3>2. n > 1 => s[n - 1] <= v
      BY ONLY <1>1, <1>7, <1>8, <2>1, <3>1
    <3>3. n > 1 => s[n - 1] <= z
      BY ONLY <1>6, <1>8, <2>1, <3>2
    <3> QED
      BY <1>7, <2>2, <2>3, <3>3
  <2>4. CASE x <= z
    <3>1. x < w
      BY ONLY <1>1, <1>8, <2>1, <2>4
    <3>2. m <= Len(s) => w < s[m]
      BY ONLY <1>1, <1>7, <1>8, <2>1, <3>1
    <3>3. m <= Len(s) => z < s[m]
      BY ONLY <1>6, <1>8, <2>1, <3>2
    <3> QED
      BY <1>7, <2>2, <2>4, <3>3
  <2> QED
    BY <1>1, <2>3, <2>4
<1>9. ASSUME h[a] = 0 PROVE N[a].next = b
  <2>0. PICK r : r = N[a].next
    OBVIOUS
  <2>1. PICK u \in g[a] : u \in Int /\ u < x
    BY <1>1
  <2>2. x \notin g[a]
    BY ONLY <1>1
  <2>3. \/ r = None /\ Ends(g, a)
        \/ r \in R /\ h[r] = 0 /\ Follows(g, a, r)
    BY ONLY <1>1, <1>3, <1>9, <2>0 DEF Chained
  <2>4. ~Ends(g, a)
    BY ONLY <1>1, <2>1, <2>2 DEF Ends
  <2>5. r \in R /\ h[r] = 0 /\ Follows(g, a, r)
    BY ONLY <2>3, <2>4
  <2>6. PICK y \in g[r] : y <= x
    BY ONLY <1>1, <2>1, <2>2, <2>5 DEF Follows
  <2>7. u < y /\ y \in Int /\ y \notin g[a]
    <3>1. \A k \in g[a] : k < y
      BY ONLY <2>5, <2>6 DEF Follows
    <3>2. y \in Int
      BY ONLY <1>3, <2>5, <2>6
    <3> QED
      BY ONLY <2>1, <3>1, <3>2
  <2>8. y = x
    <3>0. x \in Int /\ y \in Int /\ y <= x
      BY ONLY <1>1, <2>6, <2>7
    <3> DEFINE z == x
    <3> SUFFICES ASSUME y < x PROVE FALSE
      <4>1. z \in Int /\ y <= z
        BY <3>0
      <4> HIDE DEF z
      <4>2. y < z \/ y = z
        BY ONLY <4>1, <3>0
      <4> QED
        BY <4>2 DEF z
    <3>1. u \in g[p] /\ x \in g[p] /\ (n > 1 => s[n - 1] <= u)
      BY ONLY <1>1, <1>7, <2>1
    <3>2. y \in g[p]
      BY <1>3, <2>7, <3>1 DEF Solid
    <3>3. n > 1 => s[n - 1] <= y
      BY ONLY <1>6, <2>1, <2>7, <3>1
    <3> QED
      BY ONLY <1>7, <2>7, <3>2, <3>3, y < x
  <2>9. r = b
    BY ONLY <1>1, <1>3, <1>9, <2>5, <2>6, <2>8
  <2> QED
    BY <2>0, <2>9
<1> QED
  BY <1>8, <1>9 DEF Solid, Abut

\* In the tree N the child c, the n-th of p, is cut at x into itself and q.
SplitHere(N, R, h, g, top, count, d, more, p, n, c, q, x, M) ==
    /\ count \in Int /\ Tree(N, R, h, g, top, count, d) /\ more \in Int /\ count <= more
    /\ p \in R /\ h[p] # 0 /\ n \in 1 .. Len(N[p].kids) /\ c = N[p].kids[n]
    /\ q \in Pages /\ q \notin R /\ q < more
    /\ Parted(M[c], M[q], x, h[c], g[c], Level(R, h, h[c]), g, d)
    /\ ~M[p].leaf /\ M[p].keys = InsertAt(N[p].keys, n, x)
    /\ M[p].kids = InsertAt(N[p].kids, n + 1, q)
    /\ \A o \in R : o # c /\ o # p => M[o] = N[o]
    /\ h[c] = 0 => M[c].next = q /\ M[q].next = N[c].next

\* A node split in two below its parent, which gets the separator and the new page:
\* still a tree, with one page more, and nothing above or beside it has moved.
LEMMA TreeSplit ==
    ASSUME NEW N, NEW R, NEW h, NEW g, NEW top, NEW count, NEW d, NEW more,
           NEW p, NEW n, NEW c, NEW q, NEW x, NEW M,
           SplitHere(N, R, h, g, top, count, d, more, p, n, c, q, x, M)
    PROVE  \E Q, j, f : /\ Tree(M, Q, j, f, top, more, d)
                        /\ Q = R \union {q} /\ \A o \in R : j[o] = h[o]
<1>0. /\ count \in Int /\ Tree(N, R, h, g, top, count, d) /\ more \in Int /\ count <= more
      /\ p \in R /\ h[p] # 0 /\ n \in 1 .. Len(N[p].kids) /\ c = N[p].kids[n]
      /\ q \in Pages /\ q \notin R /\ q < more
      /\ Parted(M[c], M[q], x, h[c], g[c], Level(R, h, h[c]), g, d)
      /\ ~M[p].leaf /\ M[p].keys = InsertAt(N[p].keys, n, x)
      /\ M[p].kids = InsertAt(N[p].kids, n + 1, q)
      /\ \A o \in R : o # c /\ o # p => M[o] = N[o]
      /\ h[c] = 0 => M[c].next = q /\ M[q].next = N[c].next
  BY DEF SplitHere
<1> USE <1>0
<1> DEFINE Q == R \union {q}
           j == [o \in Q |-> IF o = q THEN h[c] ELSE h[o]]
           f == [o \in Q |-> IF o = c THEN Below(g[c], x) ELSE IF o = q THEN From(g[c], x) ELSE g[o]]
<1>1. /\ Branches(N[p].keys, N[p].kids, g[p], Level(R, h, h[p]), g)
      /\ \A i \in 1 .. Len(N[p].kids) : N[p].kids[i] \in R /\ h[N[p].kids[i]] + 1 = h[p]
      /\ c \in R /\ h[c] + 1 = h[p] /\ h[c] < h[p]
  BY KidFacts
<1>2. /\ \A o \in R : h[o] \in Nat /\ g[o] \subseteq Int /\ g[o] # {} /\ o \in Pages /\ o \in Int /\ o < count
      /\ \A o \in R : Solid(g[o])
      /\ Chained(N, R, h, g)
  BY TreeTypes
<1>3. c # q /\ c # p /\ p # q
  BY ONLY <1>0, <1>1, <1>2
<1>4. /\ j[q] = h[c] /\ \A o \in R : j[o] = h[o]
      /\ f[c] = Below(g[c], x) /\ f[q] = From(g[c], x) /\ \A o \in R : o # c => f[o] = g[o]
  BY <1>1, <1>3
<1>5. /\ x \in Keys /\ x \in g[c] /\ x \in Int
      /\ NodeHolds(M[c], h[c], Below(g[c], x), Level(R, h, h[c]), g, d)
      /\ NodeHolds(M[q], h[c], From(g[c], x), Level(R, h, h[c]), g, d)
  BY KeysInt DEF Parted
<1>6. PICK y \in g[c] : y < x
  BY DEF Parted
<1>7. \A k \in Int : (k \in Below(g[c], x) <=> k \in g[c] /\ k < x) /\ (k \in From(g[c], x) <=> k \in g[c] /\ x <= k)
  BY DEF Below, From
<1>8. /\ Below(g[c], x) \subseteq g[c] /\ From(g[c], x) \subseteq g[c] /\ g[c] \subseteq Int
      /\ y \in Below(g[c], x) /\ x \in From(g[c], x) /\ y \in Int
  <2>1. g[c] \subseteq Int
    BY ONLY Zenon, <1>1, <1>2
  <2>2. y \in Int /\ x <= x
    BY <1>5, <2>1
  <2>3. Below(g[c], x) \subseteq g[c] /\ From(g[c], x) \subseteq g[c]
    BY DEF Below, From
  <2> QED
    BY Zenon, <1>5, <1>6, <1>7, <2>1, <2>2, <2>3
<1> HIDE DEF j, f
<1>9. NodeHolds(M[p], h[p], g[p], Level(Q, j, h[p]), f, d)
  <2> DEFINE a == N[p].keys  e == N[p].kids  D == Level(Q, j, h[p])
  <2>1. Branches(a, e, g[p], Level(R, h, h[p]), g) /\ n \in 1 .. Len(e) /\ c = e[n] /\ c \in R
    BY <1>1
  <2>2. q \in D /\ \A i \in 1 .. Len(e) : e[i] \in D
    <3>1. \A i \in 1 .. Len(e) : e[i] \in Q /\ j[e[i]] + 1 = h[p]
      BY <1>1, <1>4
    <3>2. q \in Q /\ j[q] + 1 = h[p]
      BY <1>1, <1>4
    <3> QED
      BY <3>1, <3>2 DEF Level
  <2>3. \A i \in 1 .. Len(e) : i # n => f[e[i]] = g[e[i]]
    <3> TAKE i \in 1 .. Len(e)
    <3>1. i # n => e[i] # c
      BY <2>1, OneParent
    <3>2. e[i] \in R
      BY <1>1
    <3> QED
      BY <1>4, <3>1, <3>2
  <2>4. /\ \A k \in Int : k \in f[e[n]] <=> k \in g[e[n]] /\ k < x
        /\ \A k \in Int : k \in f[q] <=> k \in g[e[n]] /\ x <= k
    BY ONLY Zenon, <1>4, <1>7, <2>1
  <2>5. x \in g[e[n]] /\ y \in Int /\ y \in g[e[n]] /\ y < x
    BY <1>5, <1>6, <1>8
  <2>6. M[p].keys = InsertAt(a, n, x) /\ M[p].kids = InsertAt(e, n + 1, q)
    OBVIOUS
  <2> HIDE DEF a, e, D
  <2>7. Branches(InsertAt(a, n, x), InsertAt(e, n + 1, q), g[p], D, f)
    BY <1>5, <2>1, <2>2, <2>3, <2>4, <2>5, ParentAdd
  <2> QED
    BY <2>6, <2>7 DEF NodeHolds, D
<1> DEFINE D == {c}  E == {c, q}
<1>10. /\ D \subseteq R /\ Q = (R \ D) \union E
       /\ \A o \in D : \E i \in 1 .. Len(N[p].kids) : N[p].kids[i] = o
  BY <1>1
<1>11. \A o \in E : o \in Pages /\ o < more /\ (o \in R => o \in D)
  BY <1>1, <1>2
<1>12. \A o \in Q : o \notin E /\ o # p => M[o] = N[o]
  OBVIOUS
<1>13. \A o \in R : o \notin E => j[o] = h[o] /\ f[o] = g[o]
  BY ONLY Zenon, <1>4
<1>14. \A o \in E : /\ j[o] + 1 = h[p] /\ j[o] \in Nat /\ f[o] \subseteq Int /\ f[o] # {}
                    /\ NodeHolds(M[o], j[o], f[o], Level(R, h, j[o]), g, d)
                    /\ \A k \in f[o] : \E z \in D : k \in g[z]
                    /\ Solid(f[o])
  <2>3. Solid(f[c]) /\ Solid(f[q])
    <3>1. Solid(Below(g[c], x)) /\ Solid(From(g[c], x))
      BY <1>1, <1>2, <1>5, SolidParts
    <3> QED
      BY <1>1, <1>4, <3>1
  <2>1. /\ j[c] + 1 = h[p] /\ j[c] \in Nat /\ f[c] \subseteq Int /\ f[c] # {}
        /\ NodeHolds(M[c], j[c], f[c], Level(R, h, j[c]), g, d)
        /\ \A k \in f[c] : k \in g[c]
    <3>1. j[c] = h[c] /\ f[c] = Below(g[c], x)
      BY <1>1, <1>4
    <3> QED
      BY Zenon, <1>1, <1>2, <1>5, <1>8, <3>1
  <2>2. /\ j[q] + 1 = h[p] /\ j[q] \in Nat /\ f[q] \subseteq Int /\ f[q] # {}
        /\ NodeHolds(M[q], j[q], f[q], Level(R, h, j[q]), g, d)
        /\ \A k \in f[q] : k \in g[c]
    BY ZenonT(30), <1>1, <1>2, <1>4, <1>5, <1>8
  <2> QED
    BY <2>1, <2>2, <2>3
<1>15. \A o, z \in E : o # z => \A k \in Int : ~(k \in f[o] /\ k \in f[z])
  <2>1. \A k \in Int : ~(k \in f[c] /\ k \in f[q])
    BY ONLY <1>4, <1>5, <1>7
  <2> QED
    BY ONLY <2>1
<1>c. Chained(M, Q, j, f)
  <2>1. CASE h[c] = 0
    <3>1. ChainedCut(N, R, h, g, M, Q, j, f, c, q, x)
      <4>1. \A o \in R : o # c /\ h[o] = 0 => M[o].next = N[o].next
        BY <1>0
      <4>2. /\ c \in R /\ j[q] = 0 /\ M[c].next = q /\ M[q].next = N[c].next
        BY <1>0, <1>1, <1>4, <2>1
      <4> QED
        BY <1>0, <1>2, <1>4, <1>5, <1>6, <2>1, <4>1, <4>2 DEF ChainedCut
    <3> QED
      BY ONLY <3>1, ChainCut
  <2>2. CASE h[c] # 0
    <3>1. \A o \in Q : j[o] = 0 => o \in R /\ h[o] = 0 /\ M[o].next = N[o].next /\ f[o] = g[o]
      BY <1>0, <1>1, <1>4, <2>2
    <3>2. \A o \in R : h[o] = 0 => o \in Q /\ j[o] = 0 /\ f[o] = g[o]
      BY <1>4, <2>2
    <3> HIDE DEF Q
    <3> QED
      BY ONLY <1>2, <3>1, <3>2, ChainSame
  <2> QED
    BY <2>1, <2>2
<1> HIDE DEF D, E, Q
<1>16. Replaced(N, R, h, g, top, count, d, M, Q, j, f, more, p, D, E)
  BY <1>9, <1>10, <1>11, <1>12, <1>13, <1>14, <1>15, <1>c DEF Replaced
<1>17. Tree(M, Q, j, f, top, more, d)
  BY <1>16, TreeReplace
<1> QED
  BY <1>4, <1>17 DEF Q

\* A key goes over from one child to its neighbour.
\* In the tree N the border between the n-th child of p, a, and the next, b, moves to x.
ShiftHere(N, R, h, g, top, count, d, p, n, a, b, x, M) ==
    /\ count \in Int /\ Tree(N, R, h, g, top, count, d)
    /\ p \in R /\ h[p] # 0 /\ n \in 1 .. Len(N[p].keys)
    /\ a = N[p].kids[n] /\ b = N[p].kids[n + 1]
    /\ Parted(M[a], M[b], x, h[a], g[a] \union g[b], Level(R, h, h[a]), g, d)
    /\ M[p].leaf = N[p].leaf /\ M[p].keys = [N[p].keys EXCEPT ![n] = x] /\ M[p].kids = N[p].kids
    /\ \A o \in R : o # a /\ o # b /\ o # p => M[o] = N[o]
    /\ h[a] = 0 => M[a].next = N[a].next /\ M[b].next = N[b].next

\* Two siblings that divide their keys anew, with the separator between them
\* changed accordingly: still a tree, of the same pages.
LEMMA TreeShift ==
    ASSUME NEW N, NEW R, NEW h, NEW g, NEW top, NEW count, NEW d, NEW p, NEW n, NEW a, NEW b, NEW x, NEW M,
           ShiftHere(N, R, h, g, top, count, d, p, n, a, b, x, M)
    PROVE  \E f : Tree(M, R, h, f, top, count, d)
<1>0. /\ count \in Int /\ Tree(N, R, h, g, top, count, d)
      /\ p \in R /\ h[p] # 0 /\ n \in 1 .. Len(N[p].keys)
      /\ a = N[p].kids[n] /\ b = N[p].kids[n + 1]
      /\ Parted(M[a], M[b], x, h[a], g[a] \union g[b], Level(R, h, h[a]), g, d)
      /\ M[p].leaf = N[p].leaf /\ M[p].keys = [N[p].keys EXCEPT ![n] = x] /\ M[p].kids = N[p].kids
      /\ \A o \in R : o # a /\ o # b /\ o # p => M[o] = N[o]
      /\ h[a] = 0 => M[a].next = N[a].next /\ M[b].next = N[b].next
  BY DEF ShiftHere
<1> USE <1>0
<1> DEFINE U == g[a] \union g[b]
           f == [o \in R |-> IF o = a THEN Below(U, x) ELSE IF o = b THEN From(U, x) ELSE g[o]]
<1>1. /\ Branches(N[p].keys, N[p].kids, g[p], Level(R, h, h[p]), g)
      /\ \A i \in 1 .. Len(N[p].kids) : N[p].kids[i] \in R /\ h[N[p].kids[i]] + 1 = h[p]
      /\ ~N[p].leaf
  BY ONLY <1>0, KidFacts
<1>2. /\ \A o \in R : h[o] \in Nat /\ o \in Pages /\ o < count
  BY ONLY <1>0, TreeTypes
<1> DEFINE m == n + 1
<1>s. /\ n \in 1 .. Len(N[p].kids) /\ n + 1 \in 1 .. Len(N[p].kids)
      /\ a \in R /\ b \in R /\ a # b /\ a # p /\ b # p
      /\ h[a] + 1 = h[p] /\ h[b] = h[a] /\ h[a] \in Nat
      /\ g[a] \subseteq Int /\ g[b] \subseteq Int /\ g[a] # {} /\ g[b] # {}
  BY ONLY <1>0, Siblings
<1>t. /\ \A o \in R : g[o] \subseteq Int /\ g[o] # {} /\ Solid(g[o]) /\ o \in Pages
      /\ Chained(N, R, h, g)
      /\ \A o, r \in R : o # r /\ h[o] = h[r] => \A k \in Int : ~(k \in g[o] /\ k \in g[r])
  BY ONLY <1>0, TreeTypes
<1>n. Solid(g[a] \union g[b]) /\ (h[a] = 0 => N[a].next = b)
  <2>1. /\ Tree(N, R, h, g, top, count, d) /\ p \in R /\ h[p] # 0 /\ n \in 1 .. Len(N[p].keys)
        /\ a = N[p].kids[n] /\ b = N[p].kids[n + 1]
    BY ONLY <1>0
  <2>2. Abut(N, h, g, a, b)
    BY ONLY <2>1, SiblingsAbut
  <2> QED
    BY ONLY <2>2 DEF Abut
<1>k. b # None
  <2>1. b \in Pages
    BY ONLY <1>s, <1>t
  <2> QED
    BY <2>1, NoneAssumption DEF Pages
<1>3. /\ n \in 1 .. Len(N[p].kids) /\ m \in 1 .. Len(N[p].kids)
      /\ a \in R /\ b \in R /\ a # b /\ a # p /\ b # p
      /\ h[a] + 1 = h[p] /\ h[b] = h[a] /\ h[a] \in Nat
      /\ g[a] \subseteq Int /\ g[b] \subseteq Int /\ g[a] # {} /\ g[b] # {}
  BY ONLY <1>s
<1>m. b = N[p].kids[m] /\ m = n + 1 /\ n # m
  BY ONLY <1>0
<1> HIDE DEF m
<1>4. f[a] = Below(U, x) /\ f[b] = From(U, x) /\ \A o \in R : o # a /\ o # b => f[o] = g[o]
  BY ONLY <1>3
<1>5. /\ x \in Keys /\ x \in U /\ x \in Int
      /\ NodeHolds(M[a], h[a], Below(U, x), Level(R, h, h[a]), g, d)
      /\ NodeHolds(M[b], h[a], From(U, x), Level(R, h, h[a]), g, d)
  <2>1. Parted(M[a], M[b], x, h[a], g[a] \union g[b], Level(R, h, h[a]), g, d)
    BY ONLY <1>0
  <2> QED
    BY ONLY <2>1, KeysInt DEF Parted
<1>6. PICK y \in U : y < x
  <2>1. Parted(M[a], M[b], x, h[a], g[a] \union g[b], Level(R, h, h[a]), g, d)
    BY ONLY <1>0
  <2> QED
    BY ONLY <2>1 DEF Parted
<1>7. \A k \in Int : (k \in Below(U, x) <=> k \in U /\ k < x) /\ (k \in From(U, x) <=> k \in U /\ x <= k)
  BY DEF Below, From
<1>8. /\ Below(U, x) \subseteq U /\ From(U, x) \subseteq U /\ U \subseteq Int
      /\ y \in Below(U, x) /\ x \in From(U, x) /\ y \in Int
  <2>1. U \subseteq Int
    BY ONLY <1>3
  <2>2. y \in Int /\ x <= x
    <3>1. y \in Int
      BY ONLY Zenon, <1>6, <2>1
    <3>2. \A k \in Int : k <= k
      BY ONLY <1>5
    <3> QED
      BY ONLY <1>5, <3>1, <3>2
  <2>3. Below(U, x) \subseteq U /\ From(U, x) \subseteq U
    BY DEF Below, From
  <2> QED
    BY ONLY ZenonT(30), <1>5, <1>6, <1>7, <2>1, <2>2, <2>3
<1>u. \A k : k \in U <=> k \in g[a] \/ k \in g[b]
  OBVIOUS
<1>v. Solid(U) /\ U = g[a] \union g[b]
  BY ONLY <1>n
<1> HIDE DEF f, U
<1>9. NodeHolds(M[p], h[p], g[p], Level(R, h, h[p]), f, d)
  <2> DEFINE s == N[p].keys  e == N[p].kids  D == Level(R, h, h[p])
  <2>1. /\ Branches(s, e, g[p], Level(R, h, h[p]), g) /\ n \in 1 .. Len(s) /\ a = e[n] /\ b = e[m]
        /\ n \in 1 .. Len(e) /\ m \in 1 .. Len(e)
    BY <1>1, <1>3, <1>m
  <2>2. \A i \in 1 .. Len(e) : e[i] \in D
    BY ONLY <1>1 DEF Level
  <2>3. \A i \in 1 .. Len(e) : i # n /\ i # m => f[e[i]] = g[e[i]]
    <3> TAKE i \in 1 .. Len(e)
    <3>1. (i # n => e[i] # a) /\ (i # m => e[i] # b)
      BY <2>1, OneParent
    <3>2. e[i] \in R
      BY <1>1
    <3> QED
      BY <1>4, <3>1, <3>2
  <2>4. /\ \A k \in Int : k \in f[a] <=> (k \in g[a] \/ k \in g[b]) /\ k < x
        /\ \A k \in Int : k \in f[b] <=> (k \in g[a] \/ k \in g[b]) /\ x <= k
    BY ONLY <1>4, <1>7, <1>u
  <2>5. (x \in g[a] \/ x \in g[b]) /\ y \in Int /\ (y \in g[a] \/ y \in g[b]) /\ y < x
    BY ONLY <1>5, <1>6, <1>8, <1>u
  <2>6. M[p].keys = [s EXCEPT ![n] = x] /\ M[p].kids = e
    OBVIOUS
  <2> HIDE DEF s, e, D
  <2>7. Branches([s EXCEPT ![n] = x], e, g[p], D, f)
    <3>1. \A i \in 1 .. Len(e) : i # n /\ i # n + 1 => f[e[i]] = g[e[i]]
      BY <2>3, <1>m
    <3>2. /\ \A k \in Int : k \in f[e[n]] <=> (k \in g[e[n]] \/ k \in g[e[n + 1]]) /\ k < x
          /\ \A k \in Int : k \in f[e[n + 1]] <=> (k \in g[e[n]] \/ k \in g[e[n + 1]]) /\ x <= k
          /\ x \in g[e[n]] \/ x \in g[e[n + 1]]
          /\ y \in g[e[n]] \/ y \in g[e[n + 1]]
      BY <2>1, <2>4, <2>5, <1>m
    <3> QED
      BY <1>5, <2>1, <2>2, <2>5, <3>1, <3>2, ParentShift
  <2> QED
    BY ONLY Zenon, <1>0, <1>1, <2>6, <2>7 DEF NodeHolds, D
<1> DEFINE E == {a, b}
<1>10. /\ E \subseteq R /\ R = (R \ E) \union E
       /\ \A o \in E : \E i \in 1 .. Len(N[p].kids) : N[p].kids[i] = o
  BY ONLY <1>0, <1>3, <1>m
<1>11. \A o \in E : o \in Pages /\ o < count /\ (o \in R => o \in E)
  BY ONLY <1>2, <1>3
<1>12. \A o \in R : o \notin E /\ o # p => M[o] = N[o]
  OBVIOUS
<1>13. \A o \in R : o \notin E => h[o] = h[o] /\ f[o] = g[o]
  BY ONLY <1>4
<1>14. \A o \in E : /\ h[o] + 1 = h[p] /\ h[o] \in Nat /\ f[o] \subseteq Int /\ f[o] # {}
                    /\ NodeHolds(M[o], h[o], f[o], Level(R, h, h[o]), g, d)
                    /\ \A k \in f[o] : \E z \in E : k \in g[z]
                    /\ Solid(f[o])
  <2>3. Solid(f[a]) /\ Solid(f[b])
    <3>1. Solid(Below(U, x)) /\ Solid(From(U, x))
      BY ONLY <1>5, <1>8, <1>v, SolidParts
    <3> QED
      BY ONLY <1>4, <3>1
  <2>1. /\ h[a] + 1 = h[p] /\ h[a] \in Nat /\ f[a] \subseteq Int /\ f[a] # {}
        /\ NodeHolds(M[a], h[a], f[a], Level(R, h, h[a]), g, d)
        /\ \A k \in f[a] : k \in g[a] \/ k \in g[b]
    BY ONLY ZenonT(30), <1>3, <1>4, <1>5, <1>8, <1>u
  <2>2. /\ h[b] + 1 = h[p] /\ h[b] \in Nat /\ f[b] \subseteq Int /\ f[b] # {}
        /\ NodeHolds(M[b], h[b], f[b], Level(R, h, h[b]), g, d)
        /\ \A k \in f[b] : k \in g[a] \/ k \in g[b]
    BY ONLY ZenonT(30), <1>3, <1>4, <1>5, <1>8, <1>u
  <2> QED
    BY ONLY ZenonT(30), <2>1, <2>2, <2>3
<1>15. \A o, z \in E : o # z => \A k \in Int : ~(k \in f[o] /\ k \in f[z])
  <2>1. \A k \in Int : ~(k \in f[a] /\ k \in f[b])
    BY ONLY <1>4, <1>5, <1>7
  <2> QED
    BY ONLY <2>1
<1>c. count <= count
  OBVIOUS
<1>e. Chained(M, R, h, f)
  <2>0. \A o \in R : h[o] = 0 => M[o].next = N[o].next
    BY ONLY <1>0, <1>3
  <2>1. CASE h[a] = 0
    <3>1. f[a] # {} /\ f[b] # {}
      BY ONLY <1>4, <1>8
    <3>2. ChainedShift(N, R, h, g, M, f, a, b, x)
      BY ONLY <1>3, <1>4, <1>5, <1>n, <1>k, <1>t, <1>v, <2>0, <2>1, <3>1 DEF ChainedShift
    <3> QED
      BY ONLY <3>2, ChainShift
  <2>2. CASE h[a] # 0
    <3>1. \A o \in R : h[o] = 0 => o \in R /\ h[o] = 0 /\ M[o].next = N[o].next /\ f[o] = g[o]
      BY ONLY <1>3, <1>4, <2>0, <2>2
    <3>2. \A o \in R : h[o] = 0 => o \in R /\ h[o] = 0 /\ f[o] = g[o]
      BY ONLY <3>1
    <3> QED
      BY ONLY <1>t, <3>1, <3>2, ChainSame
  <2> QED
    BY ONLY <2>1, <2>2
<1> HIDE DEF E
<1>16. Replaced(N, R, h, g, top, count, d, M, R, h, f, count, p, E, E)
  BY <1>9, <1>10, <1>11, <1>12, <1>13, <1>14, <1>15, <1>c, <1>e DEF Replaced
<1>17. Tree(M, R, h, f, top, count, d)
  BY <1>16, TreeReplace
<1> QED
  BY ONLY <1>17

\* Two neighbours become one.
\* In the tree N the n-th child of p, a, takes what the next, b, holds.
MergeHere(N, R, h, g, top, count, d, p, n, a, b, M) ==
    /\ count \in Int /\ Tree(N, R, h, g, top, count, d)
    /\ p \in R /\ h[p] # 0 /\ n \in 1 .. Len(N[p].keys)
    /\ a = N[p].kids[n] /\ b = N[p].kids[n + 1]
    /\ NodeHolds(M[a], h[a], g[a] \union g[b], Level(R, h, h[a]), g, d)
    /\ M[p].leaf = N[p].leaf /\ M[p].keys = RemoveAt(N[p].keys, n)
    /\ M[p].kids = RemoveAt(N[p].kids, n + 1)
    /\ \A o \in R : o # a /\ o # b /\ o # p => M[o] = N[o]
    /\ h[a] = 0 => M[a].next = N[b].next

\* Two siblings joined into the left one, with the separator and the right page
\* taken out of the parent: still a tree, with the right page gone.
LEMMA TreeMerge ==
    ASSUME NEW N, NEW R, NEW h, NEW g, NEW top, NEW count, NEW d, NEW p, NEW n, NEW a, NEW b, NEW M,
           MergeHere(N, R, h, g, top, count, d, p, n, a, b, M)
    PROVE  \E Q, f : Tree(M, Q, h, f, top, count, d) /\ Q = R \ {b}
<1>0. /\ count \in Int /\ Tree(N, R, h, g, top, count, d)
      /\ p \in R /\ h[p] # 0 /\ n \in 1 .. Len(N[p].keys)
      /\ a = N[p].kids[n] /\ b = N[p].kids[n + 1]
      /\ NodeHolds(M[a], h[a], g[a] \union g[b], Level(R, h, h[a]), g, d)
      /\ M[p].leaf = N[p].leaf /\ M[p].keys = RemoveAt(N[p].keys, n)
      /\ M[p].kids = RemoveAt(N[p].kids, n + 1)
      /\ \A o \in R : o # a /\ o # b /\ o # p => M[o] = N[o]
      /\ h[a] = 0 => M[a].next = N[b].next
  BY DEF MergeHere
<1> USE <1>0
<1> DEFINE U == g[a] \union g[b]  Q == R \ {b}
           f == [o \in R |-> IF o = a THEN U ELSE g[o]]
<1>1. /\ Branches(N[p].keys, N[p].kids, g[p], Level(R, h, h[p]), g)
      /\ \A i \in 1 .. Len(N[p].kids) : N[p].kids[i] \in R /\ h[N[p].kids[i]] + 1 = h[p]
      /\ ~N[p].leaf
  BY ONLY <1>0, KidFacts
<1>2. /\ \A o \in R : h[o] \in Nat /\ o \in Pages /\ o < count
  BY ONLY <1>0, TreeTypes
<1> DEFINE m == n + 1
<1>s. /\ n \in 1 .. Len(N[p].kids) /\ n + 1 \in 1 .. Len(N[p].kids)
      /\ a \in R /\ b \in R /\ a # b /\ a # p /\ b # p
      /\ h[a] + 1 = h[p] /\ h[b] = h[a] /\ h[a] \in Nat
      /\ g[a] \subseteq Int /\ g[b] \subseteq Int /\ g[a] # {} /\ g[b] # {}
  BY ONLY <1>0, Siblings
<1>t. /\ \A o \in R : g[o] \subseteq Int /\ g[o] # {} /\ Solid(g[o]) /\ o \in Pages
      /\ Chained(N, R, h, g)
      /\ \A o, r \in R : o # r /\ h[o] = h[r] => \A k \in Int : ~(k \in g[o] /\ k \in g[r])
  BY ONLY <1>0, TreeTypes
<1>n. Solid(g[a] \union g[b]) /\ (h[a] = 0 => N[a].next = b)
  <2>1. /\ Tree(N, R, h, g, top, count, d) /\ p \in R /\ h[p] # 0 /\ n \in 1 .. Len(N[p].keys)
        /\ a = N[p].kids[n] /\ b = N[p].kids[n + 1]
    BY ONLY <1>0
  <2>2. Abut(N, h, g, a, b)
    BY ONLY <2>1, SiblingsAbut
  <2> QED
    BY ONLY <2>2 DEF Abut
<1>k. b # None
  <2>1. b \in Pages
    BY ONLY <1>s, <1>t
  <2> QED
    BY <2>1, NoneAssumption DEF Pages
<1>3. /\ n \in 1 .. Len(N[p].kids) /\ m \in 1 .. Len(N[p].kids)
      /\ a \in R /\ b \in R /\ a # b /\ a # p /\ b # p
      /\ h[a] + 1 = h[p] /\ h[b] = h[a] /\ h[a] \in Nat
      /\ g[a] \subseteq Int /\ g[b] \subseteq Int /\ g[a] # {} /\ g[b] # {}
  BY ONLY <1>s
<1>m. b = N[p].kids[m] /\ m = n + 1 /\ n # m
  BY ONLY <1>0
<1> HIDE DEF m
<1>4. f[a] = U /\ \A o \in R : o # a => f[o] = g[o]
  BY ONLY <1>3
<1>u. (\A k : k \in U <=> k \in g[a] \/ k \in g[b]) /\ U \subseteq Int /\ U # {}
  BY ONLY <1>3
<1>5. NodeHolds(M[a], h[a], U, Level(R, h, h[a]), g, d)
  BY ONLY <1>0
<1>v. Solid(U) /\ U = g[a] \union g[b]
  BY ONLY <1>n
<1> HIDE DEF f, U
<1>9. NodeHolds(M[p], h[p], g[p], Level(Q, h, h[p]), f, d)
  <2> DEFINE s == N[p].keys  e == N[p].kids  D == Level(Q, h, h[p])
  <2>1. /\ Branches(s, e, g[p], Level(R, h, h[p]), g) /\ n \in 1 .. Len(s) /\ a = e[n] /\ b = e[m]
        /\ n \in 1 .. Len(e) /\ m \in 1 .. Len(e)
    BY <1>1, <1>3, <1>m
  <2>2. \A i \in 1 .. Len(e) : i # m => e[i] # b /\ e[i] \in D
    <3> TAKE i \in 1 .. Len(e)
    <3>1. i # m => e[i] # b
      BY <2>1, OneParent
    <3> QED
      BY <1>1, <3>1 DEF Level
  <2>3. \A i \in 1 .. Len(e) : i # n /\ i # m => f[e[i]] = g[e[i]]
    <3> TAKE i \in 1 .. Len(e)
    <3>1. i # n => e[i] # a
      BY <2>1, OneParent
    <3>2. e[i] \in R
      BY <1>1
    <3> QED
      BY <1>4, <3>1, <3>2
  <2>6. M[p].keys = RemoveAt(s, n) /\ M[p].kids = RemoveAt(e, n + 1)
    OBVIOUS
  <2> HIDE DEF s, e, D
  <2>7. Branches(RemoveAt(s, n), RemoveAt(e, n + 1), g[p], D, f)
    <3>1. \A i \in 1 .. Len(e) : i # n /\ i # n + 1 => f[e[i]] = g[e[i]]
      BY <2>3, <1>m
    <3>2. \A k \in Int : k \in f[e[n]] <=> k \in g[e[n]] \/ k \in g[e[n + 1]]
      BY <1>4, <1>u, <2>1, <1>m
    <3>3. \A i \in 1 .. Len(e) : i # n + 1 => e[i] \in D
      BY ONLY <2>2, <1>m
    <3> QED
      BY <2>1, <3>1, <3>2, <3>3, ParentDrop
  <2> QED
    BY ONLY <1>0, <1>1, <2>6, <2>7 DEF NodeHolds, D
<1> DEFINE D == {a, b}  E == {a}
<1>10. /\ D \subseteq R /\ Q = (R \ D) \union E
       /\ \A o \in D : \E i \in 1 .. Len(N[p].kids) : N[p].kids[i] = o
  BY ONLY <1>0, <1>3, <1>m
<1>11. \A o \in E : o \in Pages /\ o < count /\ (o \in R => o \in D)
  BY ONLY <1>2, <1>3
<1>12. \A o \in Q : o \notin E /\ o # p => M[o] = N[o]
  OBVIOUS
<1>13. \A o \in R : o \notin E => h[o] = h[o] /\ f[o] = g[o]
  BY ONLY <1>4
<1>14. \A o \in E : /\ h[o] + 1 = h[p] /\ h[o] \in Nat /\ f[o] \subseteq Int /\ f[o] # {}
                    /\ NodeHolds(M[o], h[o], f[o], Level(R, h, h[o]), g, d)
                    /\ \A k \in f[o] : \E z \in D : k \in g[z]
                    /\ Solid(f[o])
  <2>1. /\ h[a] + 1 = h[p] /\ h[a] \in Nat /\ f[a] \subseteq Int /\ f[a] # {}
        /\ NodeHolds(M[a], h[a], f[a], Level(R, h, h[a]), g, d)
        /\ \A k \in f[a] : k \in g[a] \/ k \in g[b]
        /\ Solid(f[a])
    BY ONLY Zenon, <1>3, <1>4, <1>5, <1>u, <1>v
  <2> QED
    BY ONLY <2>1
<1>15. \A o, z \in E : o # z => \A k \in Int : ~(k \in f[o] /\ k \in f[z])
  BY ONLY TRUE
<1>c. count <= count
  OBVIOUS
<1>e. Chained(M, Q, h, f)
  <2>0. \A o \in R : h[o] = 0 /\ o # a /\ o # b => M[o].next = N[o].next
    BY ONLY <1>0, <1>3
  <2>1. CASE h[a] = 0
    <3>1. ChainedMerge(N, R, h, g, M, Q, h, f, a, b)
      BY ONLY Zenon, <1>0, <1>3, <1>4, <1>n, <1>k, <1>t, <1>v, <2>0, <2>1 DEF ChainedMerge
    <3> QED
      BY ONLY <3>1, ChainMerge
  <2>2. CASE h[a] # 0
    <3>1. \A o \in Q : h[o] = 0 => o \in R /\ h[o] = 0 /\ M[o].next = N[o].next /\ f[o] = g[o]
      BY ONLY <1>3, <1>4, <2>0, <2>2
    <3>2. \A o \in R : h[o] = 0 => o \in Q /\ h[o] = 0 /\ f[o] = g[o]
      BY ONLY <1>3, <1>4, <2>2
    <3> QED
      BY ONLY <1>t, <3>1, <3>2, ChainSame
  <2> QED
    BY ONLY <2>1, <2>2
<1> HIDE DEF D, E, Q
<1>16. Replaced(N, R, h, g, top, count, d, M, Q, h, f, count, p, D, E)
  BY <1>9, <1>10, <1>11, <1>12, <1>13, <1>14, <1>15, <1>c, <1>e DEF Replaced
<1>17. Tree(M, Q, h, f, top, count, d)
  BY <1>16, TreeReplace
<1> QED
  BY ONLY <1>17 DEF Q

---------------------------------------------------------------------------
(***************************************************************************)
(* find_leaf.                                                              *)
(***************************************************************************)
\* What find_leaf and the recursion of insert and delete keep of a node they pass.
Steps == [page : Pages, pos : Nat \ {0}]

\* One node more of a descent for the key k, until it is at a leaf.
Lower(w, k) ==
    LET p == IF w = << >> THEN root
             ELSE LET l == Last(w) IN nodes[l.page].kids[l.pos]
    IN  IF w # << >> /\ nodes[Last(w).page].leaf THEN w
        ELSE Append(w, [page |-> p, pos |-> ChildPos(nodes[p], k)])

\* The nodes a descent has met so far, for a key k of theirs.
OnWay(w, k, R, h, g, l) ==
    /\ w \in Seq(Steps) /\ Len(w) = l /\ w[1].page = root
    /\ \A i \in 1 .. l :
          LET p == w[i].page  n == w[i].pos
          IN  /\ p \in R /\ h[p] + i = h[root] + 1 /\ k \in g[p]
              /\ h[p] # 0 => n \in 1 .. Len(nodes[p].kids) /\ k \in g[nodes[p].kids[n]]
              /\ i < l => h[p] # 0 /\ nodes[p].kids[n] = w[i + 1].page

\* The function Descent defines, up to n nodes.
DescentUpTo(f, k, n) == f = [i \in 0 .. n |-> IF i = 0 THEN << >> ELSE Lower(f[i - 1], k)]

\* It exists, so Descent is what its body says.
LEMMA DescentExists ==
    ASSUME NEW k, NEW n \in Nat
    PROVE  \E f : DescentUpTo(f, k, n)
<1> DEFINE S == {m \in Nat : \E f : DescentUpTo(f, k, m)}
<1>1. 0 \in S
  <2> DEFINE f == [i \in 0 .. 0 |-> << >>]
  <2>1. f = [i \in 0 .. 0 |-> IF i = 0 THEN << >> ELSE Lower(f[i - 1], k)]
    OBVIOUS
  <2>2. DescentUpTo(f, k, 0)
    BY <2>1 DEF DescentUpTo
  <2> QED
    BY <2>2
<1>2. ASSUME NEW m \in Nat, m \in S PROVE m + 1 \in S
  <2>1. PICK f : DescentUpTo(f, k, m)
    BY <1>2
  <2> DEFINE n1 == m + 1
             e == [i \in 0 .. n1 |-> IF i = n1 THEN Lower(f[m], k) ELSE f[i]]
             e2 == [i \in 0 .. n1 |-> IF i = 0 THEN << >> ELSE Lower(e[i - 1], k)]
  <2>2. n1 \in Nat /\ n1 # 0 /\ n1 - 1 = m /\ m # n1 /\ m \in 0 .. n1
    OBVIOUS
  <2>3. \A i \in 0 .. n1 : i # n1 => i \in 0 .. m /\ (i # 0 => i - 1 \in 0 .. n1 /\ i - 1 # n1)
    OBVIOUS
  <2>4. \A i \in 0 .. m : f[i] = IF i = 0 THEN << >> ELSE Lower(f[i - 1], k)
    BY <2>1 DEF DescentUpTo
  <2> HIDE DEF n1
  <2>5. \A i \in 0 .. n1 : (i = n1 => e[i] = Lower(f[m], k)) /\ (i # n1 => e[i] = f[i])
    OBVIOUS
  <2>6. ASSUME NEW i \in 0 .. n1 PROVE e[i] = e2[i]
    <3>1. CASE i = n1
      <4>1. e[i] = Lower(f[m], k) /\ e[i - 1] = f[m] /\ i # 0
        BY <2>2, <2>5, <3>1
      <4> QED
        BY <4>1
    <3>2. CASE i # n1 /\ i = 0
      BY <2>3, <2>4, <2>5, <3>2
    <3>3. CASE i # n1 /\ i # 0
      <4>1. e[i] = f[i] /\ e[i - 1] = f[i - 1] /\ f[i] = Lower(f[i - 1], k)
        BY <2>3, <2>4, <2>5, <3>3
      <4> QED
        BY <3>3, <4>1
    <3> QED
      BY <3>1, <3>2, <3>3
  <2>7. e = e2
    BY <2>6
  <2>8. DescentUpTo(e, k, n1)
    BY <2>7 DEF DescentUpTo
  <2> QED
    BY <2>8 DEF n1
<1> HIDE DEF S
<1>3. n \in S
  BY <1>1, <1>2, SetInduction
<1> QED
  BY <1>3 DEF S

\* The child a descent for k takes at a page that leads on to k.
LEMMA PosFacts ==
    ASSUME NEW N, NEW R, NEW h, NEW g, NEW top, NEW count, NEW d, Tree(N, R, h, g, top, count, d),
           NEW p \in R, NEW k \in Int, k \in g[p], NEW n, n = ChildPos(N[p], k)
    PROVE  /\ n \in Nat \ {0}
           /\ h[p] # 0 => /\ n \in 1 .. Len(N[p].kids) /\ k \in g[N[p].kids[n]]
                          /\ N[p].kids[n] \in R /\ h[N[p].kids[n]] + 1 = h[p]
<1>1. NodeHolds(N[p], h[p], g[p], Level(R, h, h[p]), g, d)
  BY TreeTypes
<1> DEFINE a == N[p].keys
<1>2. a \in Seq(Int) /\ Sorted(a) /\ Len(a) \in Nat
  <2>1. a \in Seq(Keys) /\ Sorted(a)
    <3>1. h[p] = 0 => LeafHolds(N[p].keys, N[p].recs, g[p], d)
      BY <1>1 DEF NodeHolds
    <3>2. h[p] # 0 => Branches(N[p].keys, N[p].kids, g[p], Level(R, h, h[p]), g)
      BY <1>1 DEF NodeHolds
    <3> QED
      BY <3>1, <3>2 DEF LeafHolds, Branches
  <2> HIDE DEF a
  <2>2. a \in Seq(Int)
    <3>1. Len(a) \in Nat /\ DOMAIN a = 1 .. Len(a) /\ \A i \in 1 .. Len(a) : a[i] \in Int
      BY <2>1, SortedIn
    <3> QED
      BY <2>1, <3>1
  <2> QED
    BY <2>1, <2>2
<1>3. n \in 1 .. Len(a) + 1 /\ k \in Slot(a, n)
  BY <1>2, ChildFacts
<1>4. ASSUME h[p] # 0
      PROVE  /\ n \in 1 .. Len(N[p].kids) /\ k \in g[N[p].kids[n]]
             /\ N[p].kids[n] \in R /\ h[N[p].kids[n]] + 1 = h[p]
  <2> DEFINE c == N[p].kids
  <2>1. /\ Branches(a, c, g[p], Level(R, h, h[p]), g)
        /\ \A i \in 1 .. Len(c) : c[i] \in R /\ h[c[i]] + 1 = h[p]
    BY <1>4, KidFacts
  <2> HIDE DEF a, c
  <2>2. n \in 1 .. Len(c) /\ k \in g[c[n]]
    BY <1>2, <1>3, <2>1 DEF Branches
  <2> QED
    BY <2>1, <2>2 DEF c
<1>5. n \in Nat \ {0}
  <2> HIDE DEF a
  <2> QED
    BY <1>2, <1>3
<1> QED
  BY <1>4, <1>5

\* A descent goes one level down with each node.
LEMMA OnWayLower ==
    ASSUME NEW R, NEW h, NEW g, NEW count, NEW d, Tree(nodes, R, h, g, root, count, d),
           NEW k \in Int, NEW w, NEW l \in Nat, l >= 1, l <= h[root], OnWay(w, k, R, h, g, l),
           NEW m, m = l + 1
    PROVE  OnWay(Lower(w, k), k, R, h, g, m)
<1> DEFINE s == Last(w)  p == s.page  q == nodes[p].kids[s.pos]
           t == [page |-> q, pos |-> ChildPos(nodes[q], k)]  v == Append(w, t)
<1>1. /\ w \in Seq(Steps) /\ Len(w) = l /\ w[1].page = root /\ l \in 1 .. l /\ w # << >> /\ s = w[l]
  BY DEF OnWay, Last
<1>2. /\ \A i \in 1 .. l :
            /\ w[i].page \in R /\ h[w[i].page] + i = h[root] + 1 /\ k \in g[w[i].page]
            /\ h[w[i].page] # 0 => /\ w[i].pos \in 1 .. Len(nodes[w[i].page].kids)
                                   /\ k \in g[nodes[w[i].page].kids[w[i].pos]]
            /\ i < l => /\ h[w[i].page] # 0
                        /\ nodes[w[i].page].kids[w[i].pos] = w[i + 1].page
  BY DEF OnWay
<1>3. /\ \A o \in R : h[o] \in Nat /\ o \in Pages
      /\ h[root] \in Nat
  BY TreeTypes
<1>4. /\ p \in R /\ h[p] + l = h[root] + 1 /\ h[p] # 0 /\ s.pos \in 1 .. Len(nodes[p].kids) /\ k \in g[q]
  <2>1. p \in R /\ h[p] + l = h[root] + 1 /\ h[p] \in Nat
    BY <1>1, <1>2, <1>3
  <2>2. h[p] # 0
    BY <1>3, <2>1
  <2> QED
    BY <1>1, <1>2, <2>1, <2>2
<1>5. q \in R /\ h[q] + 1 = h[p] /\ ~nodes[p].leaf
  BY <1>4, KidFacts
<1>6. Lower(w, k) = v
  BY <1>1, <1>5 DEF Lower
<1>7. /\ t.pos \in Nat \ {0}
      /\ h[q] # 0 => t.pos \in 1 .. Len(nodes[q].kids) /\ k \in g[nodes[q].kids[t.pos]]
  <2> DEFINE n == ChildPos(nodes[q], k)
  <2>1. t.pos = n
    OBVIOUS
  <2>2. q \in R /\ k \in g[q]
    BY <1>4, <1>5
  <2> HIDE DEF t, q
  <2>3. /\ n \in Nat \ {0}
        /\ h[q] # 0 => n \in 1 .. Len(nodes[q].kids) /\ k \in g[nodes[q].kids[n]]
    BY <2>2, PosFacts
  <2> HIDE DEF n
  <2> QED
    BY <2>1, <2>3
<1>8. t \in Steps /\ t.page = q
  BY Zenon, <1>3, <1>5, <1>7 DEF Steps
<1>9. h[q] + m = h[root] + 1
  <2> HIDE DEF q, p
  <2>1. h[p] \in Nat /\ h[q] \in Nat /\ h[root] \in Nat
    BY <1>3, <1>4, <1>5
  <2> DEFINE x == h[p]  y == h[q]  z == h[root]
  <2>2. x \in Nat /\ y \in Nat /\ z \in Nat /\ x + l = z + 1 /\ y + 1 = x
    BY <1>4, <1>5, <2>1
  <2> HIDE DEF x, y, z
  <2>3. y + m = z + 1
    BY <2>2
  <2> QED
    BY <2>3 DEF y, z
<1> HIDE DEF t, q, p, s
<1>10. /\ v \in Seq(Steps) /\ Len(v) = m /\ v[m] = t /\ \A i \in 1 .. l : v[i] = w[i]
  BY <1>1, <1>8
<1> HIDE DEF v
<1>11. v[1].page = root
  BY <1>1, <1>10
<1>12. ASSUME NEW i \in 1 .. m
       PROVE  /\ v[i].page \in R /\ h[v[i].page] + i = h[root] + 1 /\ k \in g[v[i].page]
              /\ h[v[i].page] # 0 => /\ v[i].pos \in 1 .. Len(nodes[v[i].page].kids)
                                     /\ k \in g[nodes[v[i].page].kids[v[i].pos]]
              /\ i < m => /\ h[v[i].page] # 0
                          /\ nodes[v[i].page].kids[v[i].pos] = v[i + 1].page
  <2>1. CASE i = m
    BY <1>4, <1>5, <1>7, <1>8, <1>9, <1>10, <2>1
  <2>2. CASE i = l
    <3>1. v[i] = s /\ v[i + 1] = t
      BY <1>1, <1>10, <2>2
    <3> QED
      BY <1>1, <1>2, <1>4, <1>8, <2>2, <3>1 DEF p, q
  <2>3. CASE i < l
    <3>1. v[i] = w[i] /\ v[i + 1] = w[i + 1] /\ i \in 1 .. l
      BY <1>10, <2>3
    <3> QED
      BY <1>2, <2>3, <3>1
  <2> QED
    BY <2>1, <2>2, <2>3
<1>13. OnWay(v, k, R, h, g, m)
  BY <1>10, <1>11, <1>12 DEF OnWay
<1> QED
  BY <1>6, <1>13

\* A descent starts at the root.
LEMMA OnWayStart ==
    ASSUME NEW R, NEW h, NEW g, NEW count, NEW d, Tree(nodes, R, h, g, root, count, d), NEW k \in Int
    PROVE  OnWay(Lower(<< >>, k), k, R, h, g, 1)
<1> DEFINE t == [page |-> root, pos |-> ChildPos(nodes[root], k)]
<1>1. root \in R /\ root \in Pages /\ k \in g[root] /\ h[root] \in Nat
  BY TreeTypes
<1>2. Lower(<< >>, k) = <<t>>
  BY DEF Lower
<1>3. /\ t.pos \in Nat \ {0}
      /\ h[root] # 0 => t.pos \in 1 .. Len(nodes[root].kids) /\ k \in g[nodes[root].kids[t.pos]]
  BY <1>1, PosFacts
<1>4. t \in Steps /\ t.page = root
  BY <1>1, <1>3 DEF Steps
<1> HIDE DEF t
<1>5. <<t>> \in Seq(Steps) /\ Len(<<t>>) = 1 /\ <<t>>[1] = t
  BY <1>4
<1>6. OnWay(<<t>>, k, R, h, g, 1)
  BY <1>1, <1>3, <1>4, <1>5 DEF OnWay
<1> QED
  BY <1>2, <1>6

\* A descent from the root ends at a leaf, on the way to the key.
LEMMA DescentFacts ==
    ASSUME NEW R, NEW h, NEW g, NEW count \in Int, NEW d, Tree(nodes, R, h, g, root, count, d),
           count <= NumPages, NEW k \in Int
    PROVE  OnWay(Descent(k), k, R, h, g, h[root] + 1)
<1> DEFINE down == CHOOSE f : DescentUpTo(f, k, NumPages)
           H == h[root] + 1
           l(i) == IF i < H THEN i ELSE H
           S == {i \in Nat : i + 1 <= NumPages => OnWay(down[i + 1], k, R, h, g, l(i + 1))}
<1>1. NumPages \in Nat /\ NumPages >= 1
  BY PagesAssumption
<1>2. /\ H \in Nat /\ H >= 1 /\ H <= NumPages /\ h[root] = H - 1
      /\ \A o \in R : h[o] \in Nat /\ NodeHolds(nodes[o], h[o], g[o], Level(R, h, h[o]), g, d)
  <2>1. h[root] \in Nat /\ h[root] < count
    BY TreeTypes
  <2> QED
    BY <1>1, <2>1, TreeTypes
<1>3. DescentUpTo(down, k, NumPages)
  BY <1>1, DescentExists
<1>4. Descent(k) = down[NumPages]
  BY DEF Descent, DescentUpTo, Lower
<1> HIDE DEF down, H
<1>5. /\ down[0] = << >>
      /\ \A i \in 1 .. NumPages : down[i] = Lower(down[i - 1], k)
  <2>1. \A i \in 0 .. NumPages : down[i] = IF i = 0 THEN << >> ELSE Lower(down[i - 1], k)
    BY <1>3 DEF DescentUpTo
  <2>2. 0 \in 0 .. NumPages /\ \A i \in 1 .. NumPages : i \in 0 .. NumPages /\ i # 0
    BY <1>1
  <2> QED
    BY <2>1, <2>2
<1>6. 0 \in S
  <2>0. 1 \in 1 .. NumPages /\ 1 - 1 = 0
    BY <1>1
  <2>1. down[1] = Lower(<< >>, k)
    BY <1>5, <2>0
  <2>2. OnWay(down[1], k, R, h, g, 1)
    BY <2>1, OnWayStart
  <2>3. l(0 + 1) = 1
    BY <1>2
  <2>4. 0 + 1 = 1
    OBVIOUS
  <2> HIDE DEF l
  <2> QED
    BY <2>2, <2>3, <2>4
<1>7. ASSUME NEW i \in Nat, i \in S PROVE i + 1 \in S
  <2> DEFINE n == i + 1  m == n + 1
  <2>1. SUFFICES ASSUME m <= NumPages PROVE OnWay(down[m], k, R, h, g, l(m))
    OBVIOUS
  <2>2. n \in Nat /\ n >= 1 /\ m - 1 = n /\ n <= NumPages /\ m \in 1 .. NumPages
    BY <1>1, <2>1
  <2>3. OnWay(down[n], k, R, h, g, l(n))
    BY <1>7, <2>2
  <2>m. m = n + 1
    OBVIOUS
  <2> HIDE DEF n, m
  <2>4. down[m] = Lower(down[n], k)
    BY <1>5, <2>2
  <2>5. CASE n < H
    <3>1. l(n) = n /\ l(m) = n + 1 /\ n <= h[root] /\ m = n + 1
      BY <1>2, <2>2, <2>5, <2>m
    <3> HIDE DEF l
    <3>2. OnWay(down[n], k, R, h, g, n)
      BY <2>3, <3>1
    <3>3. OnWay(Lower(down[n], k), k, R, h, g, m)
      BY <2>2, <3>1, <3>2, OnWayLower
    <3> QED
      BY <2>4, <3>1, <3>3
  <2>6. CASE ~(n < H)
    <3>1. l(n) = H /\ l(m) = H
      BY <1>2, <2>2, <2>6, <2>m
    <3> HIDE DEF l
    <3> DEFINE w == down[n]  p == Last(w).page
    <3>2. OnWay(w, k, R, h, g, H)
      BY <2>3, <3>1
    <3> HIDE DEF w
    <3>3. w \in Seq(Steps) /\ Len(w) = H /\ w # << >> /\ p \in R /\ h[p] + H = h[root] + 1
      BY <1>2, <3>2 DEF OnWay, Last
    <3>4. h[p] = 0 /\ nodes[p].leaf
      <4>1. h[p] \in Nat
        BY <1>2, <3>3
      <4>2. h[p] = 0
        BY <1>2, <3>3, <4>1
      <4> QED
        BY <1>2, <3>3, <4>2 DEF NodeHolds
    <3>5. Lower(w, k) = w
      BY <3>3, <3>4 DEF Lower
    <3> QED
      BY <2>4, <3>1, <3>2, <3>5 DEF w
  <2> QED
    BY <2>5, <2>6
<1> HIDE DEF S
<1>8. NumPages - 1 \in S
  BY <1>1, <1>6, <1>7, SetInduction
<1>9. OnWay(down[NumPages], k, R, h, g, H)
  <2>1. (NumPages - 1) + 1 = NumPages /\ l(NumPages) = H
    BY <1>1, <1>2
  <2> HIDE DEF l
  <2> QED
    BY <1>1, <1>8, <2>1 DEF S
<1> QED
  BY <1>4, <1>9 DEF H

\* The pages of u lead down to p.
Above(u, p, R, h) ==
    \A i \in 1 .. Len(u) :
        /\ u[i].page \in R /\ h[u[i].page] + i = Len(u) + 1
        /\ u[i].pos \in 1 .. Len(nodes[u[i].page].kids)
        /\ nodes[u[i].page].kids[u[i].pos] = IF i = Len(u) THEN p ELSE u[i + 1].page

\* The leaf at the end of a descent, and the parents above it.
LEMMA WayFacts ==
    ASSUME NEW R, NEW h, NEW g, NEW count \in Int, NEW d, Tree(nodes, R, h, g, root, count, d),
           count <= NumPages, NEW k \in Int, NEW w, w = Descent(k),
           NEW p, p = Last(w).page, NEW u, u = Front(w)
    PROVE  /\ p \in R /\ h[p] = 0 /\ k \in g[p] /\ nodes[p].leaf
           /\ LeafHolds(nodes[p].keys, nodes[p].recs, g[p], d)
           /\ w \in Seq(Steps) /\ Len(w) = h[root] + 1
           /\ u \in Seq(Steps) /\ Len(u) = h[root] /\ h[root] \in Nat
           /\ Above(u, p, R, h)
<1> DEFINE H == h[root]  m == H + 1
<1>1. OnWay(w, k, R, h, g, h[root] + 1)
  BY DescentFacts
<1>2. \A o \in R : h[o] \in Nat /\ NodeHolds(nodes[o], h[o], g[o], Level(R, h, h[o]), g, d)
  BY TreeTypes
<1>3. H \in Nat /\ m = H + 1 /\ m >= 1
  BY TreeTypes
<1>4. /\ w \in Seq(Steps) /\ Len(w) = m /\ w[1].page = root
      /\ \A i \in 1 .. m :
            /\ w[i].page \in R /\ h[w[i].page] + i = H + 1 /\ k \in g[w[i].page]
            /\ h[w[i].page] # 0 => w[i].pos \in 1 .. Len(nodes[w[i].page].kids)
            /\ i < m => h[w[i].page] # 0 /\ nodes[w[i].page].kids[w[i].pos] = w[i + 1].page
  BY <1>1 DEF OnWay
<1> HIDE DEF m, H
<1>5. w # << >> /\ p = w[m].page /\ m \in 1 .. m
  BY <1>3, <1>4 DEF Last
<1>6. p \in R /\ h[p] = 0 /\ k \in g[p]
  <2>1. p \in R /\ h[p] + m = H + 1 /\ k \in g[p] /\ h[p] \in Nat
    BY <1>2, <1>4, <1>5
  <2> QED
    BY <1>3, <2>1
<1>7. nodes[p].leaf /\ LeafHolds(nodes[p].keys, nodes[p].recs, g[p], d)
  BY <1>2, <1>6 DEF NodeHolds
<1>8. u \in Seq(Steps) /\ Len(u) = H /\ \A i \in 1 .. H : u[i] = w[i]
  <2>1. u = SubSeq(w, 1, H)
    BY <1>3, <1>4 DEF Front
  <2>2. 1 \in 1 .. Len(w) + 1 /\ H \in 0 .. Len(w) /\ 1 <= H + 1 /\ H - 1 + 1 = H
    BY <1>3, <1>4
  <2>3. \A i \in 1 .. H : 1 + i - 1 = i
    OBVIOUS
  <2> QED
    BY <1>4, <2>1, <2>2, <2>3, PartFacts
<1>9. ASSUME NEW i \in 1 .. H
      PROVE  /\ u[i].page \in R /\ h[u[i].page] + i = H + 1
             /\ u[i].pos \in 1 .. Len(nodes[u[i].page].kids)
             /\ nodes[u[i].page].kids[u[i].pos] = IF i = H THEN p ELSE u[i + 1].page
  <2>1. i \in 1 .. m /\ i < m /\ u[i] = w[i]
    BY <1>3, <1>8
  <2>2. i # H => u[i + 1] = w[i + 1]
    BY <1>3, <1>8
  <2>3. i = H => i + 1 = m
    BY <1>3
  <2> QED
    BY <1>4, <1>5, <2>1, <2>2, <2>3
<1> QED
  BY <1>3, <1>4, <1>6, <1>7, <1>8, <1>9 DEF H, m, Above

\* What a search answers in a tree that holds the records of dict.
LEMMA SearchFacts ==
    ASSUME NEW R, NEW h, NEW g, NEW count \in Int, dict \in [Keys -> Records \union {None}],
           Tree(nodes, R, h, g, root, count, dict), count <= NumPages, NEW k \in Keys
    PROVE  Search(k) = dict[k]
<1> DEFINE p == Last(Descent(k)).page  r == nodes[p].recs  a == nodes[p].keys
           hits == {i \in DOMAIN r : r[i].key = k}
           first == CHOOSE i \in hits : \A j \in hits : i <= j
<1>1. Search(k) = IF hits = {} THEN None ELSE r[first]
  BY DEF Search, FindLeaf
<1>2. k \in Int
  BY KeysInt
<1>3. LeafHolds(a, r, g[p], dict) /\ k \in g[p]
  BY <1>2, WayFacts
<1> HIDE DEF a, r, p
<1>4. /\ a \in Seq(Keys) /\ r \in Seq(Records) /\ Len(r) = Len(a) /\ Len(a) \in Nat
      /\ \A i \in 1 .. Len(a) : a[i] = r[i].key /\ dict[a[i]] = r[i] /\ r[i] \in Records
      /\ \A i \in Keys : i \in g[p] /\ dict[i] # None => \E j \in 1 .. Len(a) : a[j] = i
  <2>1. LeafForm(a, r, g[p], dict)
    BY ONLY <1>3, LeafFormed
  <2> QED
    BY ONLY <2>1 DEF LeafForm
<1>5. \A i \in hits : i \in Nat /\ r[i] = dict[k] /\ dict[k] \in Records
  BY <1>4
<1>6. CASE hits = {}
  <2>1. \A j \in 1 .. Len(a) : a[j] # k
    BY <1>4, <1>6
  <2> QED
    BY <1>1, <1>3, <1>4, <1>6, <2>1
<1>7. CASE hits # {}
  <2>1. hits \subseteq Nat
    BY <1>5
  <2> HIDE DEF hits
  <2>2. \E i \in hits : \A j \in hits : i <= j
    BY <1>7, <2>1, LeastElement
  <2>3. first \in hits
    BY <2>2
  <2> HIDE DEF first
  <2> QED
    BY <1>1, <1>5, <1>7, <2>3
<1> QED
  BY <1>6, <1>7

---------------------------------------------------------------------------
(***************************************************************************)
(* Scans and ranges.                                                       *)
(***************************************************************************)
\* A recursive definition over 0 .. n whose n-th step is the function F[n].
StepsOf(f, n, X, x, F) == f \in [0 .. n -> X] /\ f[0] = x /\ \A i \in 1 .. n : f[i] = F[i][f[i - 1]]

\* There is one such function.
LEMMA StepsExist ==
    ASSUME NEW X, NEW x, x \in X, NEW F, F \in [Nat -> [X -> X]], NEW n, n \in Nat
    PROVE  \E f : StepsOf(f, n, X, x, F)
<1> DEFINE S == {m \in Nat : \E f \in [0 .. m -> X] : f[0] = x /\ \A i \in 1 .. m : f[i] = F[i][f[i - 1]]}
<1>1. 0 \in S
  <2> DEFINE f == [i \in 0 .. 0 |-> x]
  <2>1. f \in [0 .. 0 -> X] /\ f[0] = x /\ \A i \in 1 .. 0 : FALSE
    OBVIOUS
  <2> QED
    BY <2>1
<1>2. ASSUME NEW m \in Nat, m \in S PROVE m + 1 \in S
  <2>1. PICK f \in [0 .. m -> X] : f[0] = x /\ \A i \in 1 .. m : f[i] = F[i][f[i - 1]]
    BY <1>2
  <2>2. PICK k : k = m + 1
    OBVIOUS
  <2> DEFINE e == [i \in 0 .. k |-> IF i = k THEN F[k][f[m]] ELSE f[i]]
  <2>3. /\ k \in Nat /\ k # 0 /\ m # k /\ k - 1 = m /\ m \in 0 .. m
        /\ \A i \in 0 .. k : i # k => i \in 0 .. m
        /\ \A i \in 1 .. k : i - 1 \in 0 .. k /\ i - 1 # k /\ i \in 0 .. k
        /\ \A i \in 1 .. k : i # k => i \in 1 .. m
    BY <2>2
  <2>4. F[k] \in [X -> X] /\ f[m] \in X
    BY <2>3
  <2>5. F[k][f[m]] \in X
    BY <2>4
  <2>6. e \in [0 .. k -> X]
    BY <2>3, <2>5
  <2>7. e[0] = x
    BY <2>1, <2>3
  <2>8. \A i \in 1 .. k : e[i] = F[i][e[i - 1]]
    <3> TAKE i \in 1 .. k
    <3>1. i - 1 \in 0 .. k /\ i - 1 # k /\ e[i - 1] = f[i - 1]
      BY <2>3
    <3>2. CASE i = k
      BY <2>3, <3>1, <3>2
    <3>3. CASE i # k
      BY <2>1, <2>3, <3>1, <3>3
    <3> QED
      BY <3>2, <3>3
  <2> HIDE DEF e
  <2> QED
    BY <2>2, <2>3, <2>6, <2>7, <2>8
<1> HIDE DEF S
<1>3. n \in S
  BY <1>1, <1>2, SetInduction
<1> QED
  BY <1>3 DEF S, StepsOf

\* What holds of the first sequence, and is kept by joining the next one, holds
\* of all of them joined.
LEMMA FlattenSteps ==
    ASSUME NEW F, NEW n \in Nat, n # 0, NEW s, Len(s) = n, s[1] \in F[1],
           \A i \in 1 .. n - 1 : \A a \in F[i] : a \o s[i + 1] \in F[i + 1]
    PROVE  FlattenSeq(s) \in F[n]
<1> DEFINE f == CHOOSE f : JoinedUpTo(f, s, n)
           S == {i \in Nat : i \in 1 .. n => f[i] \in F[i]}
<1>1. JoinedUpTo(f, s, n)
  BY JoinedExists
<1>2. FlattenSeq(s) = f[n]
  BY DEF FlattenSeq, JoinedUpTo
<1> HIDE DEF f
<1>3. \A i \in 1 .. n : f[i] = IF i = 1 THEN s[i] ELSE f[i - 1] \o s[i]
  BY <1>1 DEF JoinedUpTo
<1>4. 0 \in S
  OBVIOUS
<1>5. ASSUME NEW k \in Nat, k \in S PROVE k + 1 \in S
  <2> SUFFICES ASSUME k + 1 \in 1 .. n PROVE f[k + 1] \in F[k + 1]
    OBVIOUS
  <2>1. CASE k = 0
    <3>1. k + 1 = 1
      BY <2>1
    <3>2. f[k + 1] = s[k + 1]
      BY <1>3, <3>1
    <3> QED
      BY <3>1, <3>2
  <2>2. CASE k # 0
    <3>1. k \in 1 .. n - 1 /\ k \in 1 .. n /\ k + 1 # 1 /\ (k + 1) - 1 = k
      BY <2>2
    <3>2. f[k + 1] = f[k] \o s[k + 1] /\ f[k] \in F[k]
      BY <1>3, <1>5, <3>1
    <3> QED
      BY <3>1, <3>2
  <2> QED
    BY <2>1, <2>2
<1> HIDE DEF S
<1>6. n \in S
  BY <1>4, <1>5, SetInduction
<1> QED
  BY <1>2, <1>6 DEF S

\* The records s are what d has under the keys of S, in order.
Scanned(s, S, d) == \E a : LeafHolds(a, s, S, d)

\* Such records, position by position.
LEMMA ScannedFacts ==
    ASSUME NEW s, NEW S, NEW d, Scanned(s, S, d)
    PROVE  /\ s \in Seq(Records) /\ Len(s) \in Nat /\ DOMAIN s = 1 .. Len(s)
           /\ \A i \in 1 .. Len(s) : /\ s[i] \in Records /\ s[i].key \in Keys /\ s[i].key \in Int
                                     /\ s[i].key \in S /\ d[s[i].key] = s[i]
           /\ \A i, j \in 1 .. Len(s) : i < j => s[i].key < s[j].key
           /\ \A k \in Keys : k \in S /\ d[k] # None => \E i \in 1 .. Len(s) : s[i].key = k
<1>1. PICK a : LeafHolds(a, s, S, d)
  BY DEF Scanned
<1>2. /\ a \in Seq(Keys) /\ s \in Seq(Records) /\ Len(s) = Len(a) /\ Sorted(a)
      /\ Len(a) \in Nat /\ \A i \in 1 .. Len(a) : a[i] \in Keys /\ a[i] \in Int
      /\ \A i \in 1 .. Len(a) : a[i] \in S /\ a[i] = s[i].key /\ d[a[i]] = s[i] /\ s[i] \in Records
      /\ \A i, j \in 1 .. Len(a) : i < j => a[i] < a[j]
      /\ \A i, j \in 1 .. Len(a) : i <= j => a[i] <= a[j]
      /\ \A k \in Keys : k \in S /\ d[k] # None => \E i \in 1 .. Len(a) : a[i] = k
  <2>1. LeafForm(a, s, S, d)
    BY ONLY <1>1, LeafFormed
  <2> QED
    BY ONLY <2>1 DEF LeafForm
<1>3. DOMAIN s = 1 .. Len(s)
  BY <1>2
<1> QED
  BY <1>2, <1>3

\* Records under keys that come before those of others, put first.
LEMMA ScannedJoin ==
    ASSUME NEW s, NEW S, NEW t, NEW T, NEW d, Scanned(s, S, d), Scanned(t, T, d),
           \A x \in S, y \in T : x < y
    PROVE  Scanned(s \o t, S \union T, d)
<1>1. PICK a : LeafHolds(a, s, S, d)
  BY DEF Scanned
<1>2. PICK b : LeafHolds(b, t, T, d)
  BY DEF Scanned
<1>3. LeafHolds(a \o b, s \o t, S \union T, d)
  BY <1>1, <1>2, LeafJoin
<1> QED
  BY <1>3 DEF Scanned

\* One leaf more of a chain, unless it ends.
Further(c) ==
    LET next == nodes[Last(c)].next
    IN  IF next = None THEN c ELSE Append(c, next)

\* The function LeavesFrom defines, up to n steps.
ChainUpTo(f, p, n) == f = [i \in 0 .. n |-> IF i = 0 THEN <<p>> ELSE Further(f[i - 1])]

\* The leaves a scan has visited, p first.
OnChain(c, p, R, h, g) ==
    /\ c \in Seq(Pages) /\ Len(c) >= 1 /\ c[1] = p
    /\ \A i \in 1 .. Len(c) : c[i] \in R /\ h[c[i]] = 0
    /\ \A i \in 1 .. Len(c) - 1 : Follows(g, c[i], c[i + 1])

\* It exists.
LEMMA ChainExists ==
    ASSUME \A o \in Pages : NodeOK(nodes[o]), NEW p \in Pages, NEW n \in Nat
    PROVE  \E f : ChainUpTo(f, p, n)
<1> DEFINE X == Seq(Pages) \ {<< >>}  F == [i \in Nat |-> [c \in X |-> Further(c)]]
<1>1. <<p>> \in X
  OBVIOUS
<1>2. \A c \in X : Further(c) \in X
  <2> SUFFICES ASSUME NEW c \in X PROVE Further(c) \in X
    OBVIOUS
  <2>1. c \in Seq(Pages) /\ c # << >> /\ Len(c) \in 1 .. Len(c) /\ Last(c) \in Pages
    BY DEF Last
  <2>2. nodes[Last(c)].next \in Pages \union {None}
    BY <2>1, FormedFacts
  <2> DEFINE x == nodes[Last(c)].next
  <2>3. Further(c) = IF x = None THEN c ELSE Append(c, x)
    BY DEF Further
  <2> HIDE DEF x
  <2>4. x # None => Append(c, x) \in Seq(Pages) /\ Append(c, x) # << >>
    <3>1. x # None => x \in Pages
      BY <2>2 DEF x
    <3> QED
      BY <2>1, <3>1
  <2> QED
    BY <2>1, <2>3, <2>4
<1> HIDE DEF X
<1>3. F \in [Nat -> [X -> X]]
  BY <1>2
<1>4. PICK f \in [0 .. n -> X] : f[0] = <<p>> /\ \A i \in 1 .. n : f[i] = F[i][f[i - 1]]
  <2> HIDE DEF F
  <2>1. PICK q : q = <<p>>
    OBVIOUS
  <2>2. \E f : StepsOf(f, n, X, q, F)
    <3>1. q \in X /\ F \in [Nat -> [X -> X]] /\ n \in Nat
      BY <1>1, <1>3, <2>1
    <3> QED
      BY ONLY Zenon, <3>1, StepsExist
  <2> QED
    BY <2>1, <2>2 DEF StepsOf
<1>5. \A i \in 0 .. n : f[i] = IF i = 0 THEN <<p>> ELSE Further(f[i - 1])
  <2> TAKE i \in 0 .. n
  <2>1. CASE i = 0
    BY <1>4, <2>1
  <2>2. CASE i # 0
    <3>1. i \in 1 .. n /\ i - 1 \in 0 .. n /\ f[i - 1] \in X /\ i \in Nat
      BY <2>2
    <3> QED
      BY <1>4, <2>2, <3>1
  <2> QED
    BY <2>1, <2>2
<1> DEFINE e == [i \in 0 .. n |-> IF i = 0 THEN <<p>> ELSE Further(f[i - 1])]
<1>6. f = e
  BY <1>5
<1>7. ChainUpTo(f, p, n)
  BY <1>6 DEF ChainUpTo
<1> QED
  BY <1>7

\* One step more stays on the chain.
LEMMA OnChainFurther ==
    ASSUME NEW R, NEW h, NEW g, NEW count, NEW d, Tree(nodes, R, h, g, root, count, d),
           NEW p, NEW c, OnChain(c, p, R, h, g)
    PROVE  /\ OnChain(Further(c), p, R, h, g)
           /\ \/ Further(c) = c /\ nodes[c[Len(c)]].next = None
              \/ Len(Further(c)) = Len(c) + 1
<1>0. PICK l, o, x : l = Len(c) /\ o = c[l] /\ x = nodes[o].next
  OBVIOUS
<1>1. /\ c \in Seq(Pages) /\ l \in Nat /\ l >= 1 /\ l \in 1 .. l /\ c[1] = p
      /\ \A i \in 1 .. l : c[i] \in R /\ h[c[i]] = 0
      /\ \A i \in 1 .. l - 1 : Follows(g, c[i], c[i + 1])
  BY <1>0 DEF OnChain
<1>2. o \in R /\ h[o] = 0 /\ Last(c) = o /\ Further(c) = IF x = None THEN c ELSE Append(c, x)
  BY <1>0, <1>1 DEF Further, Last
<1>3. CASE x = None
  BY <1>0, <1>2, <1>3
<1>4. CASE x # None
  <2>1. x \in R /\ h[x] = 0 /\ Follows(g, o, x)
    <3>1. Chained(nodes, R, h, g)
      BY TreeTypes
    <3> QED
      BY <1>0, <1>2, <1>4, <3>1 DEF Chained
  <2>2. x \in Pages
    BY <2>1, TreeTypes
  <2> DEFINE e == Append(c, x)
  <2>3. PICK m : m = l + 1
    OBVIOUS
  <2>4. /\ e \in Seq(Pages) /\ Len(e) = m /\ e[m] = x /\ \A i \in 1 .. l : e[i] = c[i]
    BY <1>0, <1>1, <2>2, <2>3
  <2> HIDE DEF e
  <2>5. /\ m \in Nat /\ m >= 1 /\ m - 1 = l /\ 1 \in 1 .. l
        /\ \A i \in 1 .. m : i # m => i \in 1 .. l
        /\ \A i \in 1 .. l : i # l => i \in 1 .. l - 1 /\ i + 1 \in 1 .. l
    BY <1>1, <2>3
  <2>6. \A i \in 1 .. m : e[i] \in R /\ h[e[i]] = 0
    BY <1>1, <2>1, <2>4, <2>5
  <2>7. \A i \in 1 .. m - 1 : Follows(g, e[i], e[i + 1])
    <3> SUFFICES ASSUME NEW i \in 1 .. l PROVE Follows(g, e[i], e[i + 1])
      BY <2>5
    <3>1. CASE i = l
      BY <1>0, <2>1, <2>3, <2>4, <3>1
    <3>2. CASE i # l
      <4>1. e[i] = c[i] /\ e[i + 1] = c[i + 1] /\ Follows(g, c[i], c[i + 1])
        BY <1>1, <2>4, <2>5, <3>2
      <4> QED
        BY <4>1
    <3> QED
      BY <3>1, <3>2
  <2>8. OnChain(e, p, R, h, g)
    BY <1>1, <2>4, <2>5, <2>6, <2>7 DEF OnChain
  <2>9. Further(c) = e
    BY <1>2, <1>4 DEF e
  <2> QED
    BY <1>0, <2>3, <2>4, <2>8, <2>9
<1> QED
  BY <1>3, <1>4

\* The keys of a leaf come before those of every later one.
LEMMA ChainAscends ==
    ASSUME NEW R, NEW h, NEW g, NEW count, NEW d, Tree(nodes, R, h, g, root, count, d),
           NEW p, NEW c, OnChain(c, p, R, h, g), NEW i \in 1 .. Len(c), NEW j \in 1 .. Len(c), i < j
    PROVE  \A x \in g[c[i]], y \in g[c[j]] : x < y
<1>0. PICK l : l = Len(c)
  OBVIOUS
<1>1. /\ l \in Nat /\ \A n \in 1 .. l : g[c[n]] \subseteq Int /\ g[c[n]] # {}
      /\ \A n \in 1 .. l - 1 : Follows(g, c[n], c[n + 1])
  <2>1. /\ c \in Seq(Pages) /\ \A n \in 1 .. l : c[n] \in R
        /\ \A n \in 1 .. l - 1 : Follows(g, c[n], c[n + 1])
    BY <1>0 DEF OnChain
  <2> QED
    BY <1>0, <2>1, TreeTypes
<1> DEFINE S == {n \in Nat : \A m \in 1 .. l : m = i + n + 1 => \A x \in g[c[i]], y \in g[c[m]] : x < y}
<1>2. 0 \in S
  <2> SUFFICES ASSUME i + 1 \in 1 .. l PROVE \A x \in g[c[i]], y \in g[c[i + 1]] : x < y
    OBVIOUS
  <2>1. i \in 1 .. l - 1
    BY <1>0, <1>1
  <2> QED
    BY <1>1, <2>1 DEF Follows
<1>3. ASSUME NEW n \in Nat, n \in S PROVE n + 1 \in S
  <2> SUFFICES ASSUME NEW m \in 1 .. l, m = i + (n + 1) + 1, NEW x \in g[c[i]], NEW y \in g[c[m]]
               PROVE  x < y
    OBVIOUS
  <2>1. PICK k : k = i + n + 1
    OBVIOUS
  <2>2. k \in 1 .. l /\ k \in 1 .. l - 1 /\ m = k + 1 /\ i \in 1 .. l
    BY <1>0, <1>1, <2>1
  <2>3. PICK z \in g[c[k]] : TRUE
    BY <1>1, <2>2
  <2>4. x < z
    BY <1>3, <2>1, <2>2
  <2>5. z < y
    BY <1>1, <2>2 DEF Follows
  <2>6. x \in Int /\ y \in Int /\ z \in Int
    BY <1>1, <2>2
  <2> QED
    BY <2>4, <2>5, <2>6
<1> HIDE DEF S
<1>4. j - i - 1 \in Nat /\ j = i + (j - i - 1) + 1 /\ j \in 1 .. l
  BY <1>0, <1>1
<1>5. j - i - 1 \in S
  BY <1>2, <1>3, <1>4, SetInduction
<1> QED
  BY <1>4, <1>5 DEF S

\* No leaf is visited twice.
LEMMA ChainShort ==
    ASSUME NEW R, NEW h, NEW g, NEW count, NEW d, Tree(nodes, R, h, g, root, count, d),
           NEW p, NEW c, OnChain(c, p, R, h, g)
    PROVE  Len(c) <= NumPages
<1>1. /\ c \in Seq(Pages) /\ Len(c) \in Nat /\ DOMAIN c = 1 .. Len(c)
      /\ \A i \in 1 .. Len(c) : c[i] \in Pages /\ g[c[i]] # {} /\ g[c[i]] \subseteq Int
  <2>1. c \in Seq(Pages) /\ \A n \in 1 .. Len(c) : c[n] \in R
    BY DEF OnChain
  <2>2. \A o \in R : o \in Pages /\ g[o] # {} /\ g[o] \subseteq Int
    BY TreeTypes
  <2>3. Len(c) \in Nat /\ DOMAIN c = 1 .. Len(c)
    BY <2>1
  <2> QED
    BY <2>1, <2>2, <2>3
<1>2. \A i, j \in 1 .. Len(c) : i < j => c[i] # c[j]
  <2> SUFFICES ASSUME NEW i \in 1 .. Len(c), NEW j \in 1 .. Len(c), i < j, c[i] = c[j] PROVE FALSE
    OBVIOUS
  <2>1. PICK x \in g[c[i]] : TRUE
    BY <1>1
  <2>2. x < x
    BY <2>1, ChainAscends
  <2>3. x \in Int
    BY <1>1
  <2> QED
    BY <2>2, <2>3
<1>3. \A i, j \in 1 .. Len(c) : c[i] = c[j] => i = j
  <2> SUFFICES ASSUME NEW i \in 1 .. Len(c), NEW j \in 1 .. Len(c), c[i] = c[j] PROVE i = j
    OBVIOUS
  <2>1. ~(i < j) /\ ~(j < i) /\ i \in Int /\ j \in Int
    BY <1>2
  <2> QED
    BY <2>1
<1>4. IsInjective(c)
  BY <1>1, <1>3 DEF IsInjective
<1>5. Cardinality(ToSet(c)) = Len(c)
  BY <1>1, <1>4, QueueCardinality
<1>6. IsFiniteSet(Pages) /\ Cardinality(Pages) = NumPages
  <2>1. PICK m : m = NumPages - 1
    OBVIOUS
  <2>2. m \in Int /\ 0 \in Int /\ ~(0 > m) /\ m - 0 + 1 = NumPages
    BY <2>1, PagesAssumption
  <2>3. IsFiniteSet(0 .. m) /\ Cardinality(0 .. m) = NumPages
    BY <2>2, FS_Interval
  <2> QED
    BY <2>1, <2>3 DEF Pages
<1>7. ToSet(c) \in SUBSET Pages
  BY <1>1 DEF ToSet
<1> QED
  BY <1>5, <1>6, <1>7, FS_Subset

\* A scan from a leaf goes on to a leaf that has no next one.
LEMMA ChainFacts ==
    ASSUME NEW R, NEW h, NEW g, NEW count, NEW d, Tree(nodes, R, h, g, root, count, d),
           \A o \in Pages : NodeOK(nodes[o]), NEW p \in R, h[p] = 0, NEW c, c = Chain(p)
    PROVE  OnChain(c, p, R, h, g) /\ nodes[c[Len(c)]].next = None
<1> DEFINE f == CHOOSE f : ChainUpTo(f, p, NumPages)
           Good(i) == /\ OnChain(f[i], p, R, h, g)
                      /\ nodes[f[i][Len(f[i])]].next = None \/ Len(f[i]) = i + 1
           S == {i \in Nat : i <= NumPages => Good(i)}
<1>1. NumPages \in Nat /\ p \in Pages
  BY PagesAssumption, TreeTypes
<1>2. ChainUpTo(f, p, NumPages)
  BY <1>1, ChainExists
<1>3. Chain(p) = f[NumPages]
  BY DEF Chain, ChainUpTo, Further
<1> HIDE DEF f
<1>4. /\ f[0] = <<p>>
      /\ \A i \in 1 .. NumPages : f[i] = Further(f[i - 1])
  <2>1. \A i \in 0 .. NumPages : f[i] = IF i = 0 THEN <<p>> ELSE Further(f[i - 1])
    BY <1>2 DEF ChainUpTo
  <2>2. 0 \in 0 .. NumPages /\ \A i \in 1 .. NumPages : i \in 0 .. NumPages /\ i # 0
    BY <1>1
  <2> QED
    BY <2>1, <2>2
<1>5. 0 \in S
  <2> DEFINE e == <<p>>
  <2>1. e \in Seq(Pages) /\ Len(e) = 1 /\ e[1] = p
    BY <1>1
  <2> HIDE DEF e
  <2>2. OnChain(e, p, R, h, g)
    BY <2>1 DEF OnChain
  <2>3. Good(0)
    BY <1>4, <2>1, <2>2 DEF e
  <2> QED
    BY <2>3
<1>6. ASSUME NEW i \in Nat, i \in S PROVE i + 1 \in S
  <2>0. PICK m : m = i + 1
    OBVIOUS
  <2> SUFFICES ASSUME m <= NumPages PROVE Good(m)
    BY <2>0
  <2>1. m \in 1 .. NumPages /\ m - 1 = i /\ i <= NumPages /\ m \in Nat
    BY <1>1, <2>0
  <2>2. OnChain(f[i], p, R, h, g) /\ (nodes[f[i][Len(f[i])]].next = None \/ Len(f[i]) = m)
    BY <1>6, <2>0, <2>1
  <2>3. f[m] = Further(f[i])
    BY <1>4, <2>1
  <2>4. /\ OnChain(f[m], p, R, h, g)
        /\ \/ f[m] = f[i] /\ nodes[f[i][Len(f[i])]].next = None
           \/ Len(f[m]) = Len(f[i]) + 1
    BY <2>2, <2>3, OnChainFurther
  <2>5. nodes[f[i][Len(f[i])]].next = None => f[m] = f[i]
    <3> DEFINE e == f[i]
    <3>1. e \in Seq(Pages) /\ Len(e) >= 1
      BY <2>2 DEF OnChain
    <3>2. Last(e) = e[Len(e)]
      BY <3>1 DEF Last
    <3> HIDE DEF e
    <3>3. nodes[e[Len(e)]].next = None => Further(e) = e
      BY <3>2 DEF Further
    <3> QED
      BY <2>3, <3>3 DEF e
  <2> QED
    BY <2>2, <2>4, <2>5
<1> HIDE DEF S
<1>7. NumPages \in S
  BY <1>1, <1>5, <1>6, SetInduction
<1>8. OnChain(c, p, R, h, g) /\ (nodes[c[Len(c)]].next = None \/ Len(c) = NumPages + 1)
  BY <1>1, <1>3, <1>7 DEF S
<1>9. Len(c) <= NumPages
  BY <1>8, ChainShort
<1> QED
  BY <1>1, <1>8, <1>9

\* The keys that the first n leaves of the chain c lead searches for.
Covered(c, g, n) == {z \in Int : \E i \in 1 .. n : z \in g[c[i]]}

\* A scan to the end meets every key that does not come before its first leaf.
LEMMA ChainCovers ==
    ASSUME NEW R, NEW h, NEW g, NEW count, NEW d, Tree(nodes, R, h, g, root, count, d),
           NEW p, NEW c, OnChain(c, p, R, h, g), nodes[c[Len(c)]].next = None,
           NEW z \in Int, NEW y \in g[p], y <= z
    PROVE  z \in Covered(c, g, Len(c))
<1>0. PICK l : l = Len(c)
  OBVIOUS
<1>1. /\ l \in Nat /\ l >= 1 /\ c[1] = p
      /\ \A i \in 1 .. l : c[i] \in R /\ h[c[i]] = 0
      /\ \A i \in 1 .. l - 1 : Follows(g, c[i], c[i + 1])
  BY <1>0 DEF OnChain
<1>2. \A i \in 1 .. l : g[c[i]] \subseteq Int
  <2>1. \A o \in R : g[o] \subseteq Int
    BY TreeTypes
  <2> QED
    BY <1>1, <2>1
<1>3. Ends(g, c[l])
  <2>1. Chained(nodes, R, h, g)
    BY TreeTypes
  <2>2. c[l] \in R /\ h[c[l]] = 0 /\ nodes[c[l]].next = None
    BY <1>0, <1>1
  <2>3. None \notin R
    <3>1. \A o \in R : o \in Pages /\ Pages \subseteq Nat
      BY TreeTypes DEF Pages
    <3> QED
      BY <3>1, NoneAssumption
  <2> QED
    BY <2>1, <2>2, <2>3 DEF Chained
<1>4. SUFFICES ASSUME \A i \in 1 .. l : z \notin g[c[i]] PROVE FALSE
  BY <1>0 DEF Covered
<1> DEFINE S == {n \in Nat : n + 1 <= l => \E x \in g[c[n + 1]] : x < z}
<1>5. 0 \in S
  <2>1. y < z
    <3>1. y \in Int /\ 1 \in 1 .. l
      BY <1>1, <1>2
    <3>2. y # z
      BY <1>1, <1>4, <3>1
    <3> QED
      BY <3>1, <3>2
  <2>2. 0 + 1 = 1
    OBVIOUS
  <2> QED
    BY <1>1, <2>1, <2>2
<1>6. ASSUME NEW n \in Nat, n \in S PROVE n + 1 \in S
  <2>0. PICK m, k : m = n + 1 /\ k = m + 1
    OBVIOUS
  <2> SUFFICES ASSUME k <= l PROVE \E x \in g[c[k]] : x < z
    BY <2>0
  <2>1. m \in 1 .. l /\ m \in 1 .. l - 1 /\ k \in 1 .. l /\ m <= l
    BY <1>1, <2>0
  <2>2. PICK x \in g[c[m]] : x < z
    BY <1>6, <2>0, <2>1
  <2>3. Follows(g, c[m], c[k])
    BY <1>1, <2>0, <2>1
  <2>4. PICK w \in g[c[k]] : w <= z
    BY <1>4, <2>1, <2>2, <2>3 DEF Follows
  <2>5. w \in Int /\ w # z
    BY <1>2, <1>4, <2>1
  <2> QED
    BY <2>4, <2>5
<1> HIDE DEF S
<1>7. l - 1 \in Nat /\ (l - 1) + 1 = l /\ l \in 1 .. l
  BY <1>1
<1>8. l - 1 \in S
  BY <1>5, <1>6, <1>7, SetInduction
<1>9. PICK x \in g[c[l]] : x < z
  BY <1>7, <1>8 DEF S
<1> QED
  BY <1>3, <1>4, <1>7, <1>9 DEF Ends

\* A scan meets the records of the leaves it visits, in the order of their keys.
LEMMA ChainScanned ==
    ASSUME NEW R, NEW h, NEW g, NEW count, NEW d, Tree(nodes, R, h, g, root, count, d),
           NEW p, NEW c, OnChain(c, p, R, h, g)
    PROVE  Scanned(RecordsOf(c), Covered(c, g, Len(c)), d)
<1>0. PICK l, s : l = Len(c) /\ s = [i \in DOMAIN c |-> nodes[c[i]].recs]
  OBVIOUS
<1>1. /\ c \in Seq(Pages) /\ l \in Nat /\ l >= 1 /\ DOMAIN c = 1 .. l
      /\ \A i \in 1 .. l : c[i] \in R /\ h[c[i]] = 0
  BY <1>0 DEF OnChain
<1>2. \A i \in 1 .. l : s[i] = nodes[c[i]].recs
  BY <1>0, <1>1
<1>3. \A i \in 1 .. l : g[c[i]] \subseteq Int /\ Scanned(s[i], g[c[i]], d)
  <2> TAKE i \in 1 .. l
  <2>1. PICK o : o = c[i]
    OBVIOUS
  <2>2. o \in R /\ h[o] = 0 /\ s[i] = nodes[o].recs
    BY <1>1, <1>2, <2>1
  <2>3. NodeHolds(nodes[o], h[o], g[o], Level(R, h, h[o]), g, d) /\ g[o] \subseteq Int
    BY <2>2, TreeTypes
  <2>4. LeafHolds(nodes[o].keys, nodes[o].recs, g[o], d)
    BY <2>2, <2>3 DEF NodeHolds
  <2> QED
    BY <2>1, <2>2, <2>3, <2>4 DEF Scanned
<1>4. Len(s) = l
  BY <1>0, <1>1
<1> DEFINE F == [n \in Nat |-> {a \in Seq(Records) : Scanned(a, Covered(c, g, n), d)}]
<1>5. s[1] \in F[1]
  <2>1. 1 \in 1 .. l /\ \A i \in 1 .. 1 : i = 1
    BY <1>1
  <2>2. Covered(c, g, 1) = g[c[1]]
    BY <1>3, <2>1 DEF Covered
  <2>3. Scanned(s[1], Covered(c, g, 1), d) /\ s[1] \in Seq(Records)
    BY <1>3, <2>1, <2>2, ScannedFacts
  <2> QED
    BY <2>3
<1>6. ASSUME NEW i \in 1 .. l - 1, NEW a \in F[i] PROVE a \o s[i + 1] \in F[i + 1]
  <2>0. PICK m : m = i + 1
    OBVIOUS
  <2>1. m \in 1 .. l /\ i \in Nat /\ m \in Nat /\ i \in 1 .. l
    BY <1>1, <2>0
  <2>2. a \in Seq(Records) /\ Scanned(a, Covered(c, g, i), d)
    BY <2>1
  <2>3. Scanned(s[m], g[c[m]], d) /\ s[m] \in Seq(Records)
    BY <1>3, <2>1, ScannedFacts
  <2>4. \A x \in Covered(c, g, i), y \in g[c[m]] : x < y
    <3> SUFFICES ASSUME NEW x \in Covered(c, g, i), NEW y \in g[c[m]] PROVE x < y
      OBVIOUS
    <3>1. PICK j \in 1 .. i : x \in g[c[j]]
      BY DEF Covered
    <3>2. j \in 1 .. Len(c) /\ m \in 1 .. Len(c) /\ j < m
      BY <1>0, <2>0, <2>1, <3>1
    <3>3. \A u \in g[c[j]], v \in g[c[m]] : u < v
      BY <3>2, ChainAscends
    <3> QED
      BY <3>1, <3>3
  <2>5. Scanned(a \o s[m], Covered(c, g, i) \union g[c[m]], d)
    BY <2>2, <2>3, <2>4, ScannedJoin
  <2>6. Covered(c, g, m) = Covered(c, g, i) \union g[c[m]]
    <3>1. \A j \in 1 .. m : j = m \/ j \in 1 .. i
      BY <2>0, <2>1
    <3>2. m \in 1 .. m /\ \A j \in 1 .. i : j \in 1 .. m
      BY <2>0, <2>1
    <3>3. g[c[m]] \subseteq Int
      BY <1>3, <2>1
    <3> QED
      BY <3>1, <3>2, <3>3 DEF Covered
  <2>7. a \o s[m] \in Seq(Records)
    BY <2>2, <2>3
  <2> QED
    BY <2>0, <2>1, <2>5, <2>6, <2>7
<1>7. FlattenSeq(s) \in F[l]
  <2> HIDE DEF F
  <2> QED
    BY <1>1, <1>4, <1>5, <1>6, FlattenSteps
<1>8. RecordsOf(c) = FlattenSeq(s)
  BY <1>0 DEF RecordsOf
<1> QED
  BY <1>0, <1>1, <1>7, <1>8

\* The function results of range_search, up to n records.
ResultsUpTo(f, found, lo, n) ==
    f = [i \in 0 .. n |->
            IF i = 0 THEN << >>
            ELSE IF found[i].key >= lo THEN Append(f[i - 1], found[i]) ELSE f[i - 1]]

\* It exists.
LEMMA ResultsExist ==
    ASSUME NEW found \in Seq(Records), NEW lo, NEW n \in 0 .. Len(found)
    PROVE  \E f : ResultsUpTo(f, found, lo, n)
<1> DEFINE X == Seq(Records)
           Step(i, s) == IF found[i].key >= lo THEN Append(s, found[i]) ELSE s
           F == [i \in Nat |-> [s \in X |-> IF i \in 1 .. Len(found) THEN Step(i, s) ELSE s]]
<1>1. << >> \in X /\ n \in Nat /\ \A i \in 1 .. n : i \in 1 .. Len(found) /\ i \in Nat
  OBVIOUS
<1>2. \A i \in 1 .. Len(found) : found[i] \in Records
  OBVIOUS
<1>3. \A i \in 1 .. Len(found) : \A s \in X : Step(i, s) \in X
  BY <1>2
<1> HIDE DEF X, Step
<1>4. F \in [Nat -> [X -> X]]
  BY <1>3
<1>5. PICK q : q = << >>
  OBVIOUS
<1>6. PICK f : StepsOf(f, n, X, q, F)
  <2> HIDE DEF F
  <2>1. q \in X /\ F \in [Nat -> [X -> X]] /\ n \in Nat
    BY <1>1, <1>4, <1>5
  <2> QED
    BY ONLY Zenon, <2>1, StepsExist
<1>7. f \in [0 .. n -> X] /\ f[0] = << >> /\ \A i \in 1 .. n : f[i] = F[i][f[i - 1]]
  BY <1>5, <1>6 DEF StepsOf
<1>8. \A i \in 0 .. n : f[i] = IF i = 0 THEN << >> ELSE Step(i, f[i - 1])
  <2> TAKE i \in 0 .. n
  <2>1. CASE i = 0
    BY <1>7, <2>1
  <2>2. CASE i # 0
    <3>1. i \in 1 .. n /\ i - 1 \in 0 .. n
      BY <2>2
    <3>2. f[i - 1] \in X /\ i \in Nat /\ i \in 1 .. Len(found)
      BY <1>1, <1>7, <3>1
    <3>3. F[i][f[i - 1]] = Step(i, f[i - 1])
      BY <3>2
    <3> QED
      BY <1>7, <2>2, <3>1, <3>3
  <2> QED
    BY <2>1, <2>2
<1> DEFINE e == [i \in 0 .. n |-> IF i = 0 THEN << >> ELSE Step(i, f[i - 1])]
<1>9. f = e
  BY <1>7, <1>8
<1>10. ResultsUpTo(f, found, lo, n)
  BY <1>9 DEF ResultsUpTo, Step
<1> QED
  BY <1>10

\* Records in ascending order of their keys.
Climbs(s) == \A i, j \in 1 .. Len(s) : i < j => s[i].key < s[j].key

\* Of the first n records of found, s has those from the key lo on.
Picked(s, found, lo, n) ==
    /\ s \in Seq(Records) /\ Climbs(s)
    /\ \A i \in 1 .. Len(s) : \E j \in 1 .. n : s[i] = found[j] /\ lo <= found[j].key
    /\ \A j \in 1 .. n : lo <= found[j].key => \E i \in 1 .. Len(s) : s[i] = found[j]

\* One record more is looked at.
LEMMA PickedStep ==
    ASSUME NEW found \in Seq(Records), Climbs(found), NEW lo \in Int, NEW n \in Nat, NEW s,
           Picked(s, found, lo, n), NEW m \in 1 .. Len(found), m = n + 1,
           \A i \in 1 .. Len(found) : found[i].key \in Int
    PROVE  Picked(IF found[m].key >= lo THEN Append(s, found[m]) ELSE s, found, lo, m)
<1>1. /\ s \in Seq(Records) /\ Len(s) \in Nat
      /\ \A i, j \in 1 .. Len(s) : i < j => s[i].key < s[j].key
      /\ \A i \in 1 .. Len(s) : \E j \in 1 .. n : s[i] = found[j] /\ lo <= found[j].key
      /\ \A j \in 1 .. n : lo <= found[j].key => \E i \in 1 .. Len(s) : s[i] = found[j]
  BY DEF Picked, Climbs
<1>2. /\ m \in 1 .. m /\ \A j \in 1 .. n : j \in 1 .. m /\ j \in 1 .. Len(found) /\ j < m
      /\ \A j \in 1 .. m : j # m => j \in 1 .. n
  OBVIOUS
<1>3. CASE found[m].key >= lo
  <2>0. PICK t, l : t = Append(s, found[m]) /\ l = Len(s) + 1
    OBVIOUS
  <2>1. /\ t \in Seq(Records) /\ Len(t) = l /\ l \in Nat /\ t[l] = found[m]
        /\ \A i \in 1 .. Len(s) : t[i] = s[i]
    BY <1>1, <2>0
  <2>2. /\ l \in 1 .. l /\ \A i \in 1 .. l : i # l => i \in 1 .. Len(s)
        /\ \A i \in 1 .. Len(s) : i \in 1 .. l /\ i < l
    BY <1>1, <2>0
  <2>3. ASSUME NEW i \in 1 .. l, NEW j \in 1 .. l, i < j PROVE t[i].key < t[j].key
    <3>1. i \in 1 .. Len(s) /\ t[i] = s[i]
      BY <2>1, <2>2, <2>3
    <3>2. CASE j = l
      <4>1. PICK k \in 1 .. n : s[i] = found[k]
        BY <1>1, <3>1
      <4>2. found[k].key < found[m].key
        BY <1>2, <4>1 DEF Climbs
      <4> QED
        BY <2>1, <3>1, <3>2, <4>1, <4>2
    <3>3. CASE j # l
      <4>1. j \in 1 .. Len(s) /\ t[j] = s[j]
        BY <2>1, <2>2, <3>3
      <4> QED
        BY <1>1, <2>3, <3>1, <4>1
    <3> QED
      BY <3>2, <3>3
  <2>4. \A i \in 1 .. l : \E j \in 1 .. m : t[i] = found[j] /\ lo <= found[j].key
    <3> TAKE i \in 1 .. l
    <3>1. CASE i = l
      BY <1>2, <1>3, <2>1, <3>1
    <3>2. CASE i # l
      <4>1. i \in 1 .. Len(s) /\ t[i] = s[i]
        BY <2>1, <2>2, <3>2
      <4> QED
        BY <1>1, <1>2, <4>1
    <3> QED
      BY <3>1, <3>2
  <2>5. \A j \in 1 .. m : lo <= found[j].key => \E i \in 1 .. l : t[i] = found[j]
    <3> SUFFICES ASSUME NEW j \in 1 .. m, lo <= found[j].key PROVE \E i \in 1 .. l : t[i] = found[j]
      OBVIOUS
    <3>1. CASE j = m
      BY <2>1, <2>2, <3>1
    <3>2. CASE j # m
      <4>1. j \in 1 .. n
        BY <1>2, <3>2
      <4>2. PICK i \in 1 .. Len(s) : s[i] = found[j]
        BY <1>1, <4>1
      <4> QED
        BY <2>1, <2>2, <4>2
    <3> QED
      BY <3>1, <3>2
  <2>6. Picked(t, found, lo, m)
    BY <2>1, <2>3, <2>4, <2>5 DEF Picked, Climbs
  <2> QED
    BY <1>3, <2>0, <2>6
<1>4. CASE ~(found[m].key >= lo)
  <2>1. ~(lo <= found[m].key)
    BY <1>4
  <2>2. Picked(s, found, lo, m)
    BY <1>1, <1>2, <2>1 DEF Picked, Climbs
  <2> QED
    BY <1>4, <2>2
<1> QED
  BY <1>3, <1>4

\* What range_search picks of the records the scan found.
LEMMA ResultsPicked ==
    ASSUME NEW found \in Seq(Records), Climbs(found), NEW lo \in Int, NEW n \in 0 .. Len(found),
           \A i \in 1 .. Len(found) : found[i].key \in Int,
           NEW f, ResultsUpTo(f, found, lo, n)
    PROVE  Picked(f[n], found, lo, n)
<1>1. /\ f[0] = << >>
      /\ \A i \in 1 .. n : f[i] = IF found[i].key >= lo THEN Append(f[i - 1], found[i]) ELSE f[i - 1]
  <2>1. \A i \in 0 .. n : f[i] = IF i = 0 THEN << >>
                                 ELSE IF found[i].key >= lo THEN Append(f[i - 1], found[i]) ELSE f[i - 1]
    BY DEF ResultsUpTo
  <2>2. 0 \in 0 .. n /\ \A i \in 1 .. n : i \in 0 .. n /\ i # 0
    OBVIOUS
  <2> QED
    BY <2>1, <2>2
<1> DEFINE S == {i \in Nat : i <= n => Picked(f[i], found, lo, i)}
<1>2. 0 \in S
  <2> DEFINE e == << >>
  <2>1. e \in Seq(Records) /\ Len(e) = 0
    OBVIOUS
  <2> HIDE DEF e
  <2>2. Picked(e, found, lo, 0)
    BY <2>1 DEF Picked, Climbs
  <2> QED
    BY <1>1, <2>2 DEF e
<1>3. ASSUME NEW i \in Nat, i \in S PROVE i + 1 \in S
  <2>0. PICK m, s, t : m = i + 1 /\ s = f[i] /\ t = f[m]
    OBVIOUS
  <2> SUFFICES ASSUME m <= n PROVE Picked(t, found, lo, m)
    BY <2>0
  <2>1. m \in 1 .. n /\ m \in 1 .. Len(found) /\ m - 1 = i /\ i <= n
    BY <2>0
  <2>2. Picked(s, found, lo, i)
    BY <1>3, <2>0, <2>1
  <2>3. t = IF found[m].key >= lo THEN Append(s, found[m]) ELSE s
    BY <1>1, <2>0, <2>1
  <2>4. Picked(IF found[m].key >= lo THEN Append(s, found[m]) ELSE s, found, lo, m)
    BY <2>0, <2>1, <2>2, PickedStep
  <2> QED
    BY <2>3, <2>4
<1> HIDE DEF S
<1>4. n \in S
  BY <1>2, <1>3, SetInduction
<1> QED
  BY <1>4 DEF S

\* The leaf a search ends at.
LEMMA FindLeafFacts ==
    ASSUME NEW R, NEW h, NEW g, NEW count \in Int, NEW d, Tree(nodes, R, h, g, root, count, d),
           count <= NumPages, NEW k \in Int, NEW p, p = FindLeaf(k)
    PROVE  p \in R /\ h[p] = 0 /\ k \in g[p]
<1>1. PICK w, u : w = Descent(k) /\ u = Front(w)
  OBVIOUS
<1>2. p = Last(w).page
  BY <1>1 DEF FindLeaf
<1> QED
  BY <1>1, <1>2, WayFacts

\* range_search in a tree that holds the records of dict.
LEMMA RangeFacts ==
    ASSUME NEW R, NEW h, NEW g, NEW count \in Int, Tree(nodes, R, h, g, root, count, dict),
           count <= NumPages, \A o \in Pages : NodeOK(nodes[o]), dict \in Dicts,
           NEW lo \in Keys, NEW hi \in Keys, NEW s, s = RangeSearch(lo, hi)
    PROVE  /\ ToSet(s) = {dict[k] : k \in {i \in Present : lo <= i /\ i <= hi}}
           /\ \A i, j \in DOMAIN s : i < j => s[i].key < s[j].key
<1>1. lo \in Int /\ hi \in Int /\ Keys \subseteq Int
  BY KeysInt
<1>2. PICK p, c, found, S : /\ p = FindLeaf(lo) /\ c = Chain(p) /\ found = RecordsOf(c)
                            /\ S = Covered(c, g, Len(c))
  OBVIOUS
<1>3. p \in R /\ h[p] = 0 /\ lo \in g[p]
  BY <1>1, <1>2, FindLeafFacts
<1>4. OnChain(c, p, R, h, g) /\ nodes[c[Len(c)]].next = None
  BY <1>2, <1>3, ChainFacts
<1>5. \A z \in Int : lo <= z => z \in S
  BY <1>2, <1>3, <1>4, ChainCovers
<1>6. Scanned(found, S, dict)
  BY <1>2, <1>4, ChainScanned
<1>7. /\ found \in Seq(Records) /\ Len(found) \in Nat /\ DOMAIN found = 1 .. Len(found)
      /\ \A i \in 1 .. Len(found) : /\ found[i] \in Records /\ found[i].key \in Keys
                                    /\ found[i].key \in Int /\ dict[found[i].key] = found[i]
      /\ \A i, j \in 1 .. Len(found) : i < j => found[i].key < found[j].key
      /\ \A k \in Keys : k \in S /\ dict[k] # None => \E i \in 1 .. Len(found) : found[i].key = k
  BY <1>6, ScannedFacts
<1> DEFINE stop == {i \in DOMAIN found : found[i].key > hi}
           least == CHOOSE i \in stop : \A j \in stop : i <= j
           upto == IF stop = {} THEN Len(found) ELSE least - 1
<1>8. /\ upto \in 0 .. Len(found)
      /\ \A i \in 1 .. Len(found) : i <= upto <=> found[i].key <= hi
  <2>1. stop \subseteq Nat /\ \A i \in stop : i \in 1 .. Len(found)
    BY <1>7
  <2>2. CASE stop = {}
    <3>1. upto = Len(found)
      BY <2>2
    <3>2. \A i \in 1 .. Len(found) : ~(found[i].key > hi)
      BY <1>7, <2>2
    <3> QED
      BY <1>1, <1>7, <3>1, <3>2
  <2>3. CASE stop # {}
    <3>1. \E i \in stop : \A j \in stop : i <= j
      <4> HIDE DEF stop
      <4> QED
        BY <2>1, <2>3, LeastElement
    <3>2. least \in stop /\ \A j \in stop : least <= j
      <4> HIDE DEF stop
      <4> QED
        BY <3>1
    <3>3. least \in 1 .. Len(found) /\ found[least].key > hi
      BY <1>7, <3>2
    <3>4. \A j \in 1 .. Len(found) : found[j].key > hi => least <= j
      BY <1>7, <3>2
    <3>5. upto = least - 1
      BY <2>3
    <3> HIDE DEF least, upto, stop
    <3>6. ASSUME NEW i \in 1 .. Len(found) PROVE i <= upto <=> found[i].key <= hi
      <4>1. found[i].key \in Int /\ found[least].key \in Int /\ i \in Int /\ least \in Int
        BY <1>7, <3>3
      <4>2. CASE i < least
        BY <1>1, <3>4, <3>5, <4>1, <4>2
      <4>3. CASE i = least
        BY <1>1, <3>3, <3>5, <4>1, <4>3
      <4>4. CASE i > least
        <5>1. found[least].key < found[i].key
          BY <1>7, <3>3, <4>4
        <5> QED
          BY <1>1, <3>3, <3>5, <4>1, <4>4, <5>1
      <4> QED
        BY <4>1, <4>2, <4>3, <4>4
    <3>7. upto \in 0 .. Len(found)
      BY <1>7, <3>3, <3>5
    <3> QED
      BY <3>6, <3>7
  <2> QED
    BY <2>2, <2>3
<1> DEFINE n == upto
<1> DEFINE f == CHOOSE f : ResultsUpTo(f, found, lo, n)
<1>10. s = f[n]
  BY <1>2 DEF RangeSearch, ResultsUpTo
<1>11. n \in 0 .. Len(found) /\ \A i \in 1 .. Len(found) : i <= n <=> found[i].key <= hi
  <2> HIDE DEF upto
  <2> QED
    BY <1>8
<1> HIDE DEF n
<1>12. ResultsUpTo(f, found, lo, n)
  BY <1>7, <1>11, ResultsExist
<1> HIDE DEF f
<1>13. Picked(s, found, lo, n)
  <2>1. Climbs(found)
    BY <1>7 DEF Climbs
  <2> QED
    BY <1>1, <1>7, <1>10, <1>11, <1>12, <2>1, ResultsPicked
<1>14. /\ s \in Seq(Records) /\ \A i, j \in 1 .. Len(s) : i < j => s[i].key < s[j].key
       /\ \A i \in 1 .. Len(s) : \E j \in 1 .. n : s[i] = found[j] /\ lo <= found[j].key
       /\ \A j \in 1 .. n : lo <= found[j].key => \E i \in 1 .. Len(s) : s[i] = found[j]
  BY <1>13 DEF Picked, Climbs
<1>15. DOMAIN s = 1 .. Len(s) /\ ToSet(s) = {s[i] : i \in 1 .. Len(s)}
  BY <1>14 DEF ToSet
<1>16. \A j \in 1 .. n : j \in 1 .. Len(found) /\ found[j].key <= hi
  BY <1>11
<1> DEFINE K == {i \in Present : lo <= i /\ i <= hi}
<1>17. ASSUME NEW i \in 1 .. Len(s) PROVE \E k \in K : s[i] = dict[k]
  <2>1. PICK j \in 1 .. n : s[i] = found[j] /\ lo <= found[j].key
    BY <1>14
  <2>2. /\ found[j].key \in Keys /\ dict[found[j].key] = found[j] /\ found[j] \in Records
        /\ found[j].key <= hi
    BY <1>7, <1>16
  <2>3. found[j].key \in Present
    BY <2>2, NoneAssumption DEF Present
  <2> QED
    BY <2>1, <2>2, <2>3
<1>18. ASSUME NEW k \in K PROVE \E i \in 1 .. Len(s) : s[i] = dict[k]
  <2>1. k \in Keys /\ dict[k] # None /\ lo <= k /\ k <= hi
    BY DEF Present
  <2>2. PICK j \in 1 .. Len(found) : found[j].key = k
    BY <1>1, <1>5, <1>7, <2>1
  <2>3. j \in 1 .. n
    BY <1>11, <2>1, <2>2
  <2> QED
    BY <1>7, <1>14, <2>1, <2>2, <2>3
<1> HIDE DEF K
<1>19. ToSet(s) = {dict[k] : k \in K}
  BY <1>15, <1>17, <1>18
<1> QED
  BY <1>14, <1>15, <1>19 DEF K

\* No key comes before those of p.
Leftmost(g, p) == \A z \in Int : \E y \in g[p] : y <= z

\* The function FirstLeaf defines, up to n nodes.
FirstUpTo(f, n) ==
    f = [i \in 0 .. n |->
            IF i = 0 THEN root
            ELSE LET p == f[i - 1] IN IF nodes[p].leaf THEN p ELSE nodes[p].kids[1]]

\* It exists.
LEMMA FirstExists ==
    ASSUME \A o \in Pages : NodeOK(nodes[o]), root \in Pages, NEW n \in Nat
    PROVE  \E f : FirstUpTo(f, n)
<1> DEFINE Step(p) == IF nodes[p].leaf THEN p ELSE nodes[p].kids[1]
           F == [i \in Nat |-> [p \in Pages |-> Step(p)]]
<1>1. \A p \in Pages : Step(p) \in Pages
  <2> SUFFICES ASSUME NEW p \in Pages, ~nodes[p].leaf PROVE nodes[p].kids[1] \in Pages
    OBVIOUS
  <2>1. PICK m : m = nodes[p]
    OBVIOUS
  <2>2. NodeOK(m) /\ ~m.leaf
    BY <2>1
  <2>3. m.kids \in Seq(Pages) /\ Len(m.kids) = Len(m.keys) + 1 /\ Len(m.keys) \in Nat
    BY <2>2, FormedFacts
  <2>4. 1 \in 1 .. Len(m.kids)
    BY <2>3
  <2> QED
    BY <2>1, <2>3, <2>4
<1> HIDE DEF Step
<1>2. F \in [Nat -> [Pages -> Pages]]
  BY <1>1
<1>3. PICK q : q = root
  OBVIOUS
<1>4. PICK f : StepsOf(f, n, Pages, q, F)
  <2> HIDE DEF F
  <2>1. q \in Pages /\ F \in [Nat -> [Pages -> Pages]] /\ n \in Nat
    BY <1>2, <1>3
  <2> QED
    BY ONLY Zenon, <2>1, StepsExist
<1>5. f \in [0 .. n -> Pages] /\ f[0] = root /\ \A i \in 1 .. n : f[i] = F[i][f[i - 1]]
  BY <1>3, <1>4 DEF StepsOf
<1>6. \A i \in 0 .. n : f[i] = IF i = 0 THEN root ELSE Step(f[i - 1])
  <2> TAKE i \in 0 .. n
  <2>1. CASE i = 0
    BY <1>5, <2>1
  <2>2. CASE i # 0
    <3>1. i \in 1 .. n /\ i - 1 \in 0 .. n /\ i \in Nat
      BY <2>2
    <3>2. f[i - 1] \in Pages
      BY <1>5, <3>1
    <3>3. F[i][f[i - 1]] = Step(f[i - 1])
      BY <3>1, <3>2
    <3> QED
      BY <1>5, <2>2, <3>1, <3>3
  <2> QED
    BY <2>1, <2>2
<1> DEFINE e == [i \in 0 .. n |-> IF i = 0 THEN root ELSE Step(f[i - 1])]
<1>7. f = e
  BY Zenon, <1>5, <1>6
<1>8. FirstUpTo(f, n)
  BY Zenon, <1>7 DEF FirstUpTo, Step
<1> QED
  BY <1>8

\* The first child of a page that no key comes before.
LEMMA FirstKid ==
    ASSUME NEW R, NEW h, NEW g, NEW count, NEW d, Tree(nodes, R, h, g, root, count, d),
           NEW p \in R, h[p] # 0, Leftmost(g, p), NEW q, q = nodes[p].kids[1]
    PROVE  q \in R /\ h[q] + 1 = h[p] /\ Leftmost(g, q)
<1>1. PICK a, c : a = nodes[p].keys /\ c = nodes[p].kids
  OBVIOUS
<1>2. /\ Branches(a, c, g[p], Level(R, h, h[p]), g)
      /\ \A i \in 1 .. Len(c) : c[i] \in R /\ h[c[i]] + 1 = h[p]
  BY <1>1, KidFacts
<1>3. /\ Len(c) = Len(a) + 1 /\ Len(a) \in Nat /\ \A n \in 1 .. Len(a) : a[n] \in Int
      /\ \A n \in 1 .. Len(c) : \A y \in Int :
            y \in g[c[n]] <=> y \in g[p] /\ (n > 1 => a[n - 1] <= y) /\ (n <= Len(a) => y < a[n])
  <2>1. PICK S, C : S = g[p] /\ C = Level(R, h, h[p])
    OBVIOUS
  <2>2. Branches(a, c, S, C, g)
    BY <1>2, <2>1
  <2>3. /\ Len(c) = Len(a) + 1 /\ Len(a) \in Nat /\ \A n \in 1 .. Len(a) : a[n] \in Int
        /\ \A n \in 1 .. Len(c) : \A y \in Int :
              y \in g[c[n]] <=> y \in S /\ (n > 1 => a[n - 1] <= y) /\ (n <= Len(a) => y < a[n])
    BY ONLY <2>2, BranchFacts
  <2> QED
    BY <2>1, <2>3
<1>4. 1 \in 1 .. Len(c) /\ ~(1 > 1) /\ q = c[1] /\ g[p] \subseteq Int
  <2>1. g[p] \subseteq Int
    BY TreeTypes
  <2> QED
    BY <1>1, <1>3, <2>1
<1>5. \A y \in Int : y \in g[q] <=> y \in g[p] /\ (1 <= Len(a) => y < a[1])
  BY <1>3, <1>4
<1>6. Leftmost(g, q)
  <2> SUFFICES ASSUME NEW z \in Int PROVE \E y \in g[q] : y <= z
    BY DEF Leftmost
  <2>1. CASE 1 <= Len(a)
    <3>1. a[1] \in Int /\ a[1] - 1 \in Int
      BY <1>3, <2>1
    <3>2. PICK w \in Int : w <= z /\ w <= a[1] - 1
      <4>1. z <= a[1] - 1 \/ a[1] - 1 <= z
        BY <3>1
      <4>2. z <= z /\ a[1] - 1 <= a[1] - 1
        BY <3>1
      <4> QED
        BY <3>1, <4>1, <4>2
    <3>3. PICK y \in g[p] : y <= w
      BY DEF Leftmost
    <3>4. y \in Int
      BY <1>4
    <3>5. y <= z /\ y < a[1]
      BY <3>1, <3>2, <3>3, <3>4
    <3> QED
      BY <1>5, <3>4, <3>5
  <2>2. CASE ~(1 <= Len(a))
    <3>1. PICK y \in g[p] : y <= z
      BY DEF Leftmost
    <3> QED
      BY <1>4, <1>5, <2>2, <3>1
  <2> QED
    BY <2>1, <2>2
<1> QED
  BY <1>2, <1>4, <1>6

\* first_leaf.
LEMMA FirstFacts ==
    ASSUME NEW R, NEW h, NEW g, NEW count \in Int, NEW d, Tree(nodes, R, h, g, root, count, d),
           count <= NumPages, \A o \in Pages : NodeOK(nodes[o]), NEW p, p = FirstLeaf
    PROVE  p \in R /\ h[p] = 0 /\ Leftmost(g, p)
<1> DEFINE f == CHOOSE f : FirstUpTo(f, NumPages)
           Good(i) == /\ f[i] \in R /\ Leftmost(g, f[i])
                      /\ h[f[i]] = 0 \/ h[f[i]] + i = h[root]
           S == {i \in Nat : i <= NumPages => Good(i)}
<1>1. /\ NumPages \in Nat /\ root \in R /\ root \in Pages /\ g[root] = Int
      /\ h[root] \in Nat /\ h[root] < count
      /\ \A o \in R : h[o] \in Nat /\ (nodes[o].leaf <=> h[o] = 0)
  <2>1. \A o \in R : h[o] \in Nat /\ NodeHolds(nodes[o], h[o], g[o], Level(R, h, h[o]), g, d)
    BY TreeTypes
  <2> QED
    BY <2>1, PagesAssumption, TreeTypes DEF NodeHolds
<1>2. FirstUpTo(f, NumPages)
  BY <1>1, FirstExists
<1>3. FirstLeaf = f[NumPages]
  BY DEF FirstLeaf, FirstUpTo
<1> HIDE DEF f
<1>4. /\ f[0] = root
      /\ \A i \in 1 .. NumPages : f[i] = IF nodes[f[i - 1]].leaf THEN f[i - 1] ELSE nodes[f[i - 1]].kids[1]
  <2>1. \A i \in 0 .. NumPages :
           f[i] = IF i = 0 THEN root
                  ELSE IF nodes[f[i - 1]].leaf THEN f[i - 1] ELSE nodes[f[i - 1]].kids[1]
    BY Zenon, <1>2 DEF FirstUpTo
  <2>2. 0 \in 0 .. NumPages /\ \A i \in 1 .. NumPages : i \in 0 .. NumPages /\ i # 0
    BY <1>1
  <2> QED
    BY Zenon, <2>1, <2>2
<1>5. 0 \in S
  <2>1. Leftmost(g, root)
    BY <1>1 DEF Leftmost
  <2> DEFINE y == h[root]
  <2>2. y + 0 = y
    BY <1>1
  <2>3. Good(0)
    BY <1>1, <1>4, <2>1, <2>2
  <2> QED
    BY <2>3
<1>6. ASSUME NEW i \in Nat, i \in S PROVE i + 1 \in S
  <2>0. PICK m, o, q : m = i + 1 /\ o = f[i] /\ q = f[m]
    OBVIOUS
  <2> SUFFICES ASSUME m <= NumPages PROVE Good(m)
    BY <2>0
  <2>1. m \in 1 .. NumPages /\ m - 1 = i /\ i <= NumPages
    BY <1>1, <2>0
  <2>2. o \in R /\ Leftmost(g, o) /\ (h[o] = 0 \/ h[o] + i = h[root]) /\ h[o] \in Nat
    BY <1>1, <1>6, <2>0, <2>1
  <2>3. q = IF nodes[o].leaf THEN o ELSE nodes[o].kids[1]
    BY <1>4, <2>0, <2>1
  <2>4. CASE h[o] = 0
    <3>1. q = o
      BY <1>1, <2>2, <2>3, <2>4
    <3> QED
      BY <2>0, <2>2, <2>4, <3>1
  <2>5. CASE h[o] # 0
    <3>1. q = nodes[o].kids[1]
      BY <1>1, <2>2, <2>3, <2>5
    <3>2. q \in R /\ h[q] + 1 = h[o] /\ Leftmost(g, q)
      BY <2>2, <2>5, <3>1, FirstKid
    <3>3. h[q] + m = h[root]
      <4> DEFINE x == h[o]  y == h[q]  z == h[root]
      <4>1. x \in Nat /\ y \in Nat /\ z \in Nat /\ y + 1 = x /\ x + i = z
        BY <1>1, <2>2, <2>5, <3>2
      <4> HIDE DEF x, y, z
      <4>2. y + m = z
        BY <2>0, <4>1
      <4> QED
        BY <4>2 DEF y, z
    <3> QED
      BY <2>0, <3>2, <3>3
  <2> QED
    BY <2>4, <2>5
<1> HIDE DEF S
<1>7. NumPages \in S
  BY <1>1, <1>5, <1>6, SetInduction
<1>8. p \in R /\ Leftmost(g, p) /\ (h[p] = 0 \/ h[p] + NumPages = h[root])
  BY <1>1, <1>3, <1>7 DEF S
<1>9. h[p] = 0
  <2> DEFINE x == h[p]  y == h[root]
  <2>1. x \in Nat /\ y \in Nat /\ y < count /\ (x = 0 \/ x + NumPages = y)
    BY <1>1, <1>8
  <2> HIDE DEF x, y
  <2>2. x = 0
    BY <1>1, <2>1
  <2> QED
    BY <2>2 DEF x
<1> QED
  BY <1>8, <1>9

\* scan_all in a tree that holds the records of dict.
LEMMA ScanFacts ==
    ASSUME NEW R, NEW h, NEW g, NEW count \in Int, Tree(nodes, R, h, g, root, count, dict),
           count <= NumPages, \A o \in Pages : NodeOK(nodes[o]), dict \in Dicts,
           size = Cardinality(Present)
    PROVE  Len(ScanAll) = size
<1>1. CASE size = 0
  <2>1. ScanAll = << >>
    BY <1>1 DEF ScanAll
  <2> QED
    BY <1>1, <2>1
<1>2. CASE size # 0
  <2>1. PICK p, c, found : p = FirstLeaf /\ c = Chain(p) /\ found = RecordsOf(c)
    OBVIOUS
  <2>2. ScanAll = found
    BY <1>2, <2>1 DEF ScanAll
  <2>3. p \in R /\ h[p] = 0 /\ Leftmost(g, p)
    BY <2>1, FirstFacts
  <2>4. OnChain(c, p, R, h, g) /\ nodes[c[Len(c)]].next = None
    BY <2>1, <2>3, ChainFacts
  <2>5. Covered(c, g, Len(c)) = Int
    <3> SUFFICES ASSUME NEW z \in Int PROVE z \in Covered(c, g, Len(c))
      BY DEF Covered
    <3>1. PICK y \in g[p] : y <= z
      BY <2>3 DEF Leftmost
    <3> QED
      BY <2>4, <3>1, ChainCovers
  <2>6. Scanned(found, Int, dict)
    BY <2>1, <2>4, <2>5, ChainScanned
  <2>7. PICK a : LeafHolds(a, found, Int, dict)
    BY <2>6 DEF Scanned
  <2>8. /\ a \in Seq(Keys) /\ Len(found) = Len(a) /\ Len(a) \in Nat
        /\ \A i \in 1 .. Len(a) : a[i] \in Keys /\ a[i] \in Int
        /\ \A i \in 1 .. Len(a) : dict[a[i]] = found[i] /\ found[i] \in Records
        /\ \A i, j \in 1 .. Len(a) : i < j => a[i] < a[j]
        /\ \A k \in Keys : k \in Int /\ dict[k] # None => \E i \in 1 .. Len(a) : a[i] = k
    <3>1. LeafForm(a, found, Int, dict)
      BY ONLY <2>7, LeafFormed
    <3> QED
      BY ONLY <3>1 DEF LeafForm
  <2>9. IsInjective(a)
    <3>1. ASSUME NEW i \in 1 .. Len(a), NEW j \in 1 .. Len(a), a[i] = a[j] PROVE i = j
      <4>1. ~(i < j) /\ ~(j < i)
        BY <2>8, <3>1
      <4> QED
        BY <4>1
    <3>2. DOMAIN a = 1 .. Len(a)
      BY <2>8
    <3> QED
      BY <3>1, <3>2 DEF IsInjective
  <2>10. ToSet(a) = Present
    <3>1. ToSet(a) = {a[i] : i \in 1 .. Len(a)}
      BY <2>8 DEF ToSet
    <3>2. \A i \in 1 .. Len(a) : a[i] \in Present
      BY <2>8, NoneAssumption DEF Present
    <3>3. \A k \in Present : \E i \in 1 .. Len(a) : a[i] = k
      BY <2>8, KeysInt DEF Present
    <3> QED
      BY <3>1, <3>2, <3>3
  <2>11. Cardinality(Present) = Len(a)
    BY <2>8, <2>9, <2>10, QueueCardinality
  <2> QED
    BY <2>2, <2>8, <2>11
<1> QED
  BY <1>1, <1>2

---------------------------------------------------------------------------
(***************************************************************************)
(* The inductive invariant.                                                *)
(***************************************************************************)
\* The node a split of its child is going to change, and what it will be: the
\* parent, or the root that is still to be made.
LinkPage == IF path = << >> THEN pageCount ELSE Last(path).page
\* The parent with the key and the page that a split returned.
Linked(n, i, k, p) == [n EXCEPT !.keys = InsertAt(@, i, k), !.kids = InsertAt(@, i + 1, p)]
LinkNode ==
    IF path = << >> THEN InternalNode(<<carry.key>>, <<root, carry.page>>)
    ELSE Linked(nodes[Last(path).page], Last(path).pos, carry.key, carry.page)

\* V is the nodes as they are once the writes that are queued, and the link of
\* a split node, are done.
Pending(p) == \E i \in DOMAIN writes : writes[i].page = p
Linking(p) == pc = "split" /\ p = LinkPage
\* V shows the nodes a call in progress is about to leave: what is queued, the link
\* of a split, and otherwise what is stored.
Shows(V) ==
    /\ \A p \in Pages : NodeOK(V[p])
    /\ \A i \in DOMAIN writes : V[writes[i].page] = writes[i].node
    /\ \A p \in Pages : ~Pending(p) /\ ~Linking(p) => V[p] = nodes[p]
    /\ pc = "split" => LinkPage \in Pages /\ V[LinkPage] = LinkNode /\ ~Pending(LinkPage)

\* The root of that tree, and the pages it may use.
Top   == IF pc = "newRoot" THEN at ELSE IF pc = "split" /\ path = << >> THEN pageCount ELSE root
Count == IF pc = "split" /\ path = << >> THEN pageCount + 1 ELSE pageCount

\* The path leads from the root to the page that was changed last, a level
\* down with each page.
Stacked(V, R, h) ==
    pc \in {"inserted", "split", "deleted"} =>
        /\ at \in R
        /\ \A i \in 1 .. Len(path) :
              /\ path[i].page \in R
              /\ h[path[i].page] + i = h[at] + Len(path) + 1
              /\ \/ pc = "split" /\ i = Len(path)
                 \/ /\ path[i].pos \in 1 .. Len(V[path[i].page].kids)
                    /\ V[path[i].page].kids[path[i].pos] = IF i = Len(path) THEN at ELSE path[i + 1].page
        /\ (pc = "inserted" \/ (pc = "split" /\ path # << >>)) => h[root] = h[at] + Len(path)

\* A page is left for every node that may still split.
Room(V) ==
    /\ pc = "inserted" /\ IsFull(V[at]) => pageCount + Len(path) + 2 <= NumPages
    /\ pc = "split" => pageCount + Len(path) + 1 <= NumPages

\* Once its writes are done the nodes are a tree of the records of dict.
Inner(V, R, h, g) ==
    Shows(V) /\ Tree(V, R, h, g, Top, Count, dict) /\ Stacked(V, R, h) /\ Room(V)
\* size is the number of records, less or more one while a call is counting.
SizeFits ==
    /\ pc = "idle" => size = Cardinality(Present)
    /\ pc \in {"inserted", "replaced", "split", "newRoot"} => size + 1 = Cardinality(Present)
    /\ pc = "deleted" => size = Cardinality(Present) + 1

\* The inductive invariant.
IInv ==
    /\ TypeOK /\ SizeFits
    /\ pc \in {"idle", "panic"} => writes = << >>
    /\ \E V, R, h, g : Inner(V, R, h, g)

\* A tree depends on its own pages only.
LEMMA TreeSame ==
    ASSUME NEW N, NEW R, NEW h, NEW g, NEW top, NEW count, NEW d, Tree(N, R, h, g, top, count, d),
           NEW M, \A p \in R : M[p] = N[p]
    PROVE  Tree(M, R, h, g, top, count, d)
<1>1. Chained(N, R, h, g)
  BY DEF Tree
<1>2. Chained(M, R, h, g)
  BY ONLY <1>1, \A p \in R : M[p] = N[p], ChainSame
<1> QED
  BY <1>2 DEF Tree

\* With no write queued and no link to make the nodes are that tree.
LEMMA Settled ==
    ASSUME NEW V, NEW R, NEW h, NEW g, Inner(V, R, h, g), writes = << >>, pc # "split", TypeOK
    PROVE  /\ \A p \in Pages : NodeOK(nodes[p]) /\ V[p] = nodes[p]
           /\ Tree(nodes, R, h, g, Top, pageCount, dict)
           /\ pageCount \in Int /\ pageCount <= NumPages /\ NumPages \in Nat
           /\ dict \in Dicts
<1>1. \A p \in Pages : NodeOK(V[p]) /\ V[p] = nodes[p]
  <2>1. \A p \in Pages : ~Pending(p) /\ ~Linking(p)
    BY DEF Pending, Linking
  <2> QED
    BY <2>1 DEF Inner, Shows
<1>2. Tree(V, R, h, g, Top, pageCount, dict)
  BY DEF Inner, Count
<1>3. \A p \in R : p \in Pages
  BY <1>2, TreeTypes
<1>4. Tree(nodes, R, h, g, Top, pageCount, dict)
  BY <1>1, <1>2, <1>3, TreeSame
<1>5. pageCount \in Int /\ pageCount <= NumPages /\ NumPages \in Nat
  BY PagesAssumption DEF TypeOK
<1>6. dict \in Dicts
  BY DEF TypeOK, Dicts
<1> QED
  BY <1>1, <1>4, <1>5, <1>6

\* Between calls the invariant is what a search needs.
LEMMA SearchInv ==
    ASSUME IInv
    PROVE  SearchFindsAll
<1> SUFFICES ASSUME pc = "idle", NEW k \in Keys PROVE Search(k) = dict[k]
  BY DEF SearchFindsAll, Idle
<1>1. PICK V, R, h, g : Inner(V, R, h, g)
  BY DEF IInv
<1>2. writes = << >> /\ TypeOK
  BY DEF IInv
<1>3. /\ Tree(nodes, R, h, g, Top, pageCount, dict)
      /\ pageCount \in Int /\ pageCount <= NumPages
  BY <1>1, <1>2, Settled
<1>4. Top = root
  BY DEF Top
<1>5. dict \in [Keys -> Records \union {None}]
  BY <1>2 DEF TypeOK
<1> QED
  BY <1>3, <1>4, <1>5, SearchFacts

\* new: an empty leaf is a tree of no records.
LEMMA InitInv ==
    ASSUME Init
    PROVE  IInv
<1> DEFINE n == LeafNode(<< >>, << >>, None)
<1>1. NumPages \in Nat /\ NumPages >= 1 /\ 0 \in Pages
  BY PagesAssumption DEF Pages
<1>2. NodeOK(n) /\ n.leaf = TRUE /\ n.keys = << >> /\ n.recs = << >> /\ n.kids = << >> /\ n \in NodeSet
      /\ n.next = None
  <2>1. << >> \in Seq(Keys) /\ << >> \in Seq(Records) /\ << >> \in Seq(Pages)
    OBVIOUS
  <2>2. n \in NodeSet /\ n.leaf = TRUE /\ n.keys = << >> /\ n.recs = << >> /\ n.kids = << >> /\ n.next = None
    BY <2>1 DEF LeafNode, NodeSet
  <2> HIDE DEF n
  <2>3. [i \in DOMAIN << >> |-> n.recs[i].key] = << >>
    OBVIOUS
  <2>4. WellFormed(n)
    BY <2>2, <2>3 DEF WellFormed
  <2> QED
    BY <2>2, <2>4 DEF NodeOK
<1> HIDE DEF n
<1>3. \A p \in Pages : nodes[p] = n
  BY DEF Init, n
<1>4. TypeOK
  <2>1. nodes \in [Pages -> NodeSet]
    BY <1>2 DEF Init, n
  <2>2. dict \in [Keys -> Records \union {None}]
    BY DEF Init
  <2>3. carry \in [key : Keys \union {0}, page : Pages]
    BY <1>1 DEF Init, NoCarry
  <2>4. \A p \in Pages : WellFormed(nodes[p])
    BY <1>2, <1>3 DEF NodeOK
  <2>5. \A i \in DOMAIN writes : WellFormed(writes[i].node)
    BY DEF Init
  <2>6. path \in Seq([page : Pages, pos : Nat \ {0}]) /\ writes \in Seq([page : Pages, node : NodeSet])
    BY DEF Init
  <2>7. pageCount \in 1 .. NumPages /\ root \in Pages /\ size \in Nat /\ at \in Pages /\ pc = "idle"
    BY <1>1 DEF Init
  <2> QED
    BY <2>1, <2>2, <2>3, <2>4, <2>5, <2>6, <2>7 DEF TypeOK
<1>5. PICK V : V = [p \in Pages |-> n]
  OBVIOUS
<1> DEFINE R == {0}  h == [p \in R |-> 0]  g == [p \in R |-> Int]
<1>6. Shows(V)
  BY <1>2, <1>3, <1>5 DEF Shows, Init
<1>7. Tree(V, R, h, g, 0, 1, dict)
  <2>1. LeafHolds(V[0].keys, V[0].recs, Int, dict)
    <3> DEFINE a == << >>
    <3>0. a \in Seq(Keys) /\ a \in Seq(Records) /\ Len(a) = 0
      OBVIOUS
    <3> HIDE DEF a
    <3>1. \A i \in 1 .. Len(a) : FALSE
      BY <3>0
    <3>2. \A k \in Keys : dict[k] = None
      BY DEF Init
    <3>3. LeafHolds(a, a, Int, dict)
      BY <3>0, <3>1, <3>2, LeafMade
    <3>4. V[0].keys = a /\ V[0].recs = a
      BY <1>1, <1>2, <1>5 DEF a
    <3> QED
      BY <3>3, <3>4
  <2>2. NodeHolds(V[0], 0, Int, Level(R, h, 0), g, dict)
    BY <1>1, <1>2, <1>5, <2>1 DEF NodeHolds
  <2>3. Int # {} /\ 0 < 1 /\ 0 \in Nat /\ 0 <= 0
    OBVIOUS
  <2>4. Solid(Int) /\ V[0].next = None /\ \A x \in Int : \A z \in Int : x < z => z \in Int
    BY <1>1, <1>2, <1>5 DEF Solid
  <2>5. Chained(V, R, h, g)
    BY <2>4 DEF Chained, Ends
  <2> QED
    BY <1>1, <2>2, <2>3, <2>4, <2>5 DEF Tree
<1>8. Top = 0 /\ Count = 1 /\ pc = "idle"
  BY DEF Init, Top, Count
<1>9. Stacked(V, R, h) /\ Room(V)
  BY <1>8 DEF Stacked, Room
<1>10. Inner(V, R, h, g)
  BY <1>6, <1>7, <1>8, <1>9 DEF Inner
<1>11. writes = << >>
  BY DEF Init
<1> HIDE DEF R, h, g
<1>12. \E V1, R1, h1, g1 : Inner(V1, R1, h1, g1)
  BY <1>10
<1>13. SizeFits
  <2>1. Present = {} /\ size = 0 /\ pc = "idle"
    BY DEF Present, Init
  <2> QED
    BY <2>1, FS_EmptySet DEF SizeFits
<1> QED
  BY <1>4, <1>11, <1>12, <1>13 DEF IInv

---------------------------------------------------------------------------
(***************************************************************************)
(* The steps.                                                              *)
(***************************************************************************)
\* Nothing changes.
LEMMA StutterStep ==
    ASSUME IInv, UNCHANGED vars
    PROVE  IInv'
<1>1. /\ UNCHANGED nodes /\ UNCHANGED pageCount /\ UNCHANGED root /\ UNCHANGED size /\ UNCHANGED pc
      /\ UNCHANGED path /\ UNCHANGED at /\ UNCHANGED carry /\ UNCHANGED writes /\ UNCHANGED dict
  BY DEF vars, tree
<1>2. TypeOK'
  BY <1>1 DEF IInv, TypeOK
<1>3. PICK V, R, h, g : Inner(V, R, h, g)
  BY DEF IInv
<1>4. Shows(V)'
  BY <1>1, <1>3 DEF Inner, Shows, Pending, Linking, LinkPage, LinkNode
<1>5. Tree(V, R, h, g, Top, Count, dict)'
  BY <1>1, <1>3 DEF Inner, Top, Count
<1>6. Stacked(V, R, h)' /\ Room(V)'
  BY <1>1, <1>3 DEF Inner, Stacked, Room
<1>7. Inner(V, R, h, g)'
  BY <1>4, <1>5, <1>6 DEF Inner
<1>8. (pc \in {"idle", "panic"} => writes = << >>)'
  BY <1>1 DEF IInv
<1>9. \E V1, R1, h1, g1 : Inner(V1, R1, h1, g1)'
  BY <1>7
<1>10. SizeFits'
  BY <1>1 DEF IInv, SizeFits, Present
<1> QED
  BY <1>2, <1>8, <1>9, <1>10 DEF IInv

\* write_node stores what was already counted on: the tree to come stays the same.
LEMMA WriteNodeStep ==
    ASSUME IInv, WriteNode
    PROVE  IInv'
<1> DEFINE w == Head(writes)  T == [page : Pages, node : NodeSet]
<1>1. /\ writes # << >> /\ nodes' = [nodes EXCEPT ![w.page] = w.node] /\ writes' = Tail(writes)
      /\ UNCHANGED pageCount /\ UNCHANGED root /\ UNCHANGED size /\ UNCHANGED pc
      /\ UNCHANGED path /\ UNCHANGED at /\ UNCHANGED carry /\ UNCHANGED dict
  BY DEF WriteNode
<1>2. TypeOK /\ writes \in Seq(T) /\ nodes \in [Pages -> NodeSet]
  BY DEF IInv, TypeOK
<1>3. PICK V, R, h, g : Inner(V, R, h, g)
  BY DEF IInv
<1>4. /\ Tail(writes) \in Seq(T) /\ DOMAIN writes = 1 .. Len(writes) /\ Len(writes) \in Nat
      /\ DOMAIN Tail(writes) = 1 .. Len(writes) - 1
      /\ \A i \in DOMAIN Tail(writes) : i + 1 \in DOMAIN writes /\ Tail(writes)[i] = writes[i + 1]
      /\ w = writes[1] /\ 1 \in DOMAIN writes /\ w \in T
  <2> HIDE DEF T
  <2>1. Len(writes) \in Nat /\ DOMAIN writes = 1 .. Len(writes) /\ Len(writes) >= 1 /\ w = writes[1] /\ w \in T
    BY <1>1, <1>2
  <2>2. /\ Tail(writes) \in Seq(T) /\ Len(Tail(writes)) = Len(writes) - 1
        /\ \A i \in 1 .. Len(writes) - 1 : Tail(writes)[i] = writes[i + 1]
    BY <1>1, <1>2
  <2>3. DOMAIN Tail(writes) = 1 .. Len(writes) - 1
    BY <2>1, <2>2
  <2>4. \A i \in 1 .. Len(writes) - 1 : i + 1 \in 1 .. Len(writes)
    BY <2>1
  <2>5. 1 \in 1 .. Len(writes)
    BY <2>1
  <2> HIDE DEF w
  <2> QED
    BY <2>1, <2>2, <2>3, <2>4, <2>5
<1>5. /\ w.page \in Pages /\ w.node \in NodeSet
      /\ \A p \in Pages : nodes'[p] = IF p = w.page THEN w.node ELSE nodes[p]
      /\ nodes' \in [Pages -> NodeSet]
  BY <1>1, <1>2, <1>4
<1>6. /\ \A p \in Pages : NodeOK(V[p])
      /\ \A i \in DOMAIN writes : V[writes[i].page] = writes[i].node
      /\ \A p \in Pages : ~Pending(p) /\ ~Linking(p) => V[p] = nodes[p]
      /\ pc = "split" => LinkPage \in Pages /\ V[LinkPage] = LinkNode /\ ~Pending(LinkPage)
  BY <1>3 DEF Inner, Shows
<1>7. \A p : Pending(p) <=> p = w.page \/ Pending(p)'
  <2> TAKE p
  <2>1. Pending(p)' => Pending(p)
    BY <1>1, <1>4 DEF Pending
  <2>2. p = w.page => Pending(p)
    BY <1>4 DEF Pending
  <2>3. ASSUME Pending(p), p # w.page PROVE Pending(p)'
    <3>1. PICK i \in DOMAIN writes : writes[i].page = p
      BY <2>3 DEF Pending
    <3>2. i # 1
      BY <1>4, <2>3, <3>1
    <3>3. i - 1 \in DOMAIN Tail(writes) /\ (i - 1) + 1 = i
      BY <1>4, <3>2
    <3>4. Tail(writes)[i - 1] = writes[i]
      BY <1>4, <3>3
    <3> QED
      BY <1>1, <3>1, <3>3, <3>4 DEF Pending
  <2> QED
    BY <2>1, <2>2, <2>3
<1>8. V[w.page] = w.node /\ NodeOK(w.node)
  BY <1>4, <1>5, <1>6
<1>9. Shows(V)'
  <2>1. LinkPage' = LinkPage
    BY <1>1 DEF LinkPage
  <2>2. \A p : Linking(p)' <=> Linking(p)
    BY <1>1, <2>1 DEF Linking
  <2>3. pc = "split" => LinkNode' = LinkNode
    <3> SUFFICES ASSUME pc = "split" PROVE LinkNode' = LinkNode
      OBVIOUS
    <3>1. LinkPage \in Pages /\ LinkPage # w.page
      BY <1>4, <1>6 DEF Pending
    <3>2. path # << >> => nodes'[Last(path).page] = nodes[Last(path).page]
      BY <1>5, <3>1 DEF LinkPage
    <3>3. CASE path = << >>
      <4>1. LinkNode = InternalNode(<<carry.key>>, <<root, carry.page>>)
        BY <3>3 DEF LinkNode
      <4>2. LinkNode' = InternalNode(<<carry'.key>>, <<root', carry'.page>>)
        BY <1>1, <3>3 DEF LinkNode
      <4> QED
        BY <1>1, <4>1, <4>2
    <3>4. CASE path # << >>
      BY <1>1, <3>2, <3>4 DEF LinkNode
    <3> QED
      BY <3>3, <3>4
  <2>4. ASSUME NEW p \in Pages, ~Pending(p)', ~Linking(p)' PROVE V[p] = nodes'[p]
    <3>1. CASE p = w.page
      BY <1>5, <1>8, <3>1
    <3>2. CASE p # w.page
      BY <1>5, <1>6, <1>7, <2>2, <2>4, <3>2
    <3> QED
      BY <3>1, <3>2
  <2>5. \A i \in DOMAIN writes' : V[writes'[i].page] = writes'[i].node
    BY <1>1, <1>4, <1>6
  <2>6. pc' = "split" => LinkPage' \in Pages /\ V[LinkPage'] = LinkNode' /\ ~Pending(LinkPage)'
    <3> SUFFICES ASSUME pc = "split" PROVE LinkPage' \in Pages /\ V[LinkPage'] = LinkNode' /\ ~Pending(LinkPage)'
      BY <1>1
    <3>1. LinkPage' \in Pages /\ V[LinkPage'] = LinkNode'
      BY <1>6, <2>1, <2>3
    <3>2. ASSUME Pending(LinkPage)' PROVE FALSE
      <4>1. PICK i \in DOMAIN writes' : writes'[i].page = LinkPage'
        BY <3>2 DEF Pending
      <4>2. i + 1 \in DOMAIN writes /\ writes[i + 1].page = LinkPage
        BY <1>1, <1>4, <2>1, <4>1
      <4>3. Pending(LinkPage)
        BY <4>2 DEF Pending
      <4> QED
        BY <1>6, <4>3
    <3> QED
      BY <3>1, <3>2
  <2> QED
    BY <1>6, <2>4, <2>5, <2>6 DEF Shows
<1>10. Tree(V, R, h, g, Top, Count, dict)'
  BY <1>1, <1>3 DEF Inner, Top, Count
<1>11. Stacked(V, R, h)' /\ Room(V)'
  BY <1>1, <1>3 DEF Inner, Stacked, Room
<1>12. \E V1, R1, h1, g1 : Inner(V1, R1, h1, g1)'
  BY <1>9, <1>10, <1>11 DEF Inner
<1>13. TypeOK'
  <2>1. \A p \in Pages : WellFormed(nodes'[p])
    <3>1. \A p \in Pages : WellFormed(nodes[p])
      BY <1>2 DEF TypeOK
    <3> QED
      BY <1>5, <1>8, <3>1 DEF NodeOK
  <2>2. \A i \in DOMAIN writes' : WellFormed(writes'[i].node)
    <3>1. \A i \in DOMAIN writes : WellFormed(writes[i].node)
      BY <1>2 DEF TypeOK
    <3> QED
      BY <1>1, <1>4, <3>1
  <2>3. writes' \in Seq(T)
    BY <1>1, <1>4
  <2> HIDE DEF T, w
  <2> QED
    BY <1>1, <1>2, <1>5, <2>1, <2>2, <2>3 DEF TypeOK, T
<1>14. (pc \in {"idle", "panic"} => writes = << >>)'
  BY <1>1 DEF IInv
<1>15. SizeFits'
  BY <1>1 DEF IInv, SizeFits, Present
<1> QED
  BY <1>12, <1>13, <1>14, <1>15 DEF IInv

\* The writes of a call's last function are done: nothing of V changes.
LEMMA EndInsertStep ==
    ASSUME IInv, EndInsert
    PROVE  IInv'
<1>1. /\ writes = << >> /\ pc \in {"replaced", "inserted", "newRoot"}
      /\ root' = IF pc = "newRoot" THEN at ELSE root
      /\ size' = size + 1 /\ pc' = "idle" /\ path' = << >> /\ carry' = NoCarry /\ at' = root'
      /\ UNCHANGED nodes /\ UNCHANGED pageCount /\ UNCHANGED writes /\ UNCHANGED dict
  BY DEF EndInsert, EndCall, Ready
<1>2. TypeOK
  BY DEF IInv
<1>3. PICK V, R, h, g : Inner(V, R, h, g)
  BY DEF IInv
<1>4. /\ \A p \in Pages : NodeOK(nodes[p]) /\ V[p] = nodes[p]
      /\ Tree(nodes, R, h, g, Top, pageCount, dict)
  BY <1>1, <1>2, <1>3, Settled
<1>5. Top' = Top /\ Count' = pageCount /\ root' = Top
  BY <1>1 DEF Top, Count
<1>6. root' \in Pages /\ at' \in Pages
  BY <1>1, <1>2 DEF TypeOK
<1>7. Shows(V)'
  BY <1>1, <1>4 DEF Shows, Pending, Linking
<1>8. Tree(V, R, h, g, Top, Count, dict)'
  <2>1. Tree(V, R, h, g, Top, pageCount, dict)
    <3>1. \A p \in R : V[p] = nodes[p]
      BY <1>4, TreeTypes
    <3> QED
      BY <1>4, <3>1, TreeSame
  <2> QED
    BY <1>1, <1>5, <2>1
<1>9. Stacked(V, R, h)' /\ Room(V)'
  BY <1>1 DEF Stacked, Room
<1>10. \E V1, R1, h1, g1 : Inner(V1, R1, h1, g1)'
  BY <1>7, <1>8, <1>9 DEF Inner
<1>11. NoCarry \in [key : Keys \union {0}, page : Pages] /\ path' \in Seq([page : Pages, pos : Nat \ {0}])
  <2>1. 0 \in Pages
    BY PagesAssumption DEF Pages
  <2> QED
    BY <1>1, <2>1 DEF NoCarry
<1>12. TypeOK'
  <2>1. size' \in Nat
    BY <1>1, <1>2 DEF TypeOK
  <2> QED
    BY <1>1, <1>2, <1>6, <1>11, <2>1 DEF TypeOK
<1>13. SizeFits'
  <2>1. Present' = Present
    BY <1>1 DEF Present
  <2> QED
    BY <1>1, <2>1 DEF IInv, SizeFits
<1> QED
  BY <1>1, <1>10, <1>12, <1>13 DEF IInv

\* The write_node calls.
WriteSet == [page : Pages, node : NodeSet]

\* One write_node call.
LEMMA WriteFacts ==
    ASSUME NEW p \in Pages, NEW n, NodeOK(n)
    PROVE  /\ Write(p, n) \in Seq(WriteSet) /\ DOMAIN Write(p, n) = 1 .. 1 /\ Len(Write(p, n)) = 1
           /\ \A i \in 1 .. 1 : Write(p, n)[i].page = p /\ Write(p, n)[i].node = n
           /\ \A i \in DOMAIN Write(p, n) : WellFormed(Write(p, n)[i].node)
<1> DEFINE r == [page |-> p, node |-> n]
<1>1. n \in NodeSet /\ WellFormed(n)
  BY DEF NodeOK
<1>2. r \in WriteSet /\ r.page = p /\ r.node = n
  BY <1>1 DEF WriteSet
<1>3. Write(p, n) = <<r>>
  BY DEF Write
<1> HIDE DEF r
<1>4. <<r>> \in Seq(WriteSet) /\ DOMAIN <<r>> = 1 .. 1 /\ Len(<<r>>) = 1 /\ \A i \in 1 .. 1 : <<r>>[i] = r
  BY <1>2
<1> QED
  BY <1>1, <1>2, <1>3, <1>4

\* The path without its last parent.
LEMMA FrontFacts ==
    ASSUME NEW T, NEW s \in Seq(T), s # << >>
    PROVE  /\ Front(s) \in Seq(T) /\ Len(Front(s)) = Len(s) - 1 /\ Len(s) \in Nat /\ Len(s) >= 1
           /\ \A i \in 1 .. Len(s) - 1 : Front(s)[i] = s[i]
           /\ Last(s) = s[Len(s)] /\ Len(s) \in 1 .. Len(s) /\ Last(s) \in T
<1>1. /\ Len(s) \in Nat /\ Len(s) >= 1 /\ 1 \in 1 .. Len(s) + 1 /\ Len(s) - 1 \in 0 .. Len(s)
      /\ 1 <= Len(s) - 1 + 1 /\ Len(s) \in 1 .. Len(s) /\ Len(s) - 1 - 1 + 1 = Len(s) - 1
      /\ s[Len(s)] \in T
  OBVIOUS
<1> DEFINE l == Len(s) - 1
<1>2. l \in 0 .. Len(s) /\ 1 <= l + 1 /\ l - 1 + 1 = l /\ l = Len(s) - 1
  BY <1>1
<1> HIDE DEF l
<1>3. /\ SubSeq(s, 1, l) \in Seq(T) /\ Len(SubSeq(s, 1, l)) = l - 1 + 1
      /\ \A i \in 1 .. l - 1 + 1 : SubSeq(s, 1, l)[i] = s[1 + i - 1]
  BY <1>1, <1>2, PartFacts
<1>4. \A i \in 1 .. l : 1 + i - 1 = i
  OBVIOUS
<1>5. Front(s) = SubSeq(s, 1, l)
  BY <1>2 DEF Front
<1> QED
  BY <1>1, <1>2, <1>3, <1>4, <1>5 DEF Last

\* No split to report.
LEMMA NoCarryIn == NoCarry \in [key : Keys \union {0}, page : Pages]
<1>1. 0 \in Pages
  BY PagesAssumption DEF Pages
<1> QED
  BY <1>1 DEF NoCarry

\* insert_recursive, with a split from its child: it queues the link that was counted on.
LEMMA AddToParentStep ==
    ASSUME IInv, AddToParent
    PROVE  IInv'
<1> DEFINE p == Last(path).page
<1>1. /\ writes = << >> /\ pc = "split" /\ path # << >>
      /\ writes' = Write(p, LinkNode) /\ at' = p /\ path' = Front(path)
      /\ pc' = "inserted" /\ carry' = NoCarry
      /\ UNCHANGED nodes /\ UNCHANGED pageCount /\ UNCHANGED root /\ UNCHANGED size /\ UNCHANGED dict
  BY DEF AddToParent, Ready, tree, LinkNode, Linked
<1>2. TypeOK /\ path \in Seq(Steps)
  BY DEF IInv, TypeOK, Steps
<1>3. PICK V, R, h, g : Inner(V, R, h, g)
  BY DEF IInv
<1>4. /\ \A q \in Pages : NodeOK(V[q])
      /\ \A q \in Pages : q # p => V[q] = nodes[q]
      /\ p \in Pages /\ V[p] = LinkNode /\ NodeOK(LinkNode)
  <2>1. LinkPage = p /\ \A q : ~Pending(q)
    BY <1>1 DEF LinkPage, Pending
  <2> QED
    BY <1>1, <1>3, <2>1 DEF Inner, Shows, Linking
<1>5. /\ writes' \in Seq(WriteSet) /\ DOMAIN writes' = 1 .. 1
      /\ \A i \in 1 .. 1 : writes'[i].page = p /\ writes'[i].node = LinkNode
      /\ \A i \in DOMAIN writes' : WellFormed(writes'[i].node)
  BY <1>1, <1>4, WriteFacts
<1> DEFINE l == Len(path)
<1>6. /\ path' \in Seq(Steps) /\ Len(path') = l - 1 /\ l \in Nat /\ l >= 1 /\ l \in 1 .. l
      /\ \A i \in 1 .. l - 1 : path'[i] = path[i]
      /\ p = path[l].page
  BY <1>1, <1>2, FrontFacts
<1>7. Shows(V)'
  <2>1. \A q \in Pages : ~Pending(q)' => q # p
    BY <1>5 DEF Pending
  <2> HIDE DEF p
  <2>2. pc' # "split"
    BY <1>1
  <2> QED
    BY <1>1, <1>4, <1>5, <2>1, <2>2 DEF Shows
<1>8. Tree(V, R, h, g, Top, Count, dict)'
  BY <1>1, <1>3 DEF Inner, Top, Count
<1>9. /\ at \in R /\ h[root] = h[at] + l
      /\ \A i \in 1 .. l :
            /\ path[i].page \in R
            /\ h[path[i].page] + i = h[at] + l + 1
            /\ i # l => /\ path[i].pos \in 1 .. Len(V[path[i].page].kids)
                        /\ V[path[i].page].kids[path[i].pos] = path[i + 1].page
  BY <1>1, <1>3 DEF Inner, Stacked
<1>10. /\ h[at] \in Nat /\ p \in R /\ h[p] \in Nat /\ h[root] \in Nat
  <2>1. Tree(V, R, h, g, root, pageCount, dict)
    BY <1>1, <1>3 DEF Inner, Top, Count
  <2>2. p \in R
    BY <1>6, <1>9
  <2> QED
    BY <1>9, <2>1, <2>2, TreeTypes
<1> HIDE DEF p, l
<1>11. /\ h[p] = h[at] + 1 /\ h[root] = h[p] + (l - 1)
  <2>1. h[p] + l = h[at] + l + 1
    BY <1>6, <1>9
  <2> DEFINE x == h[p]  y == h[at]  z == h[root]
  <2>2. x \in Nat /\ y \in Nat /\ z \in Nat /\ x + l = y + l + 1 /\ z = y + l
    BY <1>9, <1>10, <2>1
  <2> HIDE DEF x, y, z
  <2>3. x = y + 1 /\ z = x + (l - 1)
    BY <1>6, <2>2
  <2> QED
    BY <2>3 DEF x, y, z
<1>12. Stacked(V, R, h)'
  <2>1. ASSUME NEW i \in 1 .. l - 1
        PROVE  /\ path'[i].page \in R
               /\ h[path'[i].page] + i = h[p] + (l - 1) + 1
               /\ path'[i].pos \in 1 .. Len(V[path'[i].page].kids)
               /\ V[path'[i].page].kids[path'[i].pos] = IF i = l - 1 THEN p ELSE path'[i + 1].page
    <3>1. i \in 1 .. l /\ i # l /\ path'[i] = path[i]
      BY <1>6
    <3>2. /\ path[i].page \in R /\ h[path[i].page] + i = h[at] + l + 1
          /\ path[i].pos \in 1 .. Len(V[path[i].page].kids)
          /\ V[path[i].page].kids[path[i].pos] = path[i + 1].page
      BY <1>9, <3>1
    <3>3. h[at] + l + 1 = h[p] + (l - 1) + 1
      <4> DEFINE x == h[p]  y == h[at]
      <4>1. x = y + 1 /\ x \in Nat /\ y \in Nat
        BY <1>10, <1>11
      <4> HIDE DEF x, y
      <4>2. y + l + 1 = x + (l - 1) + 1
        BY <1>6, <4>1
      <4> QED
        BY <4>2 DEF x, y
    <3>4. i = l - 1 => path[i + 1].page = p
      BY <1>6
    <3>5. i # l - 1 => path'[i + 1] = path[i + 1]
      BY <1>6
    <3> QED
      BY <3>1, <3>2, <3>3, <3>4, <3>5
  <2> QED
    BY <1>1, <1>6, <1>10, <1>11, <2>1 DEF Stacked
<1>13. Room(V)'
  <2>1. pageCount + l + 1 <= NumPages /\ pageCount \in Int /\ NumPages \in Int
    BY <1>1, <1>2, <1>3, PagesAssumption DEF Inner, Room, TypeOK, l
  <2>2. pageCount + (l - 1) + 2 <= NumPages
    BY <1>6, <2>1
  <2> QED
    BY <1>1, <1>6, <2>2 DEF Room
<1>14. \E V1, R1, h1, g1 : Inner(V1, R1, h1, g1)'
  BY <1>7, <1>8, <1>12, <1>13 DEF Inner
<1>15. TypeOK'
  BY <1>1, <1>2, <1>4, <1>5, <1>6, NoCarryIn DEF TypeOK, WriteSet, Steps
<1>16. SizeFits'
  <2>1. Present' = Present
    BY <1>1 DEF Present
  <2> QED
    BY <1>1, <2>1 DEF IInv, SizeFits
<1> QED
  BY <1>1, <1>14, <1>15, <1>16 DEF IInv

\* insert, with a split from the root: it queues the new root that was counted on.
LEMMA NewRootStep ==
    ASSUME IInv, NewRoot
    PROVE  IInv'
<1>1. /\ writes = << >> /\ pc = "split" /\ path = << >>
      /\ writes' = Write(pageCount, LinkNode) /\ at' = pageCount /\ path' = << >>
      /\ pageCount' = pageCount + 1
      /\ pc' = "newRoot" /\ carry' = NoCarry
      /\ UNCHANGED nodes /\ UNCHANGED root /\ UNCHANGED size /\ UNCHANGED dict
  BY DEF NewRoot, Ready, LinkNode
<1>2. TypeOK /\ pageCount \in 1 .. NumPages /\ NumPages \in Nat
  BY PagesAssumption DEF IInv, TypeOK
<1>3. PICK V, R, h, g : Inner(V, R, h, g)
  BY DEF IInv
<1>4. /\ \A q \in Pages : NodeOK(V[q])
      /\ \A q \in Pages : q # pageCount => V[q] = nodes[q]
      /\ pageCount \in Pages /\ V[pageCount] = LinkNode /\ NodeOK(LinkNode)
  <2>1. LinkPage = pageCount /\ \A q : ~Pending(q)
    BY <1>1 DEF LinkPage, Pending
  <2> QED
    BY <1>1, <1>3, <2>1 DEF Inner, Shows, Linking
<1>5. /\ writes' \in Seq(WriteSet) /\ DOMAIN writes' = 1 .. 1
      /\ \A i \in 1 .. 1 : writes'[i].page = pageCount /\ writes'[i].node = LinkNode
      /\ \A i \in DOMAIN writes' : WellFormed(writes'[i].node)
  BY <1>1, <1>4, WriteFacts
<1>7. Shows(V)'
  <2>1. \A q \in Pages : ~Pending(q)' => q # pageCount
    BY <1>5 DEF Pending
  <2>2. pc' # "split"
    BY <1>1
  <2> QED
    BY <1>1, <1>4, <1>5, <2>1, <2>2 DEF Shows
<1>8. Tree(V, R, h, g, Top, Count, dict)'
  <2>1. Tree(V, R, h, g, pageCount, pageCount + 1, dict)
    BY <1>1, <1>3 DEF Inner, Top, Count
  <2>2. Top' = pageCount /\ Count' = pageCount + 1
    BY <1>1 DEF Top, Count
  <2> QED
    BY <1>1, <2>1, <2>2
<1>9. Stacked(V, R, h)' /\ Room(V)'
  BY <1>1 DEF Stacked, Room
<1>10. pageCount' \in 1 .. NumPages
  <2>1. pageCount + Len(path) + 1 <= NumPages /\ Len(path) = 0
    BY <1>1, <1>3 DEF Inner, Room
  <2> QED
    BY <1>1, <1>2, <2>1
<1>14. \E V1, R1, h1, g1 : Inner(V1, R1, h1, g1)'
  BY <1>7, <1>8, <1>9 DEF Inner
<1>15. TypeOK'
  BY <1>1, <1>2, <1>4, <1>5, <1>10, NoCarryIn DEF TypeOK, WriteSet
<1>16. SizeFits'
  <2>1. Present' = Present
    BY <1>1 DEF Present
  <2> QED
    BY <1>1, <2>1 DEF IInv, SizeFits
<1> QED
  BY <1>1, <1>14, <1>15, <1>16 DEF IInv

\* The records are finitely many, and so are the keys that have one.
LEMMA PresentFinite ==
    /\ IsFiniteSet(Keys)
    /\ IsFiniteSet(Present) /\ Cardinality(Present) \in Nat
<1> DEFINE f == [r \in Records |-> r.key]
<1>1. IsFiniteSet(Records)
  BY RecordsAssumption
<1>2. f \in Surjection(Records, Keys)
  BY DEF Keys, Surjection
<1> HIDE DEF f
<1>3. IsFiniteSet(Keys)
  BY <1>1, <1>2, FS_Surjection
<1>4. Present \in SUBSET Keys
  BY DEF Present
<1>5. IsFiniteSet(Present)
  BY <1>3, <1>4, FS_Subset
<1> QED
  BY <1>3, <1>5, FS_CardinalityType

\* delete returns: a root left with no key gives way to its only child, which has
\* all keys.
LEMMA EndDeleteStep ==
    ASSUME IInv, EndDelete
    PROVE  IInv'
<1>1. /\ writes = << >> /\ pc = "deleted" /\ path = << >>
      /\ root' = IF ~nodes[root].leaf /\ nodes[root].keys = << >> THEN nodes[root].kids[1] ELSE root
      /\ size' = size - 1 /\ pc' = "idle" /\ path' = << >> /\ carry' = NoCarry /\ at' = root'
      /\ UNCHANGED nodes /\ UNCHANGED pageCount /\ UNCHANGED writes /\ UNCHANGED dict
  BY DEF EndDelete, EndCall, Ready
<1>2. TypeOK
  BY DEF IInv
<1>3. PICK V, R, h, g : Inner(V, R, h, g)
  BY DEF IInv
<1>4. /\ \A p \in Pages : NodeOK(nodes[p]) /\ V[p] = nodes[p]
      /\ Tree(nodes, R, h, g, Top, pageCount, dict)
      /\ pageCount \in Int
  BY <1>1, <1>2, <1>3, Settled
<1>5. Top = root /\ Top' = root' /\ Count' = pageCount
  BY <1>1 DEF Top, Count
<1>6. \E Q : Tree(nodes, Q, h, g, root', pageCount, dict) /\ root' \in Pages
  <2>1. CASE ~nodes[root].leaf /\ nodes[root].keys = << >>
    <3>1. Tree(nodes, R \ {root}, h, g, nodes[root].kids[1], pageCount, dict)
      BY <1>4, <1>5, <2>1, TreeCollapse
    <3>2. nodes[root].kids[1] \in R
      BY <1>4, <1>5, <2>1, TreeCollapse
    <3>3. nodes[root].kids[1] \in Pages
      BY <1>4, <3>2, TreeTypes
    <3> QED
      BY <1>1, <2>1, <3>1, <3>3
  <2>2. CASE ~(~nodes[root].leaf /\ nodes[root].keys = << >>)
    <3>1. root' = root
      BY <1>1, <2>2
    <3> QED
      BY <1>2, <1>4, <1>5, <3>1 DEF TypeOK
  <2> QED
    BY <2>1, <2>2
<1>7. PICK Q : Tree(nodes, Q, h, g, root', pageCount, dict) /\ root' \in Pages
  BY <1>6
<1>8. Shows(V)'
  BY <1>1, <1>4 DEF Shows, Pending, Linking
<1>9. Tree(V, Q, h, g, Top, Count, dict)'
  <2>1. \A p \in Q : V[p] = nodes[p]
    BY <1>4, <1>7, TreeTypes
  <2>2. Tree(V, Q, h, g, root', pageCount, dict)
    BY <1>7, <2>1, TreeSame
  <2> QED
    BY <1>1, <1>5, <2>2
<1>10. Stacked(V, Q, h)' /\ Room(V)'
  BY <1>1 DEF Stacked, Room
<1>11. \E V1, R1, h1, g1 : Inner(V1, R1, h1, g1)'
  BY <1>8, <1>9, <1>10 DEF Inner
<1>12. Present' = Present
  BY <1>1 DEF Present
<1>13. size' = Cardinality(Present) /\ size' \in Nat
  <2>1. size = Cardinality(Present) + 1
    BY <1>1 DEF IInv, SizeFits
  <2> QED
    BY <1>1, <2>1, PresentFinite
<1>14. TypeOK'
  <2>1. NoCarry \in [key : Keys \union {0}, page : Pages] /\ path' \in Seq([page : Pages, pos : Nat \ {0}])
    BY <1>1, NoCarryIn
  <2> QED
    BY <1>1, <1>2, <1>7, <1>13, <2>1 DEF TypeOK
<1>15. SizeFits'
  BY <1>1, <1>12, <1>13 DEF SizeFits
<1> QED
  BY <1>1, <1>11, <1>14, <1>15 DEF IInv

\* m is the leaf n with x as what it knows of the key k.
LeafStep(n, m, k, x) ==
    /\ NodeOK(m) /\ m.leaf /\ m.next = n.next
    /\ \A S : LeafHolds(n.keys, n.recs, S, dict) /\ k \in S
              => LeafHolds(m.keys, m.recs, S, [dict EXCEPT ![k] = x])

\* insert_into_leaf: the leaf holds the record that was put, and the others.
LEMMA RecordPut ==
    ASSUME NEW n, NodeOK(n), n.leaf, dict \in Dicts, NEW S, LeafHolds(n.keys, n.recs, S, dict),
           NEW r \in Records, r.key \in S, NEW m, m = WithRecord(n, r)
    PROVE  /\ NodeOK(m) /\ m.leaf /\ m.next = n.next
           /\ LeafHolds(m.keys, m.recs, S, [dict EXCEPT ![r.key] = r])
           /\ Holds(n, r.key) <=> dict[r.key] # None
<1> DEFINE a == n.keys  c == n.recs  k == r.key  i == CountBelow(n, k) + 1
<1>1. /\ n \in NodeSet /\ a \in Seq(Keys) /\ c \in Seq(Records) /\ n.kids = << >>
      /\ Len(c) = Len(a) /\ Len(a) \in Nat
  BY FormedFacts
<1>2. /\ a \in Seq(Keys) /\ Sorted(a) /\ Len(c) = Len(a) /\ c \in Seq(Records)
      /\ \A j \in 1 .. Len(a) : a[j] \in Keys /\ a[j] \in Int
      /\ \A j \in 1 .. Len(a) : dict[a[j]] = c[j] /\ c[j] \in Records
      /\ \A j, l \in 1 .. Len(a) : j < l => a[j] < a[l]
      /\ \A j \in Keys : j \in S /\ dict[j] # None => \E l \in 1 .. Len(a) : a[l] = j
  BY LeafFacts
<1>3. k \in Keys /\ k \in Int
  BY KeysInt DEF Keys
<1>4. /\ CountBelow(n, k) \in 0 .. Len(a)
      /\ \A j \in 1 .. Len(a) : a[j] < k <=> j <= CountBelow(n, k)
  <2>1. n.keys \in Seq(Int)
    BY <1>1, KeysInt
  <2> QED
    BY <1>2, <1>3, <2>1, CountFacts
<1>5. Holds(n, k) <=> \E j \in 1 .. Len(a) : a[j] = k
  <2>1. DOMAIN a = 1 .. Len(a)
    BY <1>1
  <2>2. Range(a) = {a[j] : j \in DOMAIN a}
    BY DEF Range
  <2> QED
    BY <2>1, <2>2 DEF Holds
<1>6. Holds(n, k) <=> dict[k] # None
  BY <1>2, <1>3, <1>5, NoneAssumption
<1>7. i \in 1 .. Len(a) + 1 /\ \A j \in 1 .. Len(a) : a[j] < k <=> j < i
  BY <1>1, <1>4
<1> HIDE DEF a, c, i, k
<1>8. CASE Holds(n, k)
  <2>1. PICK j \in 1 .. Len(a) : a[j] = k
    BY <1>5, <1>8
  <2>2. j = i /\ i \in 1 .. Len(a)
    <3>1. ~(j < i) /\ i \in Nat /\ j \in Nat /\ i <= j
      BY <1>1, <1>3, <1>7, <2>1
    <3>2. i \in 1 .. Len(a)
      BY <1>1, <1>7, <3>1
    <3>3. ~(i < j)
      <4>1. i < j => a[i] < a[j]
        BY <1>2, <3>2
      <4>2. ~(a[i] < k)
        BY <1>7, <3>1, <3>2
      <4> QED
        BY <2>1, <4>1, <4>2
    <3> QED
      BY <3>1, <3>2, <3>3
  <2>3. m = [n EXCEPT !.recs[i] = r]
    BY <1>8 DEF WithRecord, i, k
  <2>4. i \in 1 .. Len(n.recs)
    BY <1>1, <2>2 DEF c
  <2>5. /\ m \in NodeSet /\ m.leaf = n.leaf /\ m.recs = [n.recs EXCEPT ![i] = r]
        /\ m.kids = n.kids /\ m.keys = n.keys /\ m.next = n.next
    <3>1. [n.recs EXCEPT ![i] = r] \in Seq(Records) /\ m = [n EXCEPT !.recs = [n.recs EXCEPT ![i] = r]]
      BY <1>1, <2>3, <2>4 DEF c
    <3> QED
      BY <1>1, <3>1 DEF NodeSet
  <2>6. LeafHolds(a, c, S, dict) /\ a[i] = k /\ k = r.key
    BY <2>1, <2>2 DEF a, c, k
  <2>7. LeafHolds(a, [c EXCEPT ![i] = r], S, [dict EXCEPT ![r.key] = r])
    BY <2>2, <2>6, LeafReplace
  <2>8. LeafHolds(m.keys, m.recs, S, [dict EXCEPT ![r.key] = r])
    BY <2>5, <2>7 DEF a, c
  <2>9. NodeOK(m)
    <3>1. NodeHolds(m, 0, S, {}, {}, [dict EXCEPT ![r.key] = r])
      BY <2>5, <2>8 DEF NodeHolds
    <3> QED
      BY <1>1, <2>5, <3>1, HoldsFormed
  <2> QED
    BY <1>6, <2>5, <2>8, <2>9 DEF k
<1>9. CASE ~Holds(n, k)
  <2>1. m = [n EXCEPT !.keys = InsertAt(a, i, k), !.recs = InsertAt(c, i, r)]
    BY <1>9 DEF WithRecord, i, k, a, c
  <2>2. LeafHolds(a, c, S, dict) /\ k = r.key /\ r.key \in S /\ i \in 1 .. Len(a) + 1 /\ i \in 1 .. Len(c) + 1
    BY <1>2, <1>7 DEF a, c, k
  <2>3. \A j \in 1 .. Len(a) : (j < i => a[j] < r.key) /\ (j >= i => r.key < a[j])
    <3> SUFFICES ASSUME NEW j \in 1 .. Len(a) PROVE (j < i => a[j] < k) /\ (j >= i => k < a[j])
      BY <2>2
    <3>1. a[j] \in Int /\ a[j] # k /\ (a[j] < k <=> j < i) /\ i \in Int /\ j \in Int
      BY <1>2, <1>5, <1>7, <1>9
    <3> QED
      BY <1>3, <3>1
  <2>4. LeafHolds(InsertAt(a, i, r.key), InsertAt(c, i, r), S, [dict EXCEPT ![r.key] = r])
    BY <2>2, <2>3, LeafInsert
  <2>5. InsertAt(a, i, k) \in Seq(Keys) /\ InsertAt(c, i, r) \in Seq(Records)
    <3>1. a \in Seq(Keys) /\ c \in Seq(Records)
      BY <1>2
    <3> QED
      BY <1>3, <2>2, <3>1, InsertFacts
  <2>6. /\ m \in NodeSet /\ m.leaf = n.leaf /\ m.keys = InsertAt(a, i, k)
        /\ m.recs = InsertAt(c, i, r) /\ m.kids = n.kids /\ m.next = n.next
    BY <1>1, <2>1, <2>5 DEF NodeSet
  <2>7. LeafHolds(m.keys, m.recs, S, [dict EXCEPT ![r.key] = r])
    BY <2>2, <2>4, <2>6
  <2>8. NodeOK(m)
    <3>1. NodeHolds(m, 0, S, {}, {}, [dict EXCEPT ![r.key] = r])
      BY <2>6, <2>7 DEF NodeHolds
    <3> QED
      BY <1>1, <2>6, <3>1, HoldsFormed
  <2> QED
    BY <1>6, <2>6, <2>7, <2>8 DEF k
<1> QED
  BY <1>8, <1>9

\* delete_from_leaf: the leaf holds the others.
LEMMA RecordTaken ==
    ASSUME NEW n, NodeOK(n), n.leaf, dict \in Dicts, NEW S, LeafHolds(n.keys, n.recs, S, dict),
           NEW k \in Keys, Holds(n, k), NEW i, i = CountUpTo(n, k),
           NEW m, m = [n EXCEPT !.keys = RemoveAt(n.keys, i), !.recs = RemoveAt(n.recs, i)]
    PROVE  /\ NodeOK(m) /\ m.leaf
           /\ LeafHolds(m.keys, m.recs, S, [dict EXCEPT ![k] = None])
           /\ dict[k] # None
<1> DEFINE a == n.keys  c == n.recs
<1>1. /\ n \in NodeSet /\ a \in Seq(Keys) /\ c \in Seq(Records) /\ n.kids = << >>
      /\ Len(c) = Len(a) /\ Len(a) \in Nat
  BY FormedFacts
<1>2. /\ a \in Seq(Keys) /\ Sorted(a) /\ Len(c) = Len(a) /\ c \in Seq(Records)
      /\ \A j \in 1 .. Len(a) : a[j] \in Keys /\ a[j] \in Int
      /\ \A j \in 1 .. Len(a) : dict[a[j]] = c[j] /\ c[j] \in Records
      /\ \A j, l \in 1 .. Len(a) : j < l => a[j] < a[l]
  BY LeafFacts
<1>3. k \in Int
  BY KeysInt
<1>4. /\ i \in 0 .. Len(a)
      /\ \A j \in 1 .. Len(a) : a[j] <= k <=> j <= i
  <2>1. n.keys \in Seq(Int)
    BY <1>1, KeysInt
  <2> QED
    BY <1>2, <1>3, <2>1, CountFacts
<1>5. \E j \in 1 .. Len(a) : a[j] = k
  <2>1. DOMAIN a = 1 .. Len(a)
    BY <1>1
  <2>2. Range(a) = {a[j] : j \in DOMAIN a}
    BY DEF Range
  <2> QED
    BY <2>1, <2>2 DEF Holds
<1> HIDE DEF a, c
<1>6. PICK j \in 1 .. Len(a) : a[j] = k
  BY <1>5
<1>7. i \in 1 .. Len(a) /\ a[i] = k
  <2>1. j <= i /\ i \in 1 .. Len(a)
    BY <1>1, <1>3, <1>4, <1>6
  <2>2. a[i] <= k
    BY <1>4, <2>1
  <2>3. j < i => a[j] < a[i]
    BY <1>2, <2>1
  <2>4. ~(j < i)
    <3>1. a[i] \in Int
      BY <1>2, <2>1
    <3> QED
      BY <1>3, <1>6, <2>2, <2>3, <3>1
  <2> QED
    BY <1>4, <1>6, <2>1, <2>4
<1>8. dict[k] # None
  BY <1>2, <1>7, NoneAssumption
<1>9. LeafHolds(RemoveAt(a, i), RemoveAt(c, i), S, [dict EXCEPT ![k] = None])
  <2>1. LeafHolds(a, c, S, dict)
    BY DEF a, c
  <2>2. LeafHolds(RemoveAt(a, i), RemoveAt(c, i), S, [dict EXCEPT ![a[i]] = None])
    BY <1>7, <2>1, LeafRemove
  <2> QED
    BY <1>7, <2>2
<1>10. RemoveAt(a, i) \in Seq(Keys) /\ RemoveAt(c, i) \in Seq(Records)
  <2>1. a \in Seq(Keys) /\ c \in Seq(Records) /\ i \in 1 .. Len(a) /\ i \in 1 .. Len(c)
    BY <1>2, <1>7
  <2> QED
    BY <2>1, RemoveFacts
<1>11. /\ m \in NodeSet /\ m.leaf = n.leaf /\ m.keys = RemoveAt(a, i)
       /\ m.recs = RemoveAt(c, i) /\ m.kids = n.kids
  <2>1. m = [n EXCEPT !.keys = RemoveAt(a, i), !.recs = RemoveAt(c, i)]
    BY DEF a, c
  <2> QED
    BY <1>1, <1>10, <2>1 DEF NodeSet
<1>12. LeafHolds(m.keys, m.recs, S, [dict EXCEPT ![k] = None])
  BY <1>9, <1>11
<1>13. NodeOK(m)
  <2>1. NodeHolds(m, 0, S, {}, {}, [dict EXCEPT ![k] = None])
    BY <1>11, <1>12 DEF NodeHolds
  <2> QED
    BY <1>1, <1>11, <2>1, HoldsFormed
<1> QED
  BY <1>8, <1>11, <1>12, <1>13

\* The leaf a call works on.
LEMMA WayLeaf ==
    ASSUME NEW R, NEW h, NEW g, NEW count \in Int, NEW d, Tree(nodes, R, h, g, root, count, d),
           count <= NumPages, NEW k \in Int, NEW p, p = Last(Descent(k)).page
    PROVE  /\ p \in R /\ h[p] = 0 /\ k \in g[p] /\ nodes[p].leaf
           /\ LeafHolds(nodes[p].keys, nodes[p].recs, g[p], d)
<1>1. PICK w, u : w = Descent(k) /\ u = Front(w)
  OBVIOUS
<1>2. p = Last(w).page
  BY <1>1
<1> QED
  BY <1>1, <1>2, WayFacts

\* A call has found its leaf, p, and is going to write it as m.
Starts(k, x, w, p, m) ==
    /\ w = Descent(k) /\ p = Last(w).page /\ LeafStep(nodes[p], m, k, x)
    /\ at' = p /\ path' = Front(w) /\ writes' = Write(p, m)
    /\ pc = "idle" /\ pc' \in {"inserted", "replaced", "deleted"}
    /\ dict' = [dict EXCEPT ![k] = x]
    /\ UNCHANGED nodes /\ UNCHANGED pageCount /\ UNCHANGED root /\ UNCHANGED carry
    /\ pc' = "inserted" /\ IsFull(m) => pageCount + Len(w) + 1 <= NumPages

\* A call that changes the leaf its descent leads to keeps the invariant.
LEMMA CallStarts ==
    ASSUME IInv, NEW k \in Keys, NEW x \in Records \union {None}, NEW w, NEW p, NEW m,
           Starts(k, x, w, p, m), size' \in Nat, SizeFits'
    PROVE  IInv'
<1>0. /\ w = Descent(k) /\ p = Last(w).page /\ LeafStep(nodes[p], m, k, x)
      /\ at' = p /\ path' = Front(w) /\ writes' = Write(p, m)
      /\ pc = "idle" /\ pc' \in {"inserted", "replaced", "deleted"}
      /\ dict' = [dict EXCEPT ![k] = x]
      /\ UNCHANGED nodes /\ UNCHANGED pageCount /\ UNCHANGED root /\ UNCHANGED carry
      /\ pc' = "inserted" /\ IsFull(m) => pageCount + Len(w) + 1 <= NumPages
  BY DEF Starts
<1>1. TypeOK /\ writes = << >> /\ root \in Pages
  BY <1>0 DEF IInv, TypeOK
<1>2. PICK V, R, h, g : Inner(V, R, h, g)
  BY DEF IInv
<1>3. Top = root /\ Count = pageCount /\ Top' = root /\ Count' = pageCount
  BY <1>0 DEF Top, Count
<1>4. /\ \A q \in Pages : NodeOK(nodes[q]) /\ V[q] = nodes[q]
      /\ Tree(nodes, R, h, g, root, pageCount, dict)
      /\ pageCount \in Int /\ pageCount <= NumPages /\ NumPages \in Nat
      /\ dict \in Dicts
  <2>1. pc # "split"
    BY <1>0
  <2> QED
    BY <1>1, <1>2, <1>3, <2>1, Settled
<1>5. k \in Int
  BY KeysInt
<1>u. PICK u : u = Front(w)
  OBVIOUS
<1>6. /\ p \in R /\ h[p] = 0 /\ k \in g[p] /\ nodes[p].leaf
      /\ LeafHolds(nodes[p].keys, nodes[p].recs, g[p], dict)
      /\ w \in Seq(Steps) /\ Len(w) = h[root] + 1
      /\ u \in Seq(Steps) /\ Len(u) = h[root] /\ h[root] \in Nat
      /\ \A i \in 1 .. Len(u) :
            /\ u[i].page \in R /\ h[u[i].page] + i = Len(u) + 1
            /\ u[i].pos \in 1 .. Len(nodes[u[i].page].kids)
            /\ nodes[u[i].page].kids[u[i].pos] = IF i = Len(u) THEN p ELSE u[i + 1].page
  <2>1. w = Descent(k) /\ p = Last(w).page /\ u = Front(w)
    BY <1>0, <1>u
  <2>2. Tree(nodes, R, h, g, root, pageCount, dict) /\ pageCount \in Int /\ pageCount <= NumPages
    BY <1>4
  <2>3. /\ w \in Seq(Steps) /\ Len(w) = h[root] + 1
        /\ u \in Seq(Steps) /\ Len(u) = h[root] /\ h[root] \in Nat
    BY <1>5, <2>1, <2>2, WayFacts
  <2>4. Above(u, p, R, h)
    BY <1>5, <2>1, <2>2, WayFacts
  <2>5. /\ p \in R /\ h[p] = 0 /\ k \in g[p] /\ nodes[p].leaf
        /\ LeafHolds(nodes[p].keys, nodes[p].recs, g[p], dict)
    BY <1>5, <2>1, <2>2, WayFacts
  <2> QED
    BY <2>3, <2>4, <2>5 DEF Above
<1>7. PICK M : M = [q \in Pages |-> IF q = p THEN m ELSE nodes[q]]
  OBVIOUS
<1>8. \A q \in R : q \in Pages
  BY <1>4, TreeTypes
<1>9. /\ p \in Pages /\ M[p] = m /\ \A q \in Pages : q # p => M[q] = nodes[q]
      /\ NodeOK(m) /\ m.leaf /\ m.next = nodes[p].next
      /\ LeafHolds(m.keys, m.recs, g[p], [dict EXCEPT ![k] = x])
  BY <1>0, <1>6, <1>7, <1>8 DEF LeafStep
<1>10. Tree(M, R, h, g, root, pageCount, [dict EXCEPT ![k] = x])
  <2>1. \A q \in R : q # p => M[q] = nodes[q]
    BY <1>8, <1>9
  <2>2. M[p].leaf /\ M[p].next = nodes[p].next /\ LeafHolds(M[p].keys, M[p].recs, g[p], [dict EXCEPT ![k] = x])
    BY <1>9
  <2>3. p \in R /\ h[p] = 0 /\ k \in g[p]
    BY <1>6
  <2> QED
    BY <1>4, <2>1, <2>2, <2>3, TreeLeaf
<1>11. /\ writes' \in Seq(WriteSet) /\ DOMAIN writes' = 1 .. 1
       /\ \A i \in 1 .. 1 : writes'[i].page = p /\ writes'[i].node = m
       /\ \A i \in DOMAIN writes' : WellFormed(writes'[i].node)
  BY <1>0, <1>9, WriteFacts
<1>12. Shows(M)'
  <2>1. \A q \in Pages : ~Pending(q)' => q # p
    BY <1>11 DEF Pending
  <2>2. pc' # "split"
    BY <1>0
  <2> QED
    BY <1>0, <1>4, <1>9, <1>11, <2>1, <2>2 DEF Shows
<1>13. Tree(M, R, h, g, Top, Count, dict)'
  BY <1>0, <1>3, <1>10
<1>14. Stacked(M, R, h)'
  <2>1. \A i \in 1 .. Len(u) : h[u[i].page] # 0 /\ M[u[i].page] = nodes[u[i].page]
    <3> SUFFICES ASSUME NEW i \in 1 .. Len(u) PROVE h[u[i].page] # 0 /\ M[u[i].page] = nodes[u[i].page]
      OBVIOUS
    <3> DEFINE y == h[u[i].page]  l == Len(u)
    <3>1. y + i = l + 1 /\ i \in 1 .. l /\ l \in Nat
      BY <1>6
    <3>2. u[i].page \in R
      BY <1>6
    <3> HIDE DEF y, l
    <3>3. y # 0
      BY <3>1
    <3> QED
      BY <1>6, <1>8, <1>9, <3>2, <3>3 DEF y
  <2>2. path' = u /\ at' = p
    BY <1>0, <1>u
  <2>3. h[p] + Len(u) + 1 = Len(u) + 1 /\ h[root] = h[p] + Len(u)
    BY <1>6
  <2>4. ASSUME NEW i \in 1 .. Len(u)
        PROVE  /\ u[i].page \in R /\ h[u[i].page] + i = h[p] + Len(u) + 1
               /\ u[i].pos \in 1 .. Len(M[u[i].page].kids)
               /\ M[u[i].page].kids[u[i].pos] = IF i = Len(u) THEN p ELSE u[i + 1].page
    <3>1. M[u[i].page] = nodes[u[i].page]
      BY <2>1
    <3>2. h[u[i].page] + i = Len(u) + 1
      BY <1>6
    <3> QED
      BY <1>6, <2>3, <3>1, <3>2
  <2>5. p \in R /\ pc' # "split" /\ root' = root
    BY <1>0, <1>6
  <2> QED
    BY <2>2, <2>3, <2>4, <2>5 DEF Stacked
<1>15. Room(M)'
  <2>1. pc' = "inserted" /\ IsFull(m) => pageCount + Len(u) + 2 <= NumPages
    <3> DEFINE l == Len(u)  n == Len(w)
    <3>1. l \in Nat /\ n = l + 1
      BY <1>6
    <3>2. pc' = "inserted" /\ IsFull(m) => pageCount + n + 1 <= NumPages
      BY <1>0
    <3> HIDE DEF l, n
    <3>3. pc' = "inserted" /\ IsFull(m) => pageCount + l + 2 <= NumPages
      BY <1>4, <3>1, <3>2
    <3> QED
      BY <3>3 DEF l
  <2> QED
    BY <1>0, <1>u, <1>9, <2>1 DEF Room
<1>16. \E V1, R1, h1, g1 : Inner(V1, R1, h1, g1)'
  BY <1>12, <1>13, <1>14, <1>15 DEF Inner
<1>17. TypeOK'
  <2>1. dict' \in [Keys -> Records \union {None}]
    BY <1>0, <1>4 DEF Dicts
  <2>2. path' \in Seq([page : Pages, pos : Nat \ {0}])
    BY <1>0, <1>u, <1>6 DEF Steps
  <2> QED
    BY <1>0, <1>1, <1>9, <1>11, <2>1, <2>2 DEF TypeOK, WriteSet
<1> QED
  BY <1>0, <1>16, <1>17 DEF IInv

\* insert, down to the leaf.
LEMMA InsertStep ==
    ASSUME IInv, NEW r \in Records, Insert(r)
    PROVE  IInv'
<1>0. PICK w, p, n, m : w = Descent(r.key) /\ p = Last(w).page /\ n = nodes[p] /\ m = WithRecord(n, r)
  OBVIOUS
<1>1. /\ pc = "idle" /\ HasRoom(m, Len(w)) /\ at' = p /\ path' = Front(w) /\ writes' = Write(p, m)
      /\ size' = SizeBefore(Holds(n, r.key))
      /\ pc' = IF Holds(n, r.key) THEN "replaced" ELSE "inserted"
      /\ dict' = [dict EXCEPT ![r.key] = r]
      /\ UNCHANGED nodes /\ UNCHANGED pageCount /\ UNCHANGED root /\ UNCHANGED carry
  BY <1>0 DEF Insert, Idle
<1>2. TypeOK /\ writes = << >>
  BY <1>1 DEF IInv
<1>3. PICK V, R, h, g : Inner(V, R, h, g)
  BY DEF IInv
<1>4. /\ Tree(nodes, R, h, g, root, pageCount, dict)
      /\ \A q \in Pages : NodeOK(nodes[q])
      /\ pageCount \in Int /\ pageCount <= NumPages /\ dict \in Dicts
  <2>1. Top = root
    BY <1>1 DEF Top
  <2> QED
    BY <1>1, <1>2, <1>3, <2>1, Settled
<1>5. r.key \in Keys /\ r.key \in Int
  BY KeysInt DEF Keys
<1>6. p \in R /\ r.key \in g[p] /\ nodes[p].leaf /\ LeafHolds(nodes[p].keys, nodes[p].recs, g[p], dict)
  <2>1. p = Last(Descent(r.key)).page
    BY <1>0
  <2> QED
    BY <1>4, <1>5, <2>1, WayLeaf
<1>7. NodeOK(n) /\ n.leaf
  <2>1. p \in Pages
    BY <1>4, <1>6, TreeTypes
  <2> QED
    BY <1>0, <1>4, <1>6, <2>1
<1>8. \A S : LeafHolds(n.keys, n.recs, S, dict) /\ r.key \in S
             => /\ NodeOK(m) /\ m.leaf /\ m.next = n.next
                /\ LeafHolds(m.keys, m.recs, S, [dict EXCEPT ![r.key] = r])
                /\ Holds(n, r.key) <=> dict[r.key] # None
  BY <1>0, <1>4, <1>7, RecordPut
<1>9. LeafStep(n, m, r.key, r) /\ (Holds(n, r.key) <=> dict[r.key] # None)
  BY <1>0, <1>6, <1>8 DEF LeafStep
<1>10. /\ size = Cardinality(Present) /\ size \in Nat
       /\ Present' = Present \union {r.key}
       /\ IsFiniteSet(Present) /\ Cardinality(Present) \in Nat
       /\ r.key \in Present <=> Holds(n, r.key)
  <2>1. size = Cardinality(Present) /\ size \in Nat
    BY <1>1, <1>2 DEF IInv, SizeFits, TypeOK
  <2>2. \A k \in Keys : dict'[k] = IF k = r.key THEN r ELSE dict[k]
    BY <1>1, <1>4, <1>5 DEF Dicts
  <2>3. r # None
    BY NoneAssumption
  <2>4. Present' = Present \union {r.key}
    BY <1>5, <2>2, <2>3 DEF Present
  <2>5. r.key \in Present <=> Holds(n, r.key)
    BY <1>5, <1>9 DEF Present
  <2> QED
    BY <2>1, <2>4, <2>5, PresentFinite
<1>11. size' + 1 = Cardinality(Present') /\ size' \in Nat
  <2>1. Cardinality(Present') = IF r.key \in Present THEN size ELSE size + 1
    BY <1>10, FS_AddElement
  <2>2. CASE Holds(n, r.key)
    <3>1. size # 0
      BY <1>10, <2>2, FS_EmptySet
    <3>2. size' = size - 1
      BY <1>1, <1>10, <2>2, <3>1 DEF SizeBefore
    <3> QED
      BY <1>10, <2>1, <2>2, <3>1, <3>2
  <2>3. CASE ~Holds(n, r.key)
    <3>1. size' = size
      BY <1>1, <2>3 DEF SizeBefore
    <3> QED
      BY <1>10, <2>1, <2>3, <3>1
  <2> QED
    BY <2>2, <2>3
<1>12. SizeFits'
  BY <1>1, <1>11 DEF SizeFits
<1>13. pc' = "inserted" /\ IsFull(m) => pageCount + Len(w) + 1 <= NumPages
  BY <1>1 DEF HasRoom
<1>14. Starts(r.key, r, w, p, m) /\ r \in Records \union {None}
  BY <1>0, <1>1, <1>9, <1>13 DEF Starts
<1> QED
  BY <1>5, <1>11, <1>12, <1>14, CallStarts

\* delete, down to the leaf.
LEMMA DeleteStep ==
    ASSUME IInv, NEW k \in Keys, Delete(k)
    PROVE  IInv'
<1>0. PICK w, p, n, i, m : /\ w = Descent(k) /\ p = Last(w).page /\ n = nodes[p] /\ i = CountUpTo(n, k)
                           /\ m = [n EXCEPT !.keys = RemoveAt(n.keys, i), !.recs = RemoveAt(n.recs, i)]
  OBVIOUS
<1>1. /\ pc = "idle" /\ Holds(n, k) /\ at' = p /\ path' = Front(w) /\ writes' = Write(p, m)
      /\ pc' = "deleted"
      /\ dict' = [dict EXCEPT ![k] = None]
      /\ UNCHANGED nodes /\ UNCHANGED pageCount /\ UNCHANGED root /\ UNCHANGED size /\ UNCHANGED carry
  BY <1>0 DEF Delete, Idle, tree
<1>2. TypeOK /\ writes = << >>
  BY <1>1 DEF IInv
<1>3. PICK V, R, h, g : Inner(V, R, h, g)
  BY DEF IInv
<1>4. /\ Tree(nodes, R, h, g, root, pageCount, dict)
      /\ \A q \in Pages : NodeOK(nodes[q])
      /\ pageCount \in Int /\ pageCount <= NumPages /\ dict \in Dicts
  <2>1. Top = root
    BY <1>1 DEF Top
  <2> QED
    BY <1>1, <1>2, <1>3, <2>1, Settled
<1>5. k \in Int
  BY KeysInt
<1>6. p \in R /\ k \in g[p] /\ nodes[p].leaf /\ LeafHolds(nodes[p].keys, nodes[p].recs, g[p], dict)
  <2>1. p = Last(Descent(k)).page
    BY <1>0
  <2> QED
    BY <1>4, <1>5, <2>1, WayLeaf
<1>7. NodeOK(n) /\ n.leaf
  <2>1. p \in Pages
    BY <1>4, <1>6, TreeTypes
  <2> QED
    BY <1>0, <1>4, <1>6, <2>1
<1>8. \A S : LeafHolds(n.keys, n.recs, S, dict) /\ k \in S
             => /\ NodeOK(m) /\ m.leaf
                /\ LeafHolds(m.keys, m.recs, S, [dict EXCEPT ![k] = None])
                /\ dict[k] # None
  BY <1>0, <1>1, <1>4, <1>7, RecordTaken
<1>n. m.next = n.next
  <2>1. n \in NodeSet
    BY <1>7 DEF NodeOK
  <2> QED
    BY <1>0, <2>1 DEF NodeSet
<1>9. LeafStep(n, m, k, None) /\ dict[k] # None
  BY <1>0, <1>6, <1>8, <1>n DEF LeafStep
<1>10. /\ size = Cardinality(Present) /\ size \in Nat
       /\ Present' = Present \ {k}
       /\ IsFiniteSet(Present) /\ Cardinality(Present) \in Nat
       /\ k \in Present
  <2>1. size = Cardinality(Present) /\ size \in Nat
    BY <1>1, <1>2 DEF IInv, SizeFits, TypeOK
  <2>2. \A j \in Keys : dict'[j] = IF j = k THEN None ELSE dict[j]
    BY <1>1, <1>4 DEF Dicts
  <2>3. Present' = Present \ {k}
    BY <2>2 DEF Present
  <2>4. k \in Present
    BY <1>9 DEF Present
  <2> QED
    BY <2>1, <2>3, <2>4, PresentFinite
<1>11. size' = Cardinality(Present') + 1 /\ size' \in Nat
  <2>1. Cardinality(Present') = size - 1
    BY <1>10, FS_RemoveElement
  <2> QED
    BY <1>1, <1>10, <2>1
<1>12. SizeFits'
  BY <1>1, <1>11 DEF SizeFits
<1>13. pc' = "inserted" /\ IsFull(m) => pageCount + Len(w) + 1 <= NumPages
  BY <1>1
<1>14. Starts(k, None, w, p, m) /\ None \in Records \union {None}
  BY <1>0, <1>1, <1>9, <1>13 DEF Starts
<1> QED
  BY <1>11, <1>12, <1>14, CallStarts

\* What the two halves of a split node hold.
LEMMA CutParted ==
    ASSUME NEW N, NEW R, NEW h, NEW g, NEW top, NEW count, NEW d, Tree(N, R, h, g, top, count, d),
           NEW c \in R, NodeOK(N[c]), Len(N[c].keys) >= 2, NEW q \in Pages, NEW s, s = Split(N[c], q)
    PROVE  /\ Parted(s.left, s.right, s.up, h[c], g[c], Level(R, h, h[c]), g, d)
           /\ s.up \in Keys /\ NodeOK(s.left) /\ NodeOK(s.right)
           /\ h[c] = 0 => s.left.next = q /\ s.right.next = N[c].next
<1>1. g[c] \in SUBSET Int /\ NodeHolds(N[c], h[c], g[c], Level(R, h, h[c]), g, d)
  BY TreeTypes
<1> DEFINE n == N[c]  l == h[c]  S == g[c]  C == Level(R, h, h[c])
<1>2. NodeOK(n) /\ S \in SUBSET Int /\ NodeHolds(n, l, S, C, g, d) /\ Len(n.keys) >= 2 /\ s = Split(n, q)
  BY <1>1
<1> HIDE DEF n, l, S, C
<1>3. /\ s.up \in Keys /\ s.up \in S
      /\ \E y \in S : y < s.up
      /\ NodeOK(s.left) /\ NodeHolds(s.left, l, Below(S, s.up), C, g, d)
      /\ NodeOK(s.right) /\ NodeHolds(s.right, l, From(S, s.up), C, g, d)
  BY <1>2, NodeCut
<1>5. l = 0 => s.left.next = q /\ s.right.next = n.next
  <2>1. l = 0 => n.leaf
    BY <1>2 DEF NodeHolds
  <2> SUFFICES ASSUME n.leaf PROVE s.left.next = q /\ s.right.next = n.next
    BY <2>1
  <2>2. PICK u, a, b, e, f : s = [up |-> u, left |-> LeafNode(a, b, q), right |-> LeafNode(e, f, n.next)]
    BY <1>2 DEF Split
  <2> QED
    BY <2>2 DEF LeafNode
<1>4. Parted(s.left, s.right, s.up, l, S, C, g, d)
  BY <1>3 DEF Parted
<1> QED
  BY <1>3, <1>4, <1>5 DEF n, l, S, C

\* The linked parent is a node again.
LEMMA LinkedFacts ==
    ASSUME NEW m, NodeOK(m), ~m.leaf, NEW n \in 1 .. Len(m.kids), NEW x \in Keys, NEW q \in Pages,
           NEW L, L = Linked(m, n, x, q)
    PROVE  /\ NodeOK(L) /\ ~L.leaf
           /\ L.keys = InsertAt(m.keys, n, x) /\ L.kids = InsertAt(m.kids, n + 1, q)
<1>1. /\ m \in NodeSet /\ m.keys \in Seq(Keys) /\ m.kids \in Seq(Pages) /\ m.recs = << >>
      /\ Len(m.kids) = Len(m.keys) + 1 /\ Len(m.keys) \in Nat
  BY FormedFacts
<1> DEFINE a == m.keys  c == m.kids  b == InsertAt(a, n, x)  e == InsertAt(c, n + 1, q)
<1>2. L = [m EXCEPT !.keys = b, !.kids = e]
  BY DEF Linked
<1>k. PICK k : k = n + 1
  OBVIOUS
<1>3. a \in Seq(Keys) /\ c \in Seq(Pages) /\ n \in 1 .. Len(a) + 1 /\ k \in 1 .. Len(c) + 1 /\ e = InsertAt(c, k, q)
  BY <1>1, <1>k
<1> HIDE DEF a, c
<1>4. b \in Seq(Keys) /\ Len(b) = Len(a) + 1
  BY <1>3, InsertFacts
<1> HIDE DEF b, e
<1>5. e \in Seq(Pages) /\ Len(e) = Len(c) + 1
  BY <1>3, InsertFacts
<1>6. /\ L \in NodeSet /\ L.leaf = m.leaf /\ L.keys = b /\ L.kids = e /\ L.recs = << >>
  BY <1>1, <1>2, <1>4, <1>5 DEF NodeSet
<1>7. Len(e) = Len(b) + 1
  BY <1>1, <1>4, <1>5 DEF a, c
<1>8. WellFormed(L)
  BY <1>6, <1>7 DEF WellFormed
<1> QED
  BY <1>6, <1>8 DEF NodeOK, b, e, a, c

\* A node below a parent is split.
HalvedBelow(N, R, h, g, top, q, d, p, n, c, s, M) ==
    /\ q \in Pages /\ Tree(N, R, h, g, top, q, d)
    /\ p \in R /\ h[p] # 0 /\ n \in 1 .. Len(N[p].kids) /\ c = N[p].kids[n]
    /\ NodeOK(N[p]) /\ NodeOK(N[c]) /\ Len(N[c].keys) >= 2 /\ s = Split(N[c], q)
    /\ M[c] = s.left /\ M[q] = s.right /\ M[p] = Linked(N[p], n, s.up, q)
    /\ \A o \in R : o # c /\ o # p => M[o] = N[o]

\* split_leaf or split_internal below a parent.
LEMMA SplitBelow ==
    ASSUME NEW N, NEW R, NEW h, NEW g, NEW top, NEW q, NEW d, NEW p, NEW n, NEW c, NEW s, NEW M,
           HalvedBelow(N, R, h, g, top, q, d, p, n, c, s, M)
    PROVE  /\ \E Q, j, f : Tree(M, Q, j, f, top, q + 1, d) /\ Q = R \union {q} /\ \A o \in R : j[o] = h[o]
           /\ s.up \in Keys /\ NodeOK(M[p]) /\ NodeOK(M[c]) /\ NodeOK(M[q])
<1>0. /\ q \in Pages /\ Tree(N, R, h, g, top, q, d)
      /\ p \in R /\ h[p] # 0 /\ n \in 1 .. Len(N[p].kids) /\ c = N[p].kids[n]
      /\ NodeOK(N[p]) /\ NodeOK(N[c]) /\ Len(N[c].keys) >= 2 /\ s = Split(N[c], q)
      /\ M[c] = s.left /\ M[q] = s.right /\ M[p] = Linked(N[p], n, s.up, q)
      /\ \A o \in R : o # c /\ o # p => M[o] = N[o]
  BY DEF HalvedBelow
<1> USE <1>0
<1>1. ~N[p].leaf /\ c \in R
  BY KidFacts
<1>2. /\ Parted(M[c], M[q], s.up, h[c], g[c], Level(R, h, h[c]), g, d)
      /\ s.up \in Keys /\ NodeOK(M[c]) /\ NodeOK(M[q])
      /\ h[c] = 0 => M[c].next = q /\ M[q].next = N[c].next
  BY <1>1, CutParted
<1>3. /\ NodeOK(M[p]) /\ ~M[p].leaf
      /\ M[p].keys = InsertAt(N[p].keys, n, s.up) /\ M[p].kids = InsertAt(N[p].kids, n + 1, q)
  <2>1. PICK m, x, L : m = N[p] /\ x = s.up /\ L = M[p]
    OBVIOUS
  <2>2. NodeOK(m) /\ ~m.leaf /\ n \in 1 .. Len(m.kids) /\ x \in Keys /\ L = Linked(m, n, x, q)
    BY Zenon, <1>1, <1>2, <2>1
  <2>3. NodeOK(L) /\ ~L.leaf /\ L.keys = InsertAt(m.keys, n, x) /\ L.kids = InsertAt(m.kids, n + 1, q)
    BY <2>2, LinkedFacts
  <2> QED
    BY ZenonT(30), <2>1, <2>3
<1>4. q \in Int /\ q + 1 \in Int /\ q <= q + 1 /\ q < q + 1
  BY PagesAssumption DEF Pages
<1>5. q \notin R
  BY <1>4, TreeTypes
<1>6. \E Q, j, f : Tree(M, Q, j, f, top, q + 1, d) /\ Q = R \union {q} /\ \A o \in R : j[o] = h[o]
  <2>1. PICK x, more : x = s.up /\ more = q + 1
    OBVIOUS
  <2>2. /\ Parted(M[c], M[q], x, h[c], g[c], Level(R, h, h[c]), g, d)
        /\ M[p].keys = InsertAt(N[p].keys, n, x)
    BY Zenon, <1>2, <1>3, <2>1
  <2>3. more \in Int /\ q <= more /\ q < more /\ q \in Int
    BY <1>4, <2>1
  <2>4. ~M[p].leaf /\ M[p].kids = InsertAt(N[p].kids, n + 1, q)
    BY Zenon, <1>3
  <2>5. \E Q, j, f : Tree(M, Q, j, f, top, more, d) /\ Q = R \union {q} /\ \A o \in R : j[o] = h[o]
    <3>1. SplitHere(N, R, h, g, top, q, d, more, p, n, c, q, x, M)
      BY Zenon, <1>2, <1>5, <2>2, <2>3, <2>4 DEF SplitHere
    <3> QED
      BY <3>1, TreeSplit
  <2> QED
    BY <2>1, <2>5
<1> QED
  BY Zenon, <1>2, <1>3, <1>6

\* The root is split, below the root that will be made on the page t.
HalvedTop(N, R, h, g, top, q, d, s, t, M) ==
    /\ q \in Pages /\ Tree(N, R, h, g, top, q, d)
    /\ NodeOK(N[top]) /\ Len(N[top].keys) >= 2 /\ s = Split(N[top], q)
    /\ t \in Pages /\ t = q + 1
    /\ M[top] = s.left /\ M[q] = s.right /\ M[t] = InternalNode(<<s.up>>, <<top, q>>)
    /\ \A o \in R : o # top => M[o] = N[o]

\* split_leaf or split_internal of the root.
LEMMA SplitTop ==
    ASSUME NEW N, NEW R, NEW h, NEW g, NEW top, NEW q, NEW d, NEW s, NEW t, NEW M,
           HalvedTop(N, R, h, g, top, q, d, s, t, M)
    PROVE  /\ \E Q, j, f : Tree(M, Q, j, f, t, t + 1, d) /\ (\A o \in R : o \in Q)
           /\ s.up \in Keys /\ NodeOK(M[t]) /\ NodeOK(M[top]) /\ NodeOK(M[q])
<1>0. /\ q \in Pages /\ Tree(N, R, h, g, top, q, d)
      /\ NodeOK(N[top]) /\ Len(N[top].keys) >= 2 /\ s = Split(N[top], q)
      /\ t \in Pages /\ t = q + 1
      /\ M[top] = s.left /\ M[q] = s.right /\ M[t] = InternalNode(<<s.up>>, <<top, q>>)
      /\ \A o \in R : o # top => M[o] = N[o]
  BY DEF HalvedTop
<1> USE <1>0
<1>1. /\ top \in R /\ top \in Pages /\ h[top] \in Nat /\ g[top] = Int
      /\ \A o \in R : o \in Pages /\ o < q
  BY TreeTypes
<1>2. /\ q \in Int /\ t \in Int /\ q < t /\ q \notin R /\ t \notin R /\ t # q /\ t # top /\ q # top
  <2>1. q \in Int /\ t \in Int /\ q < t
    BY DEF Pages
  <2>2. \A o \in R : o < t /\ o # q /\ o # t
    BY <1>1, <2>1 DEF Pages
  <2> QED
    BY <1>1, <2>1, <2>2
<1>x. PICK x, more : x = s.up /\ more = t + 1
  OBVIOUS
<1>3. /\ Parted(M[top], M[q], x, h[top], g[top], Level(R, h, h[top]), g, d)
      /\ x \in Keys /\ NodeOK(M[top]) /\ NodeOK(M[q])
      /\ h[top] = 0 => M[top].next = q /\ M[q].next = N[top].next
  BY <1>1, <1>x, CutParted
<1>4. more \in Int /\ t < more /\ q < more /\ q <= more /\ t <= more
  BY <1>2, <1>x
<1> DEFINE u == InternalNode(<< >>, <<top>>)  v == InternalNode(<<x>>, <<top, q>>)
<1>5. /\ ~u.leaf /\ u.keys = << >> /\ u.kids = <<top>>
  BY DEF InternalNode
<1>6. /\ NodeOK(v) /\ ~v.leaf /\ v.keys = <<x>> /\ v.kids = <<top, q>>
  <2>1. <<x>> \in Seq(Keys) /\ <<top, q>> \in Seq(Pages) /\ Len(<<x>>) = 1 /\ Len(<<top, q>>) = 2
    BY <1>1, <1>3
  <2>2. v \in NodeSet /\ ~v.leaf /\ v.keys = <<x>> /\ v.kids = <<top, q>> /\ v.recs = << >>
    BY <2>1 DEF NodeSet, InternalNode
  <2> HIDE DEF v
  <2>3. WellFormed(v)
    BY <2>1, <2>2 DEF WellFormed
  <2> QED
    BY <2>2, <2>3 DEF NodeOK
<1>7. /\ InsertAt(<< >>, 1, x) = <<x>>
      /\ InsertAt(<<top>>, 2, q) = <<top, q>>
  <2>1. InsertAt(<< >>, 1, x) = <<x>>
    <3> DEFINE a == << >>  b == <<x>>
    <3>1. a \in Seq(Keys) /\ Len(a) = 0 /\ b \in Seq(Keys) /\ Len(b) = 1 /\ b[1] = x
      BY <1>3
    <3> HIDE DEF a, b
    <3>0. PICK n : n = 1
      OBVIOUS
    <3>2. n \in 1 .. Len(a) + 1
      BY <3>0, <3>1
    <3>3. InsertAt(a, n, x) \in Seq(Keys) /\ Len(InsertAt(a, n, x)) = Len(a) + 1 /\ InsertAt(a, n, x)[n] = x
      <4>1. a \in Seq(Keys) /\ x \in Keys
        BY <1>3, <3>1
      <4> QED
        BY ONLY <3>2, <4>1, InsertFacts
    <3>4. \A i \in 1 .. Len(b) : InsertAt(a, n, x)[i] = b[i]
      BY <3>0, <3>1, <3>3
    <3>6. InsertAt(a, n, x) = b
      BY <3>1, <3>3, <3>4, SameSeq
    <3>5. InsertAt(a, 1, x) = b
      BY <3>0, <3>6
    <3> QED
      BY <3>5 DEF a, b
  <2>2. InsertAt(<<top>>, 2, q) = <<top, q>>
    <3> DEFINE a == <<top>>  b == <<top, q>>
    <3>1. a \in Seq(Pages) /\ Len(a) = 1 /\ a[1] = top /\ b \in Seq(Pages) /\ Len(b) = 2 /\ b[1] = top /\ b[2] = q
      BY <1>1
    <3> HIDE DEF a, b
    <3>0. PICK n : n = 2
      OBVIOUS
    <3>2. n \in 1 .. Len(a) + 1 /\ 1 \in 1 .. n - 1
      BY <3>0, <3>1
    <3>3. /\ InsertAt(a, n, q) \in Seq(Pages) /\ Len(InsertAt(a, n, q)) = Len(a) + 1
          /\ InsertAt(a, n, q)[n] = q /\ \A i \in 1 .. n - 1 : InsertAt(a, n, q)[i] = a[i]
      <4>1. a \in Seq(Pages) /\ q \in Pages
        BY <3>1
      <4> QED
        BY ONLY <3>2, <4>1, InsertFacts
    <3>4. \A i \in 1 .. Len(b) : InsertAt(a, n, q)[i] = b[i]
      BY <3>0, <3>1, <3>2, <3>3
    <3>6. InsertAt(a, n, q) = b
      BY <3>1, <3>3, <3>4, SameSeq
    <3>5. InsertAt(a, 2, q) = b
      BY <3>0, <3>6
    <3> QED
      BY <3>5 DEF a, b
  <2> QED
    BY <2>1, <2>2
<1>8. M[t] = v
  BY <1>x
<1> HIDE DEF u, v
<1>9. PICK N1, j1, f1 :
        /\ N1 = [o \in R \union {t} |-> IF o = t THEN u ELSE N[o]]
        /\ j1 = [o \in R \union {t} |-> IF o = t THEN h[top] + 1 ELSE h[o]]
        /\ f1 = [o \in R \union {t} |-> IF o = t THEN Int ELSE g[o]]
  OBVIOUS
<1>10. /\ N1[t] = u /\ j1[t] = h[top] + 1 /\ f1[t] = Int
       /\ \A o \in R : N1[o] = N[o] /\ j1[o] = h[o] /\ f1[o] = g[o]
  BY <1>2, <1>9
<1>11. PICK R1 : Tree(N1, R1, j1, f1, t, more, d) /\ R1 = R \union {t}
  <2>1. Topped(N, R, h, g, top, q, d, N1, j1, f1, t, more)
    BY <1>2, <1>4, <1>5, <1>10 DEF Topped
  <2> QED
    BY <2>1, TreeTop
<1>12. Parted(M[top], M[q], x, j1[top], f1[top], Level(R1, j1, j1[top]), f1, d)
  <2>1. j1[top] = h[top] /\ f1[top] = g[top]
    BY <1>1, <1>10
  <2>2. \A o \in Level(R, h, h[top]) : o \in R1 /\ j1[o] = h[o] /\ f1[o] = g[o]
    BY <1>10, <1>11 DEF Level
  <2>3. /\ x \in Keys /\ x \in g[top] /\ \E y \in g[top] : y < x
        /\ NodeOK(M[top]) /\ NodeHolds(M[top], h[top], Below(g[top], x), Level(R, h, h[top]), g, d)
        /\ NodeOK(M[q]) /\ NodeHolds(M[q], h[top], From(g[top], x), Level(R, h, h[top]), g, d)
    BY <1>3 DEF Parted
  <2>4. NodeHolds(M[top], h[top], Below(g[top], x), Level(R1, j1, h[top]), f1, d)
    BY <2>2, <2>3, NodeKept
  <2>5. NodeHolds(M[q], h[top], From(g[top], x), Level(R1, j1, h[top]), f1, d)
    BY <2>2, <2>3, NodeKept
  <2>6. Parted(M[top], M[q], x, h[top], g[top], Level(R1, j1, h[top]), f1, d)
    BY <2>3, <2>4, <2>5 DEF Parted
  <2> QED
    BY <2>1, <2>6
<1>13. SplitHere(N1, R1, j1, f1, t, more, d, more, t, 1, top, q, x, M)
  <2>1. /\ t \in R1 /\ j1[t] # 0 /\ q \notin R1 /\ more <= more
    BY <1>1, <1>2, <1>4, <1>10, <1>11
  <2>2. N1[t].keys = << >> /\ N1[t].kids = <<top>>
    BY <1>5, <1>10
  <2>3. 1 \in 1 .. Len(N1[t].kids) /\ top = N1[t].kids[1] /\ 1 + 1 = 2
    BY <2>2
  <2>4. ~M[t].leaf /\ M[t].keys = InsertAt(N1[t].keys, 1, x) /\ M[t].kids = InsertAt(N1[t].kids, 2, q)
    BY <1>6, <1>7, <1>8, <2>2
  <2>5. \A o \in R1 : o # top /\ o # t => M[o] = N1[o]
    BY <1>10, <1>11
  <2>6. j1[top] = 0 => M[top].next = q /\ M[q].next = N1[top].next
    BY <1>1, <1>3, <1>10
  <2> QED
    BY Zenon, <1>4, <1>11, <1>12, <2>1, <2>3, <2>4, <2>5, <2>6 DEF SplitHere
<1>14. PICK Q, j, f : Tree(M, Q, j, f, t, more, d) /\ Q = R1 \union {q} /\ \A o \in R1 : j[o] = j1[o]
  BY <1>13, TreeSplit
<1>15. \A o \in R : o \in Q
  BY <1>11, <1>14
<1> QED
  BY <1>3, <1>6, <1>8, <1>14, <1>15, <1>x

\* An order of 3 or more: a node tolerates at least one key, and holds two when full.
LEMMA MinKeysFacts == MinKeys \in Nat /\ MinKeys >= 1 /\ Order - 1 >= 2
  BY OrderAssumption DEF MinKeys

\* Two writes, one after the other.
WrittenTwo(w, p, m, q, n) ==
    /\ p \in Pages /\ NodeOK(m) /\ q \in Pages /\ NodeOK(n)
    /\ w = Write(p, m) \o Write(q, n)

\* The two write_node calls of a split.
LEMMA TwoWrites ==
    ASSUME NEW w, NEW p, NEW m, NEW q, NEW n,
           WrittenTwo(w, p, m, q, n)
    PROVE  /\ w \in Seq(WriteSet) /\ DOMAIN w = 1 .. 2
           /\ w[1].page = p /\ w[1].node = m /\ w[2].page = q /\ w[2].node = n
           /\ \A i \in DOMAIN w : WellFormed(w[i].node)
<1>0. /\ p \in Pages /\ NodeOK(m) /\ q \in Pages /\ NodeOK(n)
      /\ w = Write(p, m) \o Write(q, n)
  BY DEF WrittenTwo
<1> USE <1>0
<1>1. /\ Write(p, m) \in Seq(WriteSet) /\ Len(Write(p, m)) = 1
      /\ Write(p, m)[1].page = p /\ Write(p, m)[1].node = m
  BY WriteFacts
<1>2. /\ Write(q, n) \in Seq(WriteSet) /\ Len(Write(q, n)) = 1
      /\ Write(q, n)[1].page = q /\ Write(q, n)[1].node = n
  BY WriteFacts
<1>3. PICK a, b : a = Write(p, m) /\ b = Write(q, n)
  OBVIOUS
<1>4. /\ a \in Seq(WriteSet) /\ Len(a) = 1 /\ a[1].page = p /\ a[1].node = m
      /\ b \in Seq(WriteSet) /\ Len(b) = 1 /\ b[1].page = q /\ b[1].node = n
      /\ w = a \o b
  BY <1>1, <1>2, <1>3
<1>5. /\ w \in Seq(WriteSet) /\ DOMAIN w = 1 .. 2 /\ w[1] = a[1] /\ w[2] = b[1]
  <2>1. /\ a \o b \in Seq(WriteSet)
        /\ DOMAIN (a \o b) = 1 .. Len(a) + Len(b)
        /\ \A i \in 1 .. Len(a) : (a \o b)[i] = a[i]
        /\ \A i \in Len(a) + 1 .. Len(a) + Len(b) : (a \o b)[i] = b[i - Len(a)]
    BY ONLY <1>4, Joined
  <2>2. 1 \in 1 .. 1 /\ 2 \in 1 + 1 .. 1 + 1 /\ 2 - 1 = 1 /\ 1 + 1 = 2
    OBVIOUS
  <2> QED
    BY <1>4, <2>1, <2>2
<1>6. WellFormed(m) /\ WellFormed(n)
  BY DEF NodeOK
<1> QED
  BY <1>4, <1>5, <1>6

\* split_leaf and split_internal: once their writes and the link above are done the
\* nodes are a tree of the same records.
LEMMA SplitNodeStep ==
    ASSUME IInv, SplitNode
    PROVE  IInv'
<1>0. PICK c, q, s, l : c = at /\ q = pageCount /\ s = Split(nodes[c], q) /\ l = Len(path)
  OBVIOUS
<1>1. /\ writes = << >> /\ pc = "inserted" /\ IsFull(nodes[c])
      /\ writes' = Write(c, s.left) \o Write(q, s.right)
      /\ carry' = [key |-> s.up, page |-> q]
      /\ pageCount' = q + 1 /\ pc' = "split"
      /\ UNCHANGED nodes /\ UNCHANGED root /\ UNCHANGED size /\ UNCHANGED path /\ UNCHANGED at /\ UNCHANGED dict
  BY <1>0 DEF SplitNode, Ready
<1>2. TypeOK /\ path \in Seq(Steps) /\ root \in Pages
  BY DEF IInv, TypeOK, Steps
<1>3. PICK V, R, h, g : Inner(V, R, h, g)
  BY DEF IInv
<1>4. /\ \A o \in Pages : NodeOK(nodes[o]) /\ V[o] = nodes[o]
      /\ Tree(nodes, R, h, g, root, q, dict)
      /\ q \in Int /\ q <= NumPages /\ NumPages \in Nat
  <2>1. Top = root /\ pc # "split"
    BY <1>1 DEF Top
  <2> QED
    BY <1>0, <1>1, <1>2, <1>3, <2>1, Settled
<1>5. \A o \in R : o \in Pages /\ o \in Int /\ o < q /\ h[o] \in Nat
  BY <1>4, TreeTypes
<1>6. /\ c \in R /\ l \in Nat /\ h[root] = h[c] + l
      /\ \A i \in 1 .. l :
            /\ path[i].page \in R
            /\ h[path[i].page] + i = h[c] + l + 1
            /\ path[i].pos \in 1 .. Len(nodes[path[i].page].kids)
            /\ nodes[path[i].page].kids[path[i].pos] = IF i = l THEN c ELSE path[i + 1].page
  <2>1. /\ c \in R /\ h[root] = h[c] + l
        /\ \A i \in 1 .. l :
              /\ path[i].page \in R
              /\ h[path[i].page] + i = h[c] + l + 1
              /\ path[i].pos \in 1 .. Len(V[path[i].page].kids)
              /\ V[path[i].page].kids[path[i].pos] = IF i = l THEN c ELSE path[i + 1].page
    BY <1>0, <1>1, <1>3 DEF Inner, Stacked
  <2>2. l \in Nat
    BY <1>0, <1>2
  <2>3. \A i \in 1 .. l : path[i].page \in R /\ V[path[i].page] = nodes[path[i].page]
    BY <1>4, <1>5, <2>1
  <2> QED
    BY <2>1, <2>2, <2>3
<1>7. q + l + 2 <= NumPages /\ q \in Pages /\ q + 1 \in Pages /\ q + 1 \in 1 .. NumPages
  <2>1. IsFull(V[c])
    BY <1>1, <1>4, <1>5, <1>6
  <2>2. q + l + 2 <= NumPages
    BY <1>0, <1>1, <1>3, <2>1 DEF Inner, Room
  <2>3. q >= 1
    BY <1>0, <1>2 DEF TypeOK
  <2> QED
    BY <1>4, <1>6, <2>2, <2>3 DEF Pages
<1>8. NodeOK(nodes[c]) /\ Len(nodes[c].keys) >= 2
  <2>1. NodeOK(nodes[c]) /\ Len(nodes[c].keys) \in Nat
    BY <1>4, <1>5, <1>6, FormedFacts
  <2>2. Len(nodes[c].keys) >= Order - 1
    BY <1>1 DEF IsFull
  <2> QED
    BY <2>1, <2>2, OrderAssumption
<1>9. c # q /\ c \in Pages
  BY <1>5, <1>6
<1>10. PICK t, L :
          /\ t = IF path = << >> THEN q + 1 ELSE Last(path).page
          /\ L = IF path = << >> THEN InternalNode(<<s.up>>, <<root, q>>)
                 ELSE Linked(nodes[Last(path).page], Last(path).pos, s.up, q)
  OBVIOUS
<1>11. LinkPage' = t /\ LinkNode' = L
  BY <1>1, <1>10 DEF LinkPage, LinkNode
<1>12. PICK M : M = [o \in Pages |-> IF o = c THEN s.left ELSE IF o = q THEN s.right
                                     ELSE IF o = t THEN L ELSE nodes[o]]
  OBVIOUS
<1>13. /\ t \in Pages /\ t # c /\ t # q
       /\ \E Q, j, f : /\ Tree(M, Q, j, f, Top', Count', dict)
                       /\ \A o \in R : o \in Q
                       /\ path # << >> => \A o \in R : j[o] = h[o]
       /\ s.up \in Keys /\ NodeOK(M[t]) /\ NodeOK(M[c]) /\ NodeOK(M[q])
       /\ path # << >> => t \in R /\ h[t] = h[c] + 1
  <2>1. CASE path # << >>
    <3>1. PICK n : n = Last(path).pos
      OBVIOUS
    <3>2. /\ l \in 1 .. l /\ t = path[l].page /\ n = path[l].pos
      <4>1. Last(path) = path[Len(path)] /\ Len(path) \in 1 .. Len(path)
        BY <1>2, <2>1, FrontFacts
      <4> QED
        BY <1>0, <1>10, <2>1, <3>1, <4>1
    <3>3. t \in R /\ h[t] + l = h[c] + l + 1 /\ n \in 1 .. Len(nodes[t].kids) /\ c = nodes[t].kids[n]
      BY <1>6, <3>2
    <3>4. h[t] = h[c] + 1 /\ h[t] # 0
      <4> DEFINE x == h[t]  y == h[c]
      <4>1. x \in Nat /\ y \in Nat /\ x + l = y + l + 1
        BY <1>5, <1>6, <3>3
      <4> HIDE DEF x, y
      <4>2. x = y + 1 /\ x # 0
        BY <1>6, <4>1
      <4> QED
        BY <4>2 DEF x, y
    <3>5. t \in Pages /\ t # c /\ t # q
      <4>1. t # c
        BY <1>5, <1>6, <3>4
      <4> QED
        BY <1>4, <1>5, <3>3, <4>1
    <3>6. /\ M[c] = s.left /\ M[q] = s.right /\ M[t] = Linked(nodes[t], n, s.up, q)
          /\ \A o \in R : o # c /\ o # t => M[o] = nodes[o]
      <4>1. M[t] = L /\ L = Linked(nodes[t], n, s.up, q)
        BY <1>10, <1>12, <2>1, <3>1, <3>5
      <4> QED
        BY <1>5, <1>7, <1>9, <1>12, <4>1
    <3>7. NodeOK(nodes[t]) /\ s = Split(nodes[c], q)
      BY <1>0, <1>4, <3>5
    <3>8. /\ \E Q, j, f : Tree(M, Q, j, f, root, q + 1, dict) /\ Q = R \union {q} /\ \A o \in R : j[o] = h[o]
          /\ s.up \in Keys /\ NodeOK(M[t]) /\ NodeOK(M[c]) /\ NodeOK(M[q])
      <4>1. HalvedBelow(nodes, R, h, g, root, q, dict, t, n, c, s, M)
        BY <1>4, <1>7, <1>8, <3>3, <3>4, <3>6, <3>7 DEF HalvedBelow
      <4> QED
        BY ONLY <4>1, SplitBelow
    <3>9. Top' = root /\ Count' = q + 1
      BY <1>1, <2>1 DEF Top, Count
    <3> QED
      BY <2>1, <3>3, <3>4, <3>5, <3>8, <3>9
  <2>2. CASE path = << >>
    <3>1. t = q + 1 /\ L = InternalNode(<<s.up>>, <<root, q>>)
      BY <1>10, <2>2
    <3>2. c = root
      <4>1. h[root] = h[c]
        BY <1>0, <1>5, <1>6, <2>2
      <4> QED
        BY <1>4, <1>6, <4>1, TreeTypes
    <3>3. t \in Pages /\ t # c /\ t # q
      BY <1>4, <1>5, <1>6, <1>7, <3>1
    <3>4. /\ M[root] = s.left /\ M[q] = s.right /\ M[t] = InternalNode(<<s.up>>, <<root, q>>)
          /\ \A o \in R : o # root => M[o] = nodes[o]
      <4>1. \A o \in R : o # q /\ o # t
        BY <1>4, <1>5, <3>1
      <4> QED
        BY <1>5, <1>7, <1>9, <1>12, <3>1, <3>2, <3>3, <4>1
    <3>5. NodeOK(nodes[root]) /\ Len(nodes[root].keys) >= 2 /\ s = Split(nodes[root], q)
      BY <1>0, <1>8, <3>2
    <3>6. /\ \E Q, j, f : Tree(M, Q, j, f, t, t + 1, dict) /\ (\A o \in R : o \in Q)
          /\ s.up \in Keys /\ NodeOK(M[t]) /\ NodeOK(M[root]) /\ NodeOK(M[q])
      <4>1. HalvedTop(nodes, R, h, g, root, q, dict, s, t, M)
        BY <1>4, <1>7, <3>1, <3>3, <3>4, <3>5 DEF HalvedTop
      <4> QED
        BY ONLY <4>1, SplitTop
    <3>7. Top' = t /\ Count' = t + 1
      BY <1>1, <2>2, <3>1 DEF Top, Count
    <3> QED
      BY <2>2, <3>2, <3>3, <3>6, <3>7
  <2> QED
    BY <2>1, <2>2
<1>14. PICK Q, j, f : /\ Tree(M, Q, j, f, Top', Count', dict)
                      /\ \A o \in R : o \in Q
                      /\ path # << >> => \A o \in R : j[o] = h[o]
  BY <1>13
<1>15. /\ M[c] = s.left /\ M[q] = s.right /\ M[t] = L
       /\ \A o \in Pages : o # c /\ o # q /\ o # t => M[o] = nodes[o]
  BY <1>7, <1>9, <1>12, <1>13
<1>16. /\ writes' \in Seq(WriteSet) /\ DOMAIN writes' = 1 .. 2
       /\ writes'[1].page = c /\ writes'[1].node = s.left
       /\ writes'[2].page = q /\ writes'[2].node = s.right
       /\ \A i \in DOMAIN writes' : WellFormed(writes'[i].node)
  <2>1. PICK w, m, n : w = Write(c, m) \o Write(q, n) /\ m = s.left /\ n = s.right
    OBVIOUS
  <2>2. NodeOK(m) /\ NodeOK(n) /\ c \in Pages /\ q \in Pages
    BY <1>7, <1>9, <1>13, <1>15, <2>1
  <2>3. /\ w \in Seq(WriteSet) /\ DOMAIN w = 1 .. 2
        /\ w[1].page = c /\ w[1].node = m /\ w[2].page = q /\ w[2].node = n
        /\ \A i \in DOMAIN w : WellFormed(w[i].node)
    <3>1. WrittenTwo(w, c, m, q, n)
      BY <2>1, <2>2 DEF WrittenTwo
    <3> QED
      BY ONLY <3>1, TwoWrites
  <2> QED
    BY <1>1, <2>1, <2>3
<1>17. Shows(M)'
  <2>1. \A i \in DOMAIN writes' : i = 1 \/ i = 2
    BY <1>16
  <2>2. \A o \in Pages : Pending(o)' <=> o = c \/ o = q
    BY <1>16, <2>1 DEF Pending
  <2>3. \A o \in Pages : Linking(o)' <=> o = t
    BY <1>1, <1>11 DEF Linking
  <2>4. \A o \in Pages : NodeOK(M[o])
    BY <1>4, <1>13, <1>15
  <2>5. \A o \in Pages : ~Pending(o)' /\ ~Linking(o)' => M[o] = nodes'[o]
    BY <1>1, <1>15, <2>2, <2>3
  <2>6. \A i \in DOMAIN writes' : M[writes'[i].page] = writes'[i].node
    BY <1>15, <1>16, <2>1
  <2>7. LinkPage' \in Pages /\ M[LinkPage'] = LinkNode' /\ ~Pending(LinkPage)'
    <3>1. LinkPage' \in Pages /\ M[LinkPage'] = LinkNode'
      BY <1>11, <1>13, <1>15
    <3>2. \A i \in DOMAIN writes' : writes'[i].page # LinkPage'
      BY <1>11, <1>13, <1>16, <2>1
    <3> QED
      BY <3>1, <3>2 DEF Pending
  <2> QED
    BY <2>4, <2>5, <2>6, <2>7 DEF Shows
<1>18. Stacked(M, Q, j)'
  <2>2. ASSUME NEW i \in 1 .. l
        PROVE  /\ path[i].page \in Q
               /\ j[path[i].page] + i = j[c] + l + 1
               /\ \/ i = l
                  \/ /\ path[i].pos \in 1 .. Len(M[path[i].page].kids)
                     /\ M[path[i].page].kids[path[i].pos] = IF i = l THEN c ELSE path[i + 1].page
    <3>1. path # << >>
      BY <1>0, <1>6
    <3>2. \A o \in R : o \in Q /\ j[o] = h[o]
      BY <1>14, <3>1
    <3>3. path[i].page \in R /\ h[path[i].page] + i = h[c] + l + 1
      BY <1>6
    <3>4. i # l => path[i].page # c /\ path[i].page # q /\ path[i].page # t
      <4> SUFFICES ASSUME i # l PROVE path[i].page # c /\ path[i].page # q /\ path[i].page # t
        OBVIOUS
      <4> DEFINE x == h[path[i].page]  y == h[c]
      <4>1. x \in Nat /\ y \in Nat /\ x + i = y + l + 1 /\ i < l
        BY <1>5, <1>6, <3>3
      <4> HIDE DEF x, y
      <4>2. x # y /\ x # y + 1
        BY <1>6, <4>1
      <4>3. h[path[i].page] # h[c] /\ h[path[i].page] # h[t]
        BY <1>13, <3>1, <4>2 DEF x, y
      <4> QED
        BY <1>4, <1>5, <3>3, <4>3
    <3>5. i # l => M[path[i].page] = nodes[path[i].page]
      BY <1>5, <1>15, <3>3, <3>4
    <3> QED
      BY <1>6, <3>2, <3>3, <3>5
  <2>3. c \in Q
    BY <1>6, <1>14
  <2>4. path # << >> => j[root] = j[c] + l
    <3>1. root \in R
      BY <1>4, TreeTypes
    <3> QED
      BY <1>6, <1>14, <3>1
  <2>5. path' = path /\ at' = c /\ pc' = "split" /\ root' = root /\ Len(path) = l
    BY <1>0, <1>1
  <2> QED
    BY <2>2, <2>3, <2>4, <2>5 DEF Stacked
<1>19. Room(M)'
  <2>1. (q + 1) + l + 1 <= NumPages
    BY <1>4, <1>6, <1>7
  <2> QED
    BY <1>0, <1>1, <2>1 DEF Room
<1>20. \E V1, R1, h1, g1 : Inner(V1, R1, h1, g1)'
  <2>1. Tree(M, Q, j, f, Top, Count, dict)'
    BY <1>1, <1>14
  <2> QED
    BY <1>17, <1>18, <1>19, <2>1 DEF Inner
<1>21. TypeOK'
  <2>1. carry' \in [key : Keys \union {0}, page : Pages]
    BY <1>1, <1>7, <1>13
  <2> QED
    BY <1>1, <1>2, <1>7, <1>16, <2>1 DEF TypeOK, WriteSet
<1>22. SizeFits'
  <2>1. Present' = Present
    BY <1>1 DEF Present
  <2> QED
    BY <1>1, <2>1 DEF IInv, SizeFits
<1> QED
  BY <1>1, <1>20, <1>21, <1>22 DEF IInv

\* The parent of a merge is a node again.
LEMMA KeyDropped ==
    ASSUME NEW n, NodeOK(n), ~n.leaf, NEW i \in 1 .. Len(n.keys), NEW m,
           m = [n EXCEPT !.keys = RemoveAt(n.keys, i), !.kids = RemoveAt(n.kids, i + 1)]
    PROVE  /\ NodeOK(m) /\ m.leaf = n.leaf
           /\ m.keys = RemoveAt(n.keys, i) /\ m.kids = RemoveAt(n.kids, i + 1)
<1>0. PICK k : k = i + 1
  OBVIOUS
<1>1. /\ n \in NodeSet /\ n.keys \in Seq(Keys) /\ n.kids \in Seq(Pages) /\ n.recs = << >>
      /\ Len(n.kids) = Len(n.keys) + 1 /\ Len(n.keys) \in Nat
  BY FormedFacts
<1> DEFINE s == n.keys  e == n.kids  a == RemoveAt(s, i)  c == RemoveAt(e, k)
<1>2. s \in Seq(Keys) /\ e \in Seq(Pages) /\ i \in 1 .. Len(s) /\ k \in 1 .. Len(e) /\ Len(e) = Len(s) + 1 /\ Len(s) \in Nat
  BY <1>0, <1>1
<1>3. m = [n EXCEPT !.keys = a, !.kids = c]
  BY <1>0
<1> HIDE DEF s, e
<1>4. a \in Seq(Keys) /\ Len(a) = Len(s) - 1
  BY ONLY <1>2, RemoveFacts
<1>5. c \in Seq(Pages) /\ Len(c) = Len(e) - 1
  BY ONLY <1>2, RemoveFacts
<1> HIDE DEF a, c
<1>6. m \in NodeSet /\ m.leaf = n.leaf /\ m.keys = a /\ m.kids = c /\ m.recs = << >>
  BY <1>1, <1>3, <1>4, <1>5 DEF NodeSet
<1>7. Len(c) = Len(a) + 1
  BY <1>2, <1>4, <1>5
<1>8. WellFormed(m)
  BY <1>6, <1>7 DEF WellFormed
<1> QED
  BY <1>0, <1>6, <1>8 DEF NodeOK, a, c, s, e

\* The writes W turn the nodes into M, a tree of the same records, in which the
\* pages above p are as they were.
Rebalanced(W, p, R, h, M, Q, f) ==
    /\ W \in Seq(WriteSet)
    /\ \A i \in DOMAIN W : M[W[i].page] = W[i].node
    /\ \A o \in Pages : NodeOK(M[o])
    /\ \A o \in Pages : (\A i \in DOMAIN W : W[i].page # o) => M[o] = nodes[o]
    /\ Tree(M, Q, h, f, root, pageCount, dict)
    /\ p \in Q
    /\ \A o \in R : h[o] >= h[p] /\ o # p => o \in Q /\ M[o] = nodes[o]

\* Three write_node calls.
Three(W, p, m, q, n, r, o) ==
    /\ W \in Seq(WriteSet) /\ DOMAIN W = 1 .. 3
    /\ W[1].page = p /\ W[1].node = m
    /\ W[2].page = q /\ W[2].node = n
    /\ W[3].page = r /\ W[3].node = o

\* The three write_node calls of a borrow.
LEMMA ThreeWrites ==
    ASSUME NEW p \in Pages, NEW q \in Pages, NEW r \in Pages, NEW m, NodeOK(m), NEW n, NodeOK(n),
           NEW o, NodeOK(o), NEW W, W = Write(p, m) \o Write(q, n) \o Write(r, o)
    PROVE  Three(W, p, m, q, n, r, o)
<1>1. PICK w, v : w = Write(p, m) \o Write(q, n) /\ v = Write(r, o)
  OBVIOUS
<1>2. /\ w \in Seq(WriteSet) /\ DOMAIN w = 1 .. 2
      /\ w[1].page = p /\ w[1].node = m /\ w[2].page = q /\ w[2].node = n
  <2>1. WrittenTwo(w, p, m, q, n)
    BY <1>1 DEF WrittenTwo
  <2> QED
    BY <2>1, TwoWrites
<1>3. v \in Seq(WriteSet) /\ Len(v) = 1 /\ v[1].page = r /\ v[1].node = o
  BY <1>1, WriteFacts
<1>4. Len(w) = 2
  BY <1>2
<1>5. /\ w \o v \in Seq(WriteSet) /\ Len(w \o v) = Len(w) + Len(v)
      /\ DOMAIN (w \o v) = 1 .. Len(w) + Len(v)
      /\ \A i \in 1 .. Len(w) : (w \o v)[i] = w[i]
      /\ \A i \in Len(w) + 1 .. Len(w) + Len(v) : (w \o v)[i] = v[i - Len(w)]
  BY <1>2, <1>3, Joined
<1>6. W = w \o v
  BY <1>1
<1>7. /\ 1 \in 1 .. 2 /\ 2 \in 1 .. 2 /\ 3 \in 2 + 1 .. 2 + 1 /\ 3 - 2 = 1 /\ 2 + 1 = 3
  OBVIOUS
<1>8. W \in Seq(WriteSet) /\ DOMAIN W = 1 .. 3 /\ W[1] = w[1] /\ W[2] = w[2] /\ W[3] = v[1]
  BY <1>3, <1>4, <1>5, <1>6, <1>7
<1> QED
  BY <1>2, <1>3, <1>8 DEF Three

\* Between calls, or with the writes of a step done.
Here(R, h, g) ==
    /\ Tree(nodes, R, h, g, root, pageCount, dict)
    /\ pageCount \in Int /\ \A o \in Pages : NodeOK(nodes[o])

\* The children a and b of p are written with the border between them at x.
Shifting(R, h, g, p, n, a, b, x, P, A, B, W) ==
    /\ Here(R, h, g)
    /\ p \in R /\ h[p] # 0 /\ n \in 1 .. Len(nodes[p].keys)
    /\ a = nodes[p].kids[n] /\ b = nodes[p].kids[n + 1]
    /\ Parted(A, B, x, h[a], g[a] \union g[b], Level(R, h, h[a]), g, dict)
    /\ P = [nodes[p] EXCEPT !.keys[n] = x]
    /\ h[a] = 0 => A.next = nodes[a].next /\ B.next = nodes[b].next
    /\ \/ W = Write(p, P) \o Write(a, A) \o Write(b, B)
       \/ W = Write(p, P) \o Write(b, B) \o Write(a, A)

\* The writes of a borrow leave a tree.
LEMMA ShiftWorks ==
    ASSUME NEW R, NEW h, NEW g, NEW p, NEW n, NEW a, NEW b, NEW x, NEW P, NEW A, NEW B, NEW W,
           Shifting(R, h, g, p, n, a, b, x, P, A, B, W)
    PROVE  \E M, Q, f : Rebalanced(W, p, R, h, M, Q, f)
<1>1. /\ Tree(nodes, R, h, g, root, pageCount, dict)
      /\ pageCount \in Int /\ \A o \in Pages : NodeOK(nodes[o])
      /\ p \in R /\ h[p] # 0 /\ n \in 1 .. Len(nodes[p].keys)
      /\ a = nodes[p].kids[n] /\ b = nodes[p].kids[n + 1]
      /\ Parted(A, B, x, h[a], g[a] \union g[b], Level(R, h, h[a]), g, dict)
      /\ P = [nodes[p] EXCEPT !.keys[n] = x]
      /\ h[a] = 0 => A.next = nodes[a].next /\ B.next = nodes[b].next
      /\ \/ W = Write(p, P) \o Write(a, A) \o Write(b, B)
         \/ W = Write(p, P) \o Write(b, B) \o Write(a, A)
  BY Zenon DEF Shifting, Here
<1>2. /\ a \in R /\ b \in R /\ a # b /\ a # p /\ b # p /\ h[a] + 1 = h[p] /\ h[b] = h[a] /\ h[a] \in Nat
  <2>1. /\ Tree(nodes, R, h, g, root, pageCount, dict) /\ p \in R /\ h[p] # 0
        /\ n \in 1 .. Len(nodes[p].keys)
        /\ a = nodes[p].kids[n] /\ b = nodes[p].kids[n + 1]
    BY Zenon, <1>1
  <2> QED
    BY ONLY <2>1, Siblings
<1>3. \A o \in R : o \in Pages /\ h[o] \in Nat
  <2>1. Tree(nodes, R, h, g, root, pageCount, dict)
    BY ZenonT(30), <1>1
  <2> QED
    BY ONLY <2>1, TreeTypes
<1>4. x \in Keys /\ NodeOK(A) /\ NodeOK(B)
  BY ZenonT(30), <1>1 DEF Parted
<1>5. ~nodes[p].leaf /\ NodeOK(nodes[p])
  BY ZenonT(30), <1>1, <1>3, KidFacts
<1>6. NodeOK(P) /\ P.leaf = nodes[p].leaf /\ P.keys = [nodes[p].keys EXCEPT ![n] = x] /\ P.kids = nodes[p].kids
  <2>1. PICK m : m = nodes[p]
    OBVIOUS
  <2>2. NodeOK(m) /\ ~m.leaf /\ n \in 1 .. Len(m.keys) /\ x \in Keys /\ P = [m EXCEPT !.keys[n] = x]
    BY Zenon, <1>1, <1>4, <1>5, <2>1
  <2>3. /\ m \in NodeSet /\ m.keys \in Seq(Keys) /\ m.recs = << >> /\ Len(m.kids) = Len(m.keys) + 1
    BY <2>2, FormedFacts
  <2> DEFINE k == [m.keys EXCEPT ![n] = x]
  <2>4. k \in Seq(Keys) /\ Len(k) = Len(m.keys) /\ P = [m EXCEPT !.keys = k]
    BY <2>2, <2>3
  <2> HIDE DEF k
  <2>5. P \in NodeSet /\ P.leaf = m.leaf /\ P.keys = k /\ P.kids = m.kids /\ P.recs = << >>
    BY <2>3, <2>4 DEF NodeSet
  <2>6. WellFormed(P)
    BY <2>2, <2>3, <2>4, <2>5 DEF WellFormed
  <2> QED
    BY <2>1, <2>5, <2>6 DEF NodeOK, k
<1>7. PICK M : M = [o \in Pages |-> IF o = p THEN P ELSE IF o = a THEN A ELSE IF o = b THEN B ELSE nodes[o]]
  BY Zenon
<1>8. /\ M[p] = P /\ M[a] = A /\ M[b] = B
      /\ \A o \in Pages : o # p /\ o # a /\ o # b => M[o] = nodes[o]
  BY Zenon, <1>1, <1>2, <1>3, <1>7
<1>9. PICK f : Tree(M, R, h, f, root, pageCount, dict)
  <2>1. \A o \in R : o # a /\ o # b /\ o # p => M[o] = nodes[o]
    BY <1>3, <1>8
  <2>3. h[a] = 0 => M[a].next = nodes[a].next /\ M[b].next = nodes[b].next
    BY Zenon, <1>1, <1>8
  <2>4. Parted(M[a], M[b], x, h[a], g[a] \union g[b], Level(R, h, h[a]), g, dict)
    BY Zenon, <1>1, <1>8
  <2>2. ShiftHere(nodes, R, h, g, root, pageCount, dict, p, n, a, b, x, M)
    BY ZenonT(30), <1>1, <1>6, <1>8, <2>1, <2>3, <2>4 DEF ShiftHere
  <2> QED
    BY <2>2, TreeShift
<1>w. Three(W, p, P, a, A, b, B) \/ Three(W, p, P, b, B, a, A)
  <2>1. p \in Pages /\ a \in Pages /\ b \in Pages
    BY Zenon, <1>1, <1>2, <1>3
  <2> QED
    BY ZenonT(30), <1>1, <1>4, <1>6, <2>1, ThreeWrites
<1>10. W \in Seq(WriteSet) /\ DOMAIN W = 1 .. 3
  BY <1>w DEF Three
<1>11. /\ \A i \in DOMAIN W : i = 1 \/ i = 2 \/ i = 3
       /\ 1 \in DOMAIN W /\ 2 \in DOMAIN W /\ 3 \in DOMAIN W
  BY <1>10
<1>12. \A i \in DOMAIN W : M[W[i].page] = W[i].node
  BY <1>w, <1>8, <1>11 DEF Three
<1>13. \A o \in Pages : (\A i \in DOMAIN W : W[i].page # o) => M[o] = nodes[o]
  BY <1>w, <1>8, <1>11 DEF Three
<1>14. \A o \in Pages : NodeOK(M[o])
  BY Zenon, <1>1, <1>4, <1>6, <1>8
<1>15. \A o \in R : h[o] >= h[p] /\ o # p => o \in R /\ M[o] = nodes[o]
  <2> SUFFICES ASSUME NEW o \in R, h[o] >= h[p], o # p PROVE o # a /\ o # b
    BY <1>3, <1>8
  <2> DEFINE y == h[a]  z == h[p]  u == h[o]
  <2>1. y \in Nat /\ z \in Nat /\ u \in Nat /\ y + 1 = z /\ u >= z
    BY Zenon, <1>1, <1>2, <1>3
  <2> HIDE DEF y, z, u
  <2>2. u # y
    BY <2>1
  <2> QED
    BY <1>2, <2>2 DEF y, u
<1>16. Rebalanced(W, p, R, h, M, R, f)
  BY Zenon, <1>1, <1>9, <1>10, <1>12, <1>13, <1>14, <1>15 DEF Rebalanced
<1> QED
  BY <1>16

\* The child a of p is written with what its neighbour b holds.
Merging(R, h, g, p, n, a, b, P, A, W) ==
    /\ Here(R, h, g)
    /\ p \in R /\ h[p] # 0 /\ n \in 1 .. Len(nodes[p].keys)
    /\ a = nodes[p].kids[n] /\ b = nodes[p].kids[n + 1]
    /\ h[a] = 0 => A.next = nodes[b].next
    /\ NodeOK(A) /\ NodeHolds(A, h[a], g[a] \union g[b], Level(R, h, h[a]), g, dict)
    /\ P = [nodes[p] EXCEPT !.keys = RemoveAt(nodes[p].keys, n), !.kids = RemoveAt(nodes[p].kids, n + 1)]
    /\ W = Write(a, A) \o Write(p, P)

\* The writes of a merge leave a tree.
LEMMA MergeWorks ==
    ASSUME NEW R, NEW h, NEW g, NEW p, NEW n, NEW a, NEW b, NEW P, NEW A, NEW W,
           Merging(R, h, g, p, n, a, b, P, A, W)
    PROVE  \E M, Q, f : Rebalanced(W, p, R, h, M, Q, f)
<1>1. /\ Tree(nodes, R, h, g, root, pageCount, dict)
      /\ pageCount \in Int /\ \A o \in Pages : NodeOK(nodes[o])
      /\ p \in R /\ h[p] # 0 /\ n \in 1 .. Len(nodes[p].keys)
      /\ a = nodes[p].kids[n] /\ b = nodes[p].kids[n + 1]
      /\ h[a] = 0 => A.next = nodes[b].next
      /\ NodeOK(A) /\ NodeHolds(A, h[a], g[a] \union g[b], Level(R, h, h[a]), g, dict)
      /\ P = [nodes[p] EXCEPT !.keys = RemoveAt(nodes[p].keys, n), !.kids = RemoveAt(nodes[p].kids, n + 1)]
      /\ W = Write(a, A) \o Write(p, P)
  BY DEF Merging, Here
<1>2. /\ a \in R /\ b \in R /\ a # b /\ a # p /\ b # p /\ h[a] + 1 = h[p] /\ h[b] = h[a] /\ h[a] \in Nat
  <2>1. /\ Tree(nodes, R, h, g, root, pageCount, dict) /\ p \in R /\ h[p] # 0
        /\ n \in 1 .. Len(nodes[p].keys)
        /\ a = nodes[p].kids[n] /\ b = nodes[p].kids[n + 1]
    BY Zenon, <1>1
  <2> QED
    BY ONLY <2>1, Siblings
<1>3. \A o \in R : o \in Pages /\ h[o] \in Nat
  BY ONLY <1>1, TreeTypes
<1>5. ~nodes[p].leaf /\ NodeOK(nodes[p])
  <2>1. ~nodes[p].leaf
    BY ONLY <1>1, KidFacts
  <2> QED
    BY Zenon, <1>1, <1>3, <2>1
<1>6. /\ NodeOK(P) /\ P.leaf = nodes[p].leaf /\ P.keys = RemoveAt(nodes[p].keys, n)
      /\ P.kids = RemoveAt(nodes[p].kids, n + 1)
  <2>1. PICK m : m = nodes[p]
    BY Zenon
  <2>2. /\ NodeOK(m) /\ ~m.leaf /\ n \in 1 .. Len(m.keys)
        /\ P = [m EXCEPT !.keys = RemoveAt(m.keys, n), !.kids = RemoveAt(m.kids, n + 1)]
    BY <1>1, <1>5, <2>1
  <2>3. /\ NodeOK(P) /\ P.leaf = m.leaf /\ P.keys = RemoveAt(m.keys, n)
        /\ P.kids = RemoveAt(m.kids, n + 1)
    BY ONLY ZenonT(30), <2>2, KeyDropped
  <2> QED
    BY Zenon, <2>1, <2>3
<1>7. PICK M : M = [o \in Pages |-> IF o = p THEN P ELSE IF o = a THEN A ELSE nodes[o]]
  BY Zenon
<1>p. p \in Pages /\ a \in Pages
  BY Zenon, <1>1, <1>2, <1>3
<1>8. /\ M[p] = P /\ M[a] = A /\ \A o \in Pages : o # p /\ o # a => M[o] = nodes[o]
  BY ONLY <1>2, <1>7, <1>p
<1>9. PICK Q, f : Tree(M, Q, h, f, root, pageCount, dict) /\ Q = R \ {b}
  <2>1. \A o \in R : o # a /\ o # b /\ o # p => M[o] = nodes[o]
    BY <1>3, <1>8
  <2>2. NodeHolds(M[a], h[a], g[a] \union g[b], Level(R, h, h[a]), g, dict)
    BY <1>1, <1>8
  <2>4. h[a] = 0 => M[a].next = nodes[b].next
    BY Zenon, <1>1, <1>8
  <2>3. MergeHere(nodes, R, h, g, root, pageCount, dict, p, n, a, b, M)
    BY Zenon, <1>1, <1>6, <1>8, <2>1, <2>2, <2>4 DEF MergeHere
  <2> QED
    BY <2>3, TreeMerge
<1>10. /\ W \in Seq(WriteSet) /\ DOMAIN W = 1 .. 2
       /\ W[1].page = a /\ W[1].node = A /\ W[2].page = p /\ W[2].node = P
  <2>1. WrittenTwo(W, a, A, p, P)
    BY <1>1, <1>2, <1>3, <1>6 DEF WrittenTwo
  <2> QED
    BY ONLY ZenonT(30), <2>1, TwoWrites
<1>11. /\ \A i \in DOMAIN W : i = 1 \/ i = 2
       /\ 1 \in DOMAIN W /\ 2 \in DOMAIN W
  BY <1>10
<1>12. \A i \in DOMAIN W : M[W[i].page] = W[i].node
  BY ONLY <1>8, <1>10, <1>11
<1>13. \A o \in Pages : (\A i \in DOMAIN W : W[i].page # o) => M[o] = nodes[o]
  BY ONLY <1>8, <1>10, <1>11
<1>o. NodeOK(A) /\ NodeOK(P) /\ \A o \in Pages : NodeOK(nodes[o])
  BY Zenon, <1>1, <1>6
<1>14. \A o \in Pages : NodeOK(M[o])
  BY ONLY <1>8, <1>o
<1>15. \A o \in R : h[o] >= h[p] /\ o # p => o \in Q /\ M[o] = nodes[o]
  <2>0. SUFFICES ASSUME NEW o \in R, h[o] >= h[p], o # p PROVE o # a /\ o # b
    BY Zenon, <1>3, <1>8, <1>9
  <2>1. PICK y, z, u : y = h[a] /\ z = h[p] /\ u = h[o]
    BY Zenon
  <2>2. y \in Nat /\ z \in Nat /\ u \in Nat /\ y + 1 = z /\ u >= z
    <3>1. h[p] \in Nat /\ h[o] \in Nat
      BY ONLY <1>1, <1>3, <2>0
    <3> QED
      BY ONLY <1>2, <2>0, <2>1, <3>1
  <2>3. u # y
    BY ONLY <2>2
  <2> QED
    BY ONLY Zenon, <1>2, <2>1, <2>3
<1>16. p \in Q
  BY ONLY Zenon, <1>1, <1>2, <1>9
<1>17. Rebalanced(W, p, R, h, M, Q, f)
  BY ONLY Zenon, <1>9, <1>10, <1>12, <1>13, <1>14, <1>15, <1>16 DEF Rebalanced
<1> QED
  BY ONLY <1>17

\* The n-th child of p, a, and the next one, b.
Neighbours(R, h, g, p, n, a, b) ==
    /\ Here(R, h, g)
    /\ p \in R /\ h[p] # 0 /\ n \in 1 .. Len(nodes[p].keys)
    /\ a = nodes[p].kids[n] /\ b = nodes[p].kids[n + 1]

\* Two siblings and their parent: what the borrows and the merge need to know of them.
LEMMA NeighbourFacts ==
    ASSUME NEW R, NEW h, NEW g, NEW p, NEW n, NEW a, NEW b, Neighbours(R, h, g, p, n, a, b)
    PROVE  /\ a \in Pages /\ b \in Pages /\ p \in Pages
           /\ NodeOK(nodes[a]) /\ NodeOK(nodes[b]) /\ NodeOK(nodes[p])
           /\ g[a] \in SUBSET Int /\ g[b] \in SUBSET Int /\ g[a] # {}
           /\ NodeHolds(nodes[a], h[a], g[a], Level(R, h, h[a]), g, dict)
           /\ NodeHolds(nodes[b], h[a], g[b], Level(R, h, h[a]), g, dict)
           /\ \A q \in Level(R, h, h[a]) : g[q] \subseteq Int /\ g[q] # {}
           /\ n \in 1 .. Len(nodes[p].keys)
           /\ nodes[p].keys[n] \in Keys /\ nodes[p].keys[n] \in g[b]
           /\ \A k \in g[a] : k < nodes[p].keys[n]
           /\ \A k \in g[b] : nodes[p].keys[n] <= k
<1>1. /\ Tree(nodes, R, h, g, root, pageCount, dict) /\ \A o \in Pages : NodeOK(nodes[o])
      /\ p \in R /\ h[p] # 0 /\ n \in 1 .. Len(nodes[p].keys)
      /\ a = nodes[p].kids[n] /\ b = nodes[p].kids[n + 1]
  BY DEF Neighbours, Here
<1>2. /\ a \in R /\ b \in R /\ h[b] = h[a] /\ h[a] \in Nat
      /\ g[a] \subseteq Int /\ g[b] \subseteq Int /\ g[a] # {} /\ g[b] # {}
      /\ nodes[p].keys[n] \in Keys /\ nodes[p].keys[n] \in g[b]
      /\ \A k \in g[a] : k < nodes[p].keys[n]
      /\ \A k \in g[b] : nodes[p].keys[n] <= k
  <2>1. /\ Tree(nodes, R, h, g, root, pageCount, dict) /\ p \in R /\ h[p] # 0
        /\ n \in 1 .. Len(nodes[p].keys)
        /\ a = nodes[p].kids[n] /\ b = nodes[p].kids[n + 1]
    BY <1>1
  <2> QED
    BY ONLY <2>1, Siblings
<1>3. \A o \in R : /\ o \in Pages /\ g[o] \subseteq Int /\ g[o] # {}
                   /\ NodeHolds(nodes[o], h[o], g[o], Level(R, h, h[o]), g, dict)
  BY <1>1, TreeTypes
<1>4. \A q \in Level(R, h, h[a]) : g[q] \subseteq Int /\ g[q] # {}
  BY <1>3 DEF Level
<1>5. /\ NodeHolds(nodes[a], h[a], g[a], Level(R, h, h[a]), g, dict)
      /\ NodeHolds(nodes[b], h[a], g[b], Level(R, h, h[a]), g, dict)
  <2>1. NodeHolds(nodes[b], h[b], g[b], Level(R, h, h[b]), g, dict)
    BY <1>2, <1>3
  <2> QED
    BY <1>2, <1>3, <2>1
<1> QED
  BY <1>1, <1>2, <1>3, <1>4, <1>5

\* borrow_from_right leaves a tree of the same records.
LEMMA BorrowRightWorks ==
    ASSUME NEW R, NEW h, NEW g, NEW p, NEW n, NEW a, NEW b, Neighbours(R, h, g, p, n, a, b),
           Len(nodes[b].keys) >= 2, NEW m, m = BorrowFromRight(nodes[p], n, nodes[a], nodes[b]),
           NEW W, W = Write(p, m.parent) \o Write(a, m.child) \o Write(b, m.sibling)
    PROVE  \E M, Q, f : Rebalanced(W, p, R, h, M, Q, f)
<1>1. PICK A, B, l, S, T, C, o, x :
         /\ A = nodes[a] /\ B = nodes[b] /\ l = h[a] /\ S = g[a] /\ T = g[b]
         /\ C = Level(R, h, h[a]) /\ o = nodes[p] /\ x = m.parent.keys[n]
  OBVIOUS
<1>2. /\ NodeOK(A) /\ NodeOK(B) /\ NodeOK(o) /\ S \in SUBSET Int /\ T \in SUBSET Int /\ S # {}
      /\ NodeHolds(A, l, S, C, g, dict) /\ NodeHolds(B, l, T, C, g, dict)
      /\ \A q \in C : g[q] \subseteq Int /\ g[q] # {}
      /\ n \in 1 .. Len(o.keys) /\ o.keys[n] \in T
      /\ \A k \in S : k < o.keys[n]
      /\ \A k \in T : o.keys[n] <= k
  BY <1>1, NeighbourFacts
<1>3. Len(B.keys) >= 2 /\ m = BorrowFromRight(o, n, A, B) /\ x = m.parent.keys[n]
  BY <1>1
<1>4. Parted(m.child, m.sibling, x, l, S \union T, C, g, dict)
  BY ONLY ZenonT(30), <1>2, <1>3, BorrowRight
<1>5. m.parent = [o EXCEPT !.keys[n] = x]
  <2>y. PICK y : y = IF A.leaf THEN B.keys[2] ELSE Head(B.keys)
    OBVIOUS
  <2>1. m.parent = [o EXCEPT !.keys[n] = y]
    <3>1. CASE A.leaf
      <4>1. m.parent = [o EXCEPT !.keys[n] = B.keys[2]]
        BY ONLY <1>3, <3>1 DEF BorrowFromRight
      <4>2. y = B.keys[2]
        BY <2>y, <3>1
      <4> QED
        BY <4>1, <4>2
    <3>2. CASE ~A.leaf
      <4>1. m.parent = [o EXCEPT !.keys[n] = Head(B.keys)]
        BY ONLY <1>3, <3>2 DEF BorrowFromRight
      <4>2. y = Head(B.keys)
        BY <2>y, <3>2
      <4> QED
        BY <4>1, <4>2
    <3> QED
      BY <3>1, <3>2
  <2>2. o \in NodeSet /\ o.keys \in Seq(Keys)
    BY <1>2, FormedFacts
  <2>3. [o EXCEPT !.keys[n] = y].keys[n] = y
    BY <1>2, <2>2 DEF NodeSet
  <2> QED
    BY <1>3, <2>1, <2>3
<1>7. l = 0 => m.child.next = A.next /\ m.sibling.next = B.next
  <2>1. l = 0 => A.leaf /\ B.leaf
    BY <1>2 DEF NodeHolds
  <2> SUFFICES ASSUME A.leaf, B.leaf PROVE m.child.next = A.next /\ m.sibling.next = B.next
    BY <2>1
  <2>2. A \in NodeSet /\ B \in NodeSet
    BY <1>2 DEF NodeOK
  <2>3. PICK a1, a2, b1, b2 : /\ a1 = Append(A.keys, Head(B.keys)) /\ a2 = Append(A.recs, Head(B.recs))
                              /\ b1 = Tail(B.keys) /\ b2 = Tail(B.recs)
    OBVIOUS
  <2>4. /\ m.child = [A EXCEPT !.keys = a1, !.recs = a2]
        /\ m.sibling = [B EXCEPT !.keys = b1, !.recs = b2]
    <3>1. PICK y, z : y = Head(B.keys) /\ z = [o EXCEPT !.keys[n] = B.keys[2]]
      BY Zenon
    <3>2. m = [parent |-> z, child |-> [A EXCEPT !.keys = Append(A.keys, y), !.recs = a2],
               sibling |-> [B EXCEPT !.keys = b1, !.recs = b2]]
      BY Zenon, <1>3, <2>3, <3>1 DEF BorrowFromRight
    <3> QED
      BY <2>3, <3>1, <3>2
  <2> QED
    BY <2>2, <2>4 DEF NodeSet
<1>6. Shifting(R, h, g, p, n, a, b, x, m.parent, m.child, m.sibling, W)
  BY Zenon, <1>1, <1>4, <1>5, <1>7 DEF Shifting, Neighbours
<1> QED
  BY ONLY <1>6, ShiftWorks

\* borrow_from_left leaves a tree of the same records.
LEMMA BorrowLeftWorks ==
    ASSUME NEW R, NEW h, NEW g, NEW p, NEW n, NEW a, NEW b, Neighbours(R, h, g, p, n, a, b),
           Len(nodes[a].keys) >= 2, NEW m, m = BorrowFromLeft(nodes[p], n, nodes[a], nodes[b]),
           NEW W, W = Write(p, m.parent) \o Write(b, m.child) \o Write(a, m.sibling)
    PROVE  \E M, Q, f : Rebalanced(W, p, R, h, M, Q, f)
<1>1. PICK A, B, l, S, T, C, o, x :
         /\ A = nodes[a] /\ B = nodes[b] /\ l = h[a] /\ S = g[a] /\ T = g[b]
         /\ C = Level(R, h, h[a]) /\ o = nodes[p] /\ x = m.parent.keys[n]
  OBVIOUS
<1>2. /\ NodeOK(A) /\ NodeOK(B) /\ NodeOK(o) /\ S \in SUBSET Int /\ T \in SUBSET Int
      /\ NodeHolds(A, l, S, C, g, dict) /\ NodeHolds(B, l, T, C, g, dict)
      /\ \A q \in C : g[q] \subseteq Int /\ g[q] # {}
      /\ n \in 1 .. Len(o.keys) /\ o.keys[n] \in T
      /\ \A k \in S : k < o.keys[n]
      /\ \A k \in T : o.keys[n] <= k
  BY <1>1, NeighbourFacts
<1>3. Len(A.keys) >= 2 /\ m = BorrowFromLeft(o, n, A, B) /\ x = m.parent.keys[n]
  BY <1>1
<1>4. Parted(m.sibling, m.child, x, l, S \union T, C, g, dict)
  BY ONLY ZenonT(30), <1>2, <1>3, BorrowLeft
<1>5. m.parent = [o EXCEPT !.keys[n] = x]
  <2>y. PICK y : y = Last(A.keys)
    BY Zenon
  <2>1. m.parent = [o EXCEPT !.keys[n] = y]
    BY <1>3, <2>y DEF BorrowFromLeft
  <2>2. o \in NodeSet /\ o.keys \in Seq(Keys)
    BY <1>2, FormedFacts
  <2>3. [o EXCEPT !.keys[n] = y].keys[n] = y
    BY <1>2, <2>2 DEF NodeSet
  <2> QED
    BY <1>3, <2>1, <2>3
<1>7. l = 0 => m.sibling.next = A.next /\ m.child.next = B.next
  <2>1. l = 0 => A.leaf /\ B.leaf
    BY <1>2 DEF NodeHolds
  <2> SUFFICES ASSUME A.leaf, B.leaf PROVE m.sibling.next = A.next /\ m.child.next = B.next
    BY <2>1
  <2>2. A \in NodeSet /\ B \in NodeSet
    BY <1>2 DEF NodeOK
  <2>3. PICK a1, a2, b1, b2 : /\ a1 = Front(A.keys) /\ a2 = Front(A.recs)
                              /\ b1 = <<Last(A.keys)>> \o B.keys /\ b2 = <<Last(A.recs)>> \o B.recs
    OBVIOUS
  <2>4. /\ m.sibling = [A EXCEPT !.keys = a1, !.recs = a2]
        /\ m.child = [B EXCEPT !.keys = b1, !.recs = b2]
    BY <1>3, <2>3 DEF BorrowFromLeft
  <2> QED
    BY <2>2, <2>4 DEF NodeSet
<1>6. Shifting(R, h, g, p, n, a, b, x, m.parent, m.sibling, m.child, W)
  BY Zenon, <1>1, <1>4, <1>5, <1>7 DEF Shifting, Neighbours
<1> QED
  BY ONLY <1>6, ShiftWorks

\* merge leaves a tree of the same records.
LEMMA MergedWorks ==
    ASSUME NEW R, NEW h, NEW g, NEW p, NEW n, NEW a, NEW b, Neighbours(R, h, g, p, n, a, b),
           NEW m, m = Merge(nodes[p], n, nodes[a], nodes[b]),
           NEW W, W = Write(a, m.left) \o Write(p, m.parent)
    PROVE  \E M, Q, f : Rebalanced(W, p, R, h, M, Q, f)
<1>1. PICK A, B, l, S, T, C, o, x :
         /\ A = nodes[a] /\ B = nodes[b] /\ l = h[a] /\ S = g[a] /\ T = g[b]
         /\ C = Level(R, h, h[a]) /\ o = nodes[p] /\ x = nodes[p].keys[n]
  OBVIOUS
<1>2. /\ NodeOK(A) /\ NodeOK(B) /\ S \in SUBSET Int /\ T \in SUBSET Int
      /\ NodeHolds(A, l, S, C, g, dict) /\ NodeHolds(B, l, T, C, g, dict)
      /\ \A q \in C : g[q] \subseteq Int /\ g[q] # {}
      /\ x \in Keys /\ x \in T
      /\ \A k \in S : k < x
      /\ \A k \in T : x <= k
  BY <1>1, NeighbourFacts
<1>3. PICK L : L = (IF A.leaf THEN LeafNode(A.keys \o B.keys, A.recs \o B.recs, B.next)
                    ELSE InternalNode(A.keys \o <<x>> \o B.keys, A.kids \o B.kids))
  OBVIOUS
<1>4. NodeOK(L) /\ NodeHolds(L, l, S \union T, C, g, dict)
  BY ONLY ZenonT(30), <1>2, <1>3, NodeJoin
<1>5. /\ m.left = L
      /\ m.parent = [o EXCEPT !.keys = RemoveAt(o.keys, n), !.kids = RemoveAt(o.kids, n + 1)]
  BY <1>1, <1>3 DEF Merge
<1>7. l = 0 => m.left.next = B.next
  <2>1. l = 0 => A.leaf
    BY <1>2 DEF NodeHolds
  <2> QED
    BY <1>3, <1>5, <2>1 DEF LeafNode
<1>6. Merging(R, h, g, p, n, a, b, m.parent, m.left, W)
  BY Zenon, <1>1, <1>4, <1>5, <1>7 DEF Merging, Neighbours
<1> QED
  BY ONLY <1>6, MergeWorks

\* rebalance, whichever of the four it chooses.
LEMMA RebalanceWorks ==
    ASSUME NEW R, NEW h, NEW g, NEW p, NEW n, NEW W, Here(R, h, g), p \in R, h[p] # 0,
           n \in 1 .. Len(nodes[p].kids), Len(nodes[p].kids) # 1, W = Rebalance(p, n)
    PROVE  \E M, Q, f : Rebalanced(W, p, R, h, M, Q, f)
<1>0. PICK o, s : o = nodes[p] /\ s = o.kids
  OBVIOUS
<1>1. /\ Tree(nodes, R, h, g, root, pageCount, dict)
      /\ \A q \in Pages : NodeOK(nodes[q])
  BY DEF Here
<1>2. /\ p \in Pages /\ Len(s) = Len(o.keys) + 1 /\ Len(o.keys) \in Nat /\ Len(s) \in Nat
      /\ \A i \in 1 .. Len(s) : s[i] \in Pages
  <2>1. p \in Pages
    BY ONLY <1>1, p \in R, TreeTypes
  <2>2. ~nodes[p].leaf
    BY <1>1, KidFacts
  <2>3. NodeOK(o) /\ ~o.leaf
    BY <1>0, <1>1, <2>1, <2>2
  <2>4. s \in Seq(Pages) /\ Len(s) = Len(o.keys) + 1 /\ Len(o.keys) \in Nat /\ Len(s) \in Nat
    BY <1>0, <2>3, FormedFacts
  <2> QED
    BY <2>1, <2>4
<1>3. n \in 1 .. Len(s) /\ Len(s) # 1
  BY <1>0
<1>4. \A i \in 1 .. Len(s) : CanSpare(s[i]) => Len(nodes[s[i]].keys) >= 2
  <2> TAKE i \in 1 .. Len(s)
  <2>1. NodeOK(nodes[s[i]])
    BY <1>1, <1>2
  <2>2. Len(nodes[s[i]].keys) \in Nat
    BY <2>1, FormedFacts
  <2> QED
    BY <2>2, MinKeysFacts DEF CanSpare
<1>5. \A i \in 1 .. Len(o.keys) : Neighbours(R, h, g, p, i, s[i], s[i + 1])
  BY <1>0 DEF Neighbours
<1>6. CASE n < Len(s) /\ CanSpare(s[n + 1])
  <2>1. PICK a, b, m : a = s[n] /\ b = s[n + 1] /\ m = BorrowFromRight(o, n, nodes[a], nodes[b])
    OBVIOUS
  <2>2. W = Write(p, m.parent) \o Write(a, m.child) \o Write(b, m.sibling)
    BY Zenon, <1>0, <1>6, <2>1 DEF Rebalance
  <2>3. n \in 1 .. Len(o.keys) /\ n + 1 \in 1 .. Len(s)
    BY <1>2, <1>3, <1>6
  <2>4. Neighbours(R, h, g, p, n, a, b) /\ Len(nodes[b].keys) >= 2
    BY <1>4, <1>5, <1>6, <2>1, <2>3
  <2>5. m = BorrowFromRight(nodes[p], n, nodes[a], nodes[b])
    BY <1>0, <2>1
  <2> QED
    BY ONLY Zenon, <2>2, <2>4, <2>5, BorrowRightWorks
<1>7. CASE ~(n < Len(s) /\ CanSpare(s[n + 1])) /\ n > 1 /\ CanSpare(s[n - 1])
  <2>0. PICK k : k = n - 1
    OBVIOUS
  <2>1. PICK a, b, m : a = s[k] /\ b = s[n] /\ m = BorrowFromLeft(o, k, nodes[a], nodes[b])
    OBVIOUS
  <2>2. W = Write(p, m.parent) \o Write(b, m.child) \o Write(a, m.sibling)
    BY Zenon, <1>0, <1>7, <2>0, <2>1 DEF Rebalance
  <2>3. k \in 1 .. Len(o.keys) /\ k + 1 = n /\ k \in 1 .. Len(s)
    BY <1>2, <1>3, <1>7, <2>0
  <2>4. Neighbours(R, h, g, p, k, a, b) /\ Len(nodes[a].keys) >= 2
    <3>1. CanSpare(s[k])
      BY <1>7, <2>0
    <3>2. Neighbours(R, h, g, p, k, s[k], s[k + 1])
      BY <1>5, <2>3
    <3>3. Len(nodes[s[k]].keys) >= 2
      BY <1>4, <2>3, <3>1
    <3> QED
      BY <2>1, <2>3, <3>2, <3>3
  <2>5. m = BorrowFromLeft(nodes[p], k, nodes[a], nodes[b])
    BY <1>0, <2>1
  <2> QED
    BY ONLY Zenon, <2>2, <2>4, <2>5, BorrowLeftWorks
<1>8. CASE /\ ~(n < Len(s) /\ CanSpare(s[n + 1])) /\ ~(n > 1 /\ CanSpare(s[n - 1]))
           /\ n < Len(s)
  <2>1. PICK a, b, m : a = s[n] /\ b = s[n + 1] /\ m = Merge(o, n, nodes[a], nodes[b])
    OBVIOUS
  <2>2. W = Write(a, m.left) \o Write(p, m.parent)
    BY Zenon, <1>0, <1>8, <2>1 DEF Rebalance
  <2>3. n \in 1 .. Len(o.keys)
    BY <1>2, <1>3, <1>8
  <2>4. Neighbours(R, h, g, p, n, a, b)
    BY <1>5, <2>1, <2>3
  <2>5. m = Merge(nodes[p], n, nodes[a], nodes[b])
    BY <1>0, <2>1
  <2> QED
    BY ONLY Zenon, <2>2, <2>4, <2>5, MergedWorks
<1>9. CASE ~(n > 1 /\ CanSpare(s[n - 1])) /\ ~(n < Len(s))
  <2>0. PICK k : k = n - 1
    OBVIOUS
  <2>3. k \in 1 .. Len(o.keys) /\ k + 1 = n
    BY <1>2, <1>3, <1>9, <2>0
  <2>1. PICK a, b, m : a = s[k] /\ b = s[k + 1] /\ m = Merge(o, k, nodes[a], nodes[b])
    OBVIOUS
  <2>2. W = Write(a, m.left) \o Write(p, m.parent)
    BY Zenon, <1>0, <1>9, <2>0, <2>1 DEF Rebalance
  <2>4. Neighbours(R, h, g, p, k, a, b)
    BY <1>5, <2>1, <2>3
  <2>5. m = Merge(nodes[p], k, nodes[a], nodes[b])
    BY <1>0, <2>1
  <2> QED
    BY ONLY <2>2, <2>4, <2>5, MergedWorks
<1> QED
  BY <1>6, <1>7, <1>8, <1>9

\* delete_recursive, with its child returned: the parent is rebalanced, or is not.
LEMMA ReturnToParentStep ==
    ASSUME IInv, ReturnToParent
    PROVE  IInv'
<1>0. PICK c, p, n, l : c = at /\ p = Last(path).page /\ n = Last(path).pos /\ l = Len(path)
  OBVIOUS
<1>1. /\ writes = << >> /\ pc = "deleted" /\ path # << >>
      /\ at' = p /\ path' = Front(path)
      /\ \/ writes' = << >> /\ pc' = "deleted"
         \/ writes' = << >> /\ pc' = "panic"
         \/ writes' = Rebalance(p, n) /\ pc' = "deleted" /\ Len(nodes[p].kids) # 1
      /\ UNCHANGED nodes /\ UNCHANGED pageCount /\ UNCHANGED root /\ UNCHANGED size
      /\ UNCHANGED carry /\ UNCHANGED dict
  BY <1>0 DEF ReturnToParent, Ready, tree
<1>2. TypeOK /\ path \in Seq(Steps) /\ root \in Pages
  BY DEF IInv, TypeOK, Steps
<1>3. PICK V, R, h, g : Inner(V, R, h, g)
  BY DEF IInv
<1>4. /\ \A o \in Pages : NodeOK(nodes[o]) /\ V[o] = nodes[o]
      /\ Tree(nodes, R, h, g, root, pageCount, dict)
      /\ pageCount \in Int
  <2>1. Top = root /\ pc # "split"
    BY <1>1 DEF Top
  <2> QED
    BY <1>1, <1>2, <1>3, <2>1, Settled
<1>5. \A o \in R : o \in Pages /\ h[o] \in Nat
  BY <1>4, TreeTypes
<1>6. /\ path' \in Seq(Steps) /\ Len(path') = l - 1 /\ l \in Nat /\ l >= 1 /\ l \in 1 .. l
      /\ \A i \in 1 .. l - 1 : path'[i] = path[i]
      /\ p = path[l].page /\ n = path[l].pos
  BY <1>0, <1>1, <1>2, FrontFacts
<1>7. /\ c \in R
      /\ \A i \in 1 .. l :
            /\ path[i].page \in R
            /\ h[path[i].page] + i = h[c] + l + 1
            /\ path[i].pos \in 1 .. Len(nodes[path[i].page].kids)
            /\ nodes[path[i].page].kids[path[i].pos] = IF i = l THEN c ELSE path[i + 1].page
  <2>1. /\ c \in R
        /\ \A i \in 1 .. l :
              /\ path[i].page \in R
              /\ h[path[i].page] + i = h[c] + l + 1
              /\ path[i].pos \in 1 .. Len(V[path[i].page].kids)
              /\ V[path[i].page].kids[path[i].pos] = IF i = l THEN c ELSE path[i + 1].page
    BY <1>0, <1>1, <1>3 DEF Inner, Stacked
  <2>2. \A i \in 1 .. l : V[path[i].page] = nodes[path[i].page]
    BY <1>4, <1>5, <2>1
  <2> QED
    BY <2>1, <2>2
<1>8. /\ p \in R /\ n \in 1 .. Len(nodes[p].kids) /\ h[p] = h[c] + 1 /\ h[p] # 0
  <2>1. p \in R /\ n \in 1 .. Len(nodes[p].kids) /\ h[p] + l = h[c] + l + 1
    BY <1>6, <1>7
  <2> DEFINE x == h[p]  y == h[c]
  <2>2. x \in Nat /\ y \in Nat /\ x + l = y + l + 1
    BY <1>5, <1>7, <2>1
  <2> HIDE DEF x, y
  <2>3. x = y + 1 /\ x # 0
    BY <1>6, <2>2
  <2> QED
    BY <2>1, <2>3 DEF x, y
<1>9. \E M, Q, f : Rebalanced(writes', p, R, h, M, Q, f)
  <2>1. CASE writes' = << >>
    <3> DEFINE W == << >>
    <3>1. W \in Seq(WriteSet) /\ DOMAIN W = {}
      OBVIOUS
    <3> HIDE DEF W
    <3>2. Rebalanced(W, p, R, h, nodes, R, g)
      BY <1>4, <1>5, <1>8, <3>1 DEF Rebalanced
    <3>3. \E M, Q, f : Rebalanced(W, p, R, h, M, Q, f)
      BY <3>2
    <3> QED
      BY <2>1, <3>3 DEF W
  <2>2. CASE writes' = Rebalance(p, n) /\ Len(nodes[p].kids) # 1
    <3>1. PICK W : W = Rebalance(p, n)
      OBVIOUS
    <3>2. Here(R, h, g) /\ p \in R /\ h[p] # 0 /\ n \in 1 .. Len(nodes[p].kids) /\ Len(nodes[p].kids) # 1
      BY <1>4, <1>8, <2>2 DEF Here
    <3>3. \E M, Q, f : Rebalanced(W, p, R, h, M, Q, f)
      BY ONLY <3>1, <3>2, RebalanceWorks
    <3> QED
      BY <2>2, <3>1, <3>3
  <2> QED
    BY <1>1, <2>1, <2>2
<1>10. PICK M, Q, f : Rebalanced(writes', p, R, h, M, Q, f)
  BY <1>9
<1>11. /\ writes' \in Seq(WriteSet)
       /\ \A i \in DOMAIN writes' : M[writes'[i].page] = writes'[i].node
       /\ \A o \in Pages : NodeOK(M[o])
       /\ \A o \in Pages : (\A i \in DOMAIN writes' : writes'[i].page # o) => M[o] = nodes[o]
       /\ Tree(M, Q, h, f, root, pageCount, dict)
       /\ p \in Q
       /\ \A o \in R : h[o] >= h[p] /\ o # p => o \in Q /\ M[o] = nodes[o]
  BY <1>10 DEF Rebalanced
<1>12. pc' # "split" /\ pc' # "inserted" /\ pc' # "newRoot" /\ pc' # "idle"
  BY <1>1
<1>13. Shows(M)'
  <2>1. \A o \in Pages : ~Pending(o)' => M[o] = nodes'[o]
    BY <1>1, <1>11 DEF Pending
  <2> QED
    BY <1>11, <1>12, <2>1 DEF Shows
<1>14. Tree(M, Q, h, f, Top, Count, dict)'
  <2>1. Top' = root /\ Count' = pageCount
    BY <1>1, <1>12 DEF Top, Count
  <2> QED
    BY <1>1, <1>11, <2>1
<1>15. Stacked(M, Q, h)'
  <2>1. ASSUME NEW i \in 1 .. l - 1
        PROVE  /\ path'[i].page \in Q
               /\ h[path'[i].page] + i = h[p] + (l - 1) + 1
               /\ path'[i].pos \in 1 .. Len(M[path'[i].page].kids)
               /\ M[path'[i].page].kids[path'[i].pos] = IF i = l - 1 THEN p ELSE path'[i + 1].page
    <3>1. i \in 1 .. l /\ i # l /\ path'[i] = path[i]
      BY <1>6
    <3>2. /\ path[i].page \in R /\ h[path[i].page] + i = h[c] + l + 1
          /\ path[i].pos \in 1 .. Len(nodes[path[i].page].kids)
          /\ nodes[path[i].page].kids[path[i].pos] = path[i + 1].page
      BY <1>7, <3>1
    <3>3. h[path[i].page] + i = h[p] + (l - 1) + 1 /\ h[path[i].page] >= h[p] /\ h[path[i].page] # h[p]
      <4> DEFINE x == h[p]  y == h[c]  z == h[path[i].page]
      <4>1. x = y + 1 /\ x \in Nat /\ y \in Nat /\ z \in Nat /\ z + i = y + l + 1
        BY <1>5, <1>7, <1>8, <3>2
      <4> HIDE DEF x, y, z
      <4>2. z + i = x + (l - 1) + 1 /\ z >= x /\ z # x
        BY <1>6, <3>1, <4>1
      <4> QED
        BY <4>2 DEF x, z
    <3>4. path[i].page \in Q /\ M[path[i].page] = nodes[path[i].page]
      <4>1. path[i].page # p
        BY <3>3
      <4> QED
        BY <1>11, <3>2, <3>3, <4>1
    <3>5. i = l - 1 => path[i + 1].page = p
      BY <1>6
    <3>6. i # l - 1 => path'[i + 1] = path[i + 1]
      BY <1>6
    <3> QED
      BY <3>1, <3>2, <3>3, <3>4, <3>5, <3>6
  <2> QED
    BY <1>1, <1>6, <1>11, <1>12, <2>1 DEF Stacked
<1>16. Room(M)'
  BY <1>12 DEF Room
<1>17. \E V1, R1, h1, g1 : Inner(V1, R1, h1, g1)'
  BY <1>13, <1>14, <1>15, <1>16 DEF Inner
<1>18. TypeOK'
  <2>1. \A i \in DOMAIN writes' : WellFormed(writes'[i].node)
    <3> TAKE i \in DOMAIN writes'
    <3>1. writes'[i].page \in Pages
      <4>1. writes'[i] \in WriteSet
        BY <1>11
      <4> QED
        BY <4>1 DEF WriteSet
    <3>2. NodeOK(M[writes'[i].page])
      BY <1>11, <3>1
    <3> QED
      BY <1>11, <3>2 DEF NodeOK
  <2>2. pc' \in {"idle", "inserted", "replaced", "split", "newRoot", "deleted", "panic"}
    BY <1>1
  <2>3. at' \in Pages
    BY <1>1, <1>5, <1>8
  <2> QED
    BY <1>1, <1>2, <1>6, <1>11, <2>1, <2>2, <2>3 DEF TypeOK, WriteSet, Steps
<1>19. SizeFits'
  <2>1. Present' = Present
    BY <1>1 DEF Present
  <2> QED
    BY <1>1, <2>1 DEF IInv, SizeFits
<1>20. pc' = "panic" => writes' = << >>
  BY <1>1
<1> QED
  BY <1>12, <1>17, <1>18, <1>19, <1>20 DEF IInv

\* Every step keeps the invariant.
LEMMA NextInv ==
    ASSUME IInv, [Next]_vars
    PROVE  IInv'
<1>1. CASE \E r \in Records : Insert(r)
  BY <1>1, InsertStep
<1>2. CASE \E k \in Keys : Delete(k)
  BY <1>2, DeleteStep
<1>3. CASE WriteNode
  BY <1>3, WriteNodeStep
<1>4. CASE SplitNode
  BY <1>4, SplitNodeStep
<1>5. CASE AddToParent
  BY <1>5, AddToParentStep
<1>6. CASE NewRoot
  BY <1>6, NewRootStep
<1>7. CASE EndInsert
  BY <1>7, EndInsertStep
<1>8. CASE ReturnToParent
  BY <1>8, ReturnToParentStep
<1>9. CASE EndDelete
  BY <1>9, EndDeleteStep
<1>10. CASE UNCHANGED vars
  BY <1>10, StutterStep
<1> QED
  BY <1>1, <1>2, <1>3, <1>4, <1>5, <1>6, <1>7, <1>8, <1>9, <1>10 DEF Next

\* After every step of insert, delete and their write_node calls the nodes are,
\* once what is queued is written, a B+Tree of exactly the records that the calls
\* put and did not delete, with as many records as size says (btree/tree.rs).
THEOREM InvariantHolds == Spec => []IInv
<1>1. Init => IInv
  BY InitInv
<1>2. IInv /\ [Next]_vars => IInv'
  BY NextInv
<1> QED
  BY <1>1, <1>2, PTL DEF Spec

\* Every node that is stored or queued is a leaf with the keys of its records or
\* an internal node with a child more than keys, on pages that were allocated.
THEOREM TypeInvariant == Spec => []TypeOK
<1>1. IInv => TypeOK
  BY DEF IInv
<1> QED
  BY <1>1, InvariantHolds, PTL

\* Between calls search finds, under every key, the record that was put there last
\* and not deleted, or none (search, find_leaf), whatever splits, borrows and
\* merges the calls before have made.
THEOREM SearchesRight == Spec => []SearchFindsAll
<1>1. IInv => SearchFindsAll
  BY SearchInv
<1> QED
  BY <1>1, InvariantHolds, PTL

\* Between calls the invariant is what a scan needs.
LEMMA ScanInv ==
    ASSUME IInv
    PROVE  RangeFindsAll /\ SizeCounts
<1> SUFFICES ASSUME pc = "idle" PROVE RangeFindsAll /\ SizeCounts
  BY DEF RangeFindsAll, SizeCounts, Idle
<1>1. PICK V, R, h, g : Inner(V, R, h, g)
  BY DEF IInv
<1>2. writes = << >> /\ TypeOK /\ size = Cardinality(Present)
  BY DEF IInv, SizeFits
<1>3. Top = root
  BY DEF Top
<1>4. /\ Tree(nodes, R, h, g, root, pageCount, dict)
      /\ pageCount \in Int /\ pageCount <= NumPages /\ dict \in Dicts
      /\ \A o \in Pages : NodeOK(nodes[o])
  BY <1>1, <1>2, <1>3, Settled
<1>5. RangeFindsAll
  <2> SUFFICES ASSUME NEW lo \in Keys, NEW hi \in Keys, NEW s, s = RangeSearch(lo, hi)
               PROVE  /\ ToSet(s) = {dict[k] : k \in {i \in Present : lo <= i /\ i <= hi}}
                      /\ \A i, j \in DOMAIN s : i < j => s[i].key < s[j].key
    BY DEF RangeFindsAll
  <2> QED
    BY <1>4, RangeFacts
<1>6. SizeCounts
  BY <1>2, <1>4, ScanFacts DEF SizeCounts
<1> QED
  BY <1>5, <1>6

\* Between calls range_search returns exactly the records whose keys are in the
\* range, in the order of the keys, for every range (range_search, scan): the
\* chain of next_leaf goes through all leaves in the order of their keys, whatever
\* splits and merges have relinked it.
THEOREM RangesRight == Spec => []RangeFindsAll
<1>1. IInv => RangeFindsAll
  BY ScanInv
<1> QED
  BY <1>1, InvariantHolds, PTL

\* Between calls len() is the number of records put and not deleted, and scan_all
\* returns as many (insert, delete, scan_all).
THEOREM SizeRight == Spec => []SizeCounts
<1>1. IInv => SizeCounts
  BY ScanInv
<1> QED
  BY <1>1, InvariantHolds, PTL
=============================================================================
