---------------------------- MODULE Locks_proofs ----------------------------
(***************************************************************************)
(* Exclusion and NoLockLeaks hold of the page locks, for any pages and any *)
(* finite number of guards.  The manager knows only how many readers and   *)
(* whether a writer a page has, and a guard only its own page and mode:    *)
(* the ledger says how the two sides agree.  Where release_all took locks  *)
(* from under live guards they do not, until the last of these is dropped. *)
(*                                                                         *)
(* OnlyPutDeadlocks and SizeCovers hold of the page cache, for any threads *)
(* and pages.  Who holds a mutex is known from the points the threads are  *)
(* at; the size counts the pages cached up to the one put that has cached  *)
(* its page and not counted it, and the one invalidate that has taken its  *)
(* page and not its size.                                                  *)
(***************************************************************************)
EXTENDS PageLocks, PageCacheLocks, Queues_proofs, FiniteSetTheorems

\* The manager's entry of the page is what the page's guards are.
Agrees(p) ==
    /\ shared[p] = Cardinality(LiveIn(p, Shared))
    /\ p \in exclusive <=> LiveIn(p, Exclusive) # {}
    /\ \A g, h \in Live(p) : g # h => mode[g] = Shared

\* The manager's entry of the page is no more than what its guards are.
Covered(p) ==
    /\ shared[p] <= Cardinality(LiveIn(p, Shared))
    /\ p \in exclusive => LiveIn(p, Exclusive) # {}

Ledger == \A p \in LockPages : Covered(p) /\ (p \notin forced => Agrees(p))

LockInv == LocksTypeOK /\ Ledger

Modes == {Shared, Exclusive, NotHeld}

LEMMA ModesApart == Shared # Exclusive /\ Shared # NotHeld /\ Exclusive # NotHeld
BY DEF Shared, Exclusive, NotHeld

\* The guards of a page are finitely many.
LEMMA LiveInFinite ==
    ASSUME NEW p, NEW m
    PROVE  /\ IsFiniteSet(LiveIn(p, m))
           /\ Cardinality(LiveIn(p, m)) \in Nat
           /\ Cardinality(LiveIn(p, m)) = 0 <=> LiveIn(p, m) = {}
<1>1. LiveIn(p, m) \subseteq Guards
  BY DEF LiveIn, Live
<1>2. IsFiniteSet(LiveIn(p, m))
  BY <1>1, GuardsAssumption, FS_Subset
<1> QED
  BY <1>2, FS_CardinalityType, FS_EmptySet

\* A new guard is one more on its page and in its mode, and changes no other.
LEMMA Given ==
    ASSUME LocksTypeOK, NEW g \in Guards, NEW p \in LockPages, NEW m \in {Shared, Exclusive},
           mode[g] = NotHeld, Give(g, p, m)
    PROVE  /\ LiveIn(p, m)' = LiveIn(p, m) \union {g}
           /\ g \notin LiveIn(p, m)
           /\ Cardinality(LiveIn(p, m))' = Cardinality(LiveIn(p, m)) + 1
           /\ Live(p)' = Live(p) \union {g}
           /\ \A q \in LockPages, n \in {Shared, Exclusive} :
                 q # p \/ n # m => LiveIn(q, n)' = LiveIn(q, n)
           /\ \A q \in LockPages : q # p => Live(q)' = Live(q)
<1> USE ModesApart DEF LocksTypeOK, Give, LiveIn, Live
<1>1. LiveIn(p, m)' = LiveIn(p, m) \union {g} /\ g \notin LiveIn(p, m)
  OBVIOUS
<1>2. Cardinality(LiveIn(p, m))' = Cardinality(LiveIn(p, m)) + 1
  <2> HIDE DEF LiveIn, Live
  <2>1. IsFiniteSet(LiveIn(p, m))
    BY LiveInFinite
  <2>2. Cardinality(LiveIn(p, m) \union {g}) = Cardinality(LiveIn(p, m)) + 1
    BY <1>1, <2>1, FS_AddElement
  <2> QED
    BY <1>1, <2>2
<1>3. Live(p)' = Live(p) \union {g}
  OBVIOUS
<1>4. \A q \in LockPages, n \in {Shared, Exclusive} :
          q # p \/ n # m => LiveIn(q, n)' = LiveIn(q, n)
  OBVIOUS
<1>5. \A q \in LockPages : q # p => Live(q)' = Live(q)
  OBVIOUS
<1> QED
  BY <1>1, <1>2, <1>3, <1>4, <1>5

\* A guard that is dropped is one less on its page and in its mode.
LEMMA Taken ==
    ASSUME LocksTypeOK, NEW g \in Guards, NEW p \in LockPages, NEW m \in {Shared, Exclusive},
           page[g] = p, mode[g] = m, Dropped(g)
    PROVE  /\ LiveIn(p, m)' = LiveIn(p, m) \ {g}
           /\ g \in LiveIn(p, m) /\ g \in Live(p)
           /\ Cardinality(LiveIn(p, m))' = Cardinality(LiveIn(p, m)) - 1
           /\ Cardinality(LiveIn(p, m)) >= 1
           /\ Live(p)' = Live(p) \ {g}
           /\ \A q \in LockPages, n \in {Shared, Exclusive} :
                 q # p \/ n # m => LiveIn(q, n)' = LiveIn(q, n)
           /\ \A q \in LockPages : q # p => Live(q)' = Live(q)
<1> USE ModesApart DEF LocksTypeOK, Dropped, LiveIn, Live
<1>1. page' = page
  OBVIOUS
<1>2. LiveIn(p, m)' = LiveIn(p, m) \ {g} /\ g \in LiveIn(p, m) /\ g \in Live(p)
  BY <1>1
<1>3. /\ Cardinality(LiveIn(p, m))' = Cardinality(LiveIn(p, m)) - 1
      /\ Cardinality(LiveIn(p, m)) >= 1
  <2> HIDE DEF LiveIn, Live
  <2>1. IsFiniteSet(LiveIn(p, m)) /\ Cardinality(LiveIn(p, m)) \in Nat
    BY LiveInFinite
  <2>2. Cardinality(LiveIn(p, m) \ {g}) = Cardinality(LiveIn(p, m)) - 1
    BY <1>2, <2>1, FS_RemoveElement
  <2>3. Cardinality(LiveIn(p, m)) # 0
    BY <1>2, LiveInFinite
  <2> QED
    BY <1>2, <2>1, <2>2, <2>3
<1>4. Live(p)' = Live(p) \ {g}
  BY <1>1
<1>5. \A q \in LockPages, n \in {Shared, Exclusive} :
          q # p \/ n # m => LiveIn(q, n)' = LiveIn(q, n)
  BY <1>1
<1>6. \A q \in LockPages : q # p => Live(q)' = Live(q)
  BY <1>1
<1> QED
  BY <1>1, <1>2, <1>3, <1>4, <1>5, <1>6

---------------------------------------------------------------------------
\* Every step keeps the types.
LEMMA InitLockInv == LocksInit => LockInv
<1> SUFFICES ASSUME LocksInit PROVE LockInv
  OBVIOUS
<1>1. LocksTypeOK
  BY LockPagesAssumption, ModesApart DEF LocksInit, LocksTypeOK
<1>2. \A p : Live(p) = {} /\ \A m : LiveIn(p, m) = {}
  BY DEF LocksInit, Live, LiveIn
<1>3. \A p \in LockPages : Covered(p) /\ Agrees(p)
  BY <1>2, LiveInFinite, FS_EmptySet DEF LocksInit, Covered, Agrees
<1> QED
  BY <1>1, <1>3 DEF LockInv, Ledger

LEMMA TypeStep == LocksTypeOK /\ [LocksNext]_lockVars => LocksTypeOK'
<1> SUFFICES ASSUME LocksTypeOK, [LocksNext]_lockVars PROVE LocksTypeOK'
  OBVIOUS
<1> USE DEF LocksTypeOK
<1>1. ASSUME NEW g \in Guards, NEW p \in LockPages, LockShared(g, p) PROVE LocksTypeOK'
  BY <1>1 DEF LockShared, Give
<1>2. ASSUME NEW g \in Guards, NEW p \in LockPages, LockExclusive(g, p) PROVE LocksTypeOK'
  BY <1>2 DEF LockExclusive, Give
<1>3. ASSUME NEW g \in Guards, DropShared(g) PROVE LocksTypeOK'
  BY <1>3 DEF DropShared, Dropped
<1>4. ASSUME NEW g \in Guards, DropExclusive(g) PROVE LocksTypeOK'
  BY <1>4 DEF DropExclusive, Dropped
<1>5. CASE ReleaseAll
  BY <1>5 DEF ReleaseAll, guardVars
<1>6. CASE UNCHANGED lockVars
  BY <1>6 DEF lockVars, guardVars
<1> QED
  BY <1>1, <1>2, <1>3, <1>4, <1>5, <1>6 DEF LocksNext

\* What covers the entry of a page that is left without guards is nothing.
LEMMA NoGuards ==
    ASSUME NEW p \in LockPages, LocksTypeOK', Covered(p)', Live(p)' = {}
    PROVE  Agrees(p)'
<1>1. LiveIn(p, Shared)' = {} /\ LiveIn(p, Exclusive)' = {}
  BY DEF LiveIn
<1>2. Cardinality(LiveIn(p, Shared)') = 0
  BY <1>1, FS_EmptySet
<1>3. shared'[p] = 0 /\ p \notin exclusive'
  BY <1>1, <1>2 DEF Covered, LocksTypeOK
<1> QED
  BY <1>1, <1>2, <1>3 DEF Agrees

LEMMA LockSharedLedger ==
    ASSUME LockInv, NEW g \in Guards, NEW p \in LockPages, LockShared(g, p), NEW q \in LockPages
    PROVE  Covered(q)' /\ (q \notin forced' => Agrees(q)')
<1> USE DEF LockInv
<1>1. /\ mode[g] = NotHeld /\ p \notin exclusive /\ Give(g, p, Shared)
      /\ shared' = [shared EXCEPT ![p] = @ + 1]
      /\ exclusive' = exclusive /\ forced' = forced
  BY DEF LockShared
<1>2. Covered(q) /\ (q \notin forced => Agrees(q))
  BY DEF Ledger
<1>3. /\ Cardinality(LiveIn(p, Shared))' = Cardinality(LiveIn(p, Shared)) + 1
      /\ Live(p)' = Live(p) \union {g}
      /\ LiveIn(q, Exclusive)' = LiveIn(q, Exclusive)
      /\ q # p => LiveIn(q, Shared)' = LiveIn(q, Shared) /\ Live(q)' = Live(q)
  BY <1>1, Given, ModesApart
<1>4. Cardinality(LiveIn(q, Shared)) \in Nat
  BY LiveInFinite
<1>5. CASE q = p
  <2>1. shared'[p] = shared[p] + 1 /\ shared[p] \in Nat
    BY <1>1 DEF LocksTypeOK
  <2>2. Covered(p)'
    BY <1>1, <1>2, <1>3, <1>4, <1>5, <2>1 DEF Covered
  <2>3. ASSUME p \notin forced PROVE Agrees(p)'
    <3>1. shared'[p] = Cardinality(LiveIn(p, Shared))' /\ LiveIn(p, Exclusive)' = {}
      BY <1>1, <1>2, <1>3, <1>4, <1>5, <2>1, <2>3 DEF Agrees
    <3>2. \A h \in Live(p)' : mode'[h] = Shared
      BY <3>1, TypeStep, ModesApart, <1>1 DEF Live, LiveIn, LocksTypeOK, Give
    <3> QED
      BY <1>1, <3>1, <3>2 DEF Agrees
  <2> QED
    BY <1>1, <1>5, <2>2, <2>3
<1>6. CASE q # p
  <2>1. shared'[q] = shared[q]
    BY <1>1, <1>6 DEF LocksTypeOK
  <2>2. \A h \in Live(q) : mode'[h] = mode[h]
    BY <1>1, <1>6 DEF Live, Give, LocksTypeOK
  <2>3. Covered(q)'
    BY <1>1, <1>2, <1>3, <1>6, <2>1 DEF Covered
  <2>4. q \notin forced => Agrees(q)'
    BY <1>1, <1>2, <1>3, <1>6, <2>1, <2>2 DEF Agrees
  <2> QED
    BY <1>1, <2>3, <2>4
<1> QED
  BY <1>5, <1>6

LEMMA LockExclusiveLedger ==
    ASSUME LockInv, NEW g \in Guards, NEW p \in LockPages, LockExclusive(g, p),
           NEW q \in LockPages
    PROVE  Covered(q)' /\ (q \notin forced' => Agrees(q)')
<1> USE DEF LockInv
<1>1. /\ mode[g] = NotHeld /\ shared[p] = 0 /\ p \notin exclusive /\ Give(g, p, Exclusive)
      /\ exclusive' = exclusive \union {p}
      /\ shared' = shared /\ forced' = forced
  BY DEF LockExclusive
<1>2. Covered(q) /\ (q \notin forced => Agrees(q))
  BY DEF Ledger
<1>3. /\ LiveIn(p, Exclusive)' = LiveIn(p, Exclusive) \union {g}
      /\ Live(p)' = Live(p) \union {g}
      /\ LiveIn(q, Shared)' = LiveIn(q, Shared)
      /\ q # p => LiveIn(q, Exclusive)' = LiveIn(q, Exclusive) /\ Live(q)' = Live(q)
  BY <1>1, Given, ModesApart
<1>4. CASE q = p
  <2>1. Covered(p)'
    BY <1>1, <1>2, <1>3, <1>4 DEF Covered
  <2>2. ASSUME p \notin forced PROVE Agrees(p)'
    <3>1. LiveIn(p, Shared) = {} /\ LiveIn(p, Exclusive) = {}
      BY <1>1, <1>2, <1>4, <2>2, LiveInFinite DEF Agrees
    <3>2. Live(p)' = {g}
      BY <1>3, <3>1 DEF Live, LiveIn, LocksTypeOK
    <3> QED
      BY <1>1, <1>2, <1>3, <1>4, <2>2, <3>2 DEF Agrees
  <2> QED
    BY <1>1, <1>4, <2>1, <2>2
<1>5. CASE q # p
  <2>1. \A h \in Live(q) : mode'[h] = mode[h]
    BY <1>1, <1>5 DEF Live, Give, LocksTypeOK
  <2>2. Covered(q)'
    BY <1>1, <1>2, <1>3, <1>5 DEF Covered
  <2>3. q \notin forced => Agrees(q)'
    BY <1>1, <1>2, <1>3, <1>5, <2>1 DEF Agrees
  <2> QED
    BY <1>1, <2>2, <2>3
<1> QED
  BY <1>4, <1>5

LEMMA DropSharedLedger ==
    ASSUME LockInv, NEW g \in Guards, NEW p \in LockPages, page[g] = p, DropShared(g),
           NEW q \in LockPages
    PROVE  Covered(q)' /\ (q \notin forced' => Agrees(q)')
<1> USE DEF LockInv
<1>1. /\ mode[g] = Shared /\ Dropped(g) /\ exclusive' = exclusive
      /\ shared' = [shared EXCEPT ![p] = IF @ = 0 THEN 0 ELSE @ - 1]
      /\ forced' = IF Live(p) = {g} THEN forced \ {p} ELSE forced
  BY DEF DropShared, Dropped
<1>2. Covered(q) /\ (q \notin forced => Agrees(q))
  BY DEF Ledger
<1>3. /\ Cardinality(LiveIn(p, Shared))' = Cardinality(LiveIn(p, Shared)) - 1
      /\ Cardinality(LiveIn(p, Shared)) >= 1
      /\ Live(p)' = Live(p) \ {g}
      /\ LiveIn(q, Exclusive)' = LiveIn(q, Exclusive)
      /\ q # p => LiveIn(q, Shared)' = LiveIn(q, Shared) /\ Live(q)' = Live(q)
  BY <1>1, Taken, ModesApart
<1>4. Cardinality(LiveIn(q, Shared)) \in Nat /\ shared[q] \in Nat /\ LocksTypeOK'
  BY LiveInFinite, TypeStep DEF LocksTypeOK, LocksNext
<1>5. \A h \in Live(q)' : mode'[h] = mode[h] /\ h \in Live(q)
  BY <1>1 DEF Live, Dropped, LocksTypeOK
<1>6. CASE q = p
  <2>1. shared'[p] = IF shared[p] = 0 THEN 0 ELSE shared[p] - 1
    BY <1>1, <1>3 DEF LocksTypeOK
  <2>2. Covered(p)'
    BY <1>1, <1>2, <1>3, <1>4, <1>6, <2>1 DEF Covered
  <2>3. ASSUME p \notin forced PROVE Agrees(p)'
    <3>1. shared'[p] = Cardinality(LiveIn(p, Shared))'
      BY <1>2, <1>3, <1>4, <1>6, <2>1, <2>3 DEF Agrees
    <3> QED
      BY <1>1, <1>2, <1>3, <1>5, <1>6, <2>3, <3>1 DEF Agrees
  <2>4. ASSUME Live(p) = {g} PROVE Agrees(p)'
    <3>1. Live(p)' = {}
      BY <1>3, <2>4
    <3> QED
      BY <1>3, <1>4, <2>2, <3>1, NoGuards
  <2> QED
    BY <1>1, <1>6, <2>2, <2>3, <2>4
<1>7. CASE q # p
  <2>1. shared'[q] = shared[q]
    BY <1>1, <1>7 DEF LocksTypeOK
  <2>2. Covered(q)'
    BY <1>1, <1>2, <1>3, <1>7, <2>1 DEF Covered
  <2>3. q \notin forced => Agrees(q)'
    BY <1>1, <1>2, <1>3, <1>5, <1>7, <2>1 DEF Agrees
  <2> QED
    BY <1>1, <1>7, <2>2, <2>3
<1> QED
  BY <1>6, <1>7

LEMMA DropExclusiveLedger ==
    ASSUME LockInv, NEW g \in Guards, NEW p \in LockPages, page[g] = p, DropExclusive(g),
           NEW q \in LockPages
    PROVE  Covered(q)' /\ (q \notin forced' => Agrees(q)')
<1> USE DEF LockInv
<1>1. /\ mode[g] = Exclusive /\ Dropped(g) /\ shared' = shared
      /\ exclusive' = exclusive \ {p}
      /\ forced' = IF Live(p) = {g} THEN forced \ {p} ELSE forced
  BY DEF DropExclusive, Dropped
<1>2. Covered(q) /\ (q \notin forced => Agrees(q))
  BY DEF Ledger
<1>3. /\ LiveIn(p, Exclusive)' = LiveIn(p, Exclusive) \ {g}
      /\ g \in Live(p)
      /\ Live(p)' = Live(p) \ {g}
      /\ LiveIn(q, Shared)' = LiveIn(q, Shared)
      /\ q # p => LiveIn(q, Exclusive)' = LiveIn(q, Exclusive) /\ Live(q)' = Live(q)
  BY <1>1, Taken, ModesApart
<1>4. LocksTypeOK'
  BY TypeStep DEF LocksNext
<1>5. \A h \in Live(q)' : mode'[h] = mode[h] /\ h \in Live(q)
  BY <1>1 DEF Live, Dropped, LocksTypeOK
<1>6. CASE q = p
  <2>1. Covered(p)'
    BY <1>1, <1>2, <1>3, <1>6 DEF Covered
  <2>2. ASSUME p \notin forced PROVE Live(p) = {g}
    BY <1>1, <1>2, <1>3, <1>6, <2>2, ModesApart DEF Agrees
  <2>3. ASSUME Live(p) = {g} PROVE Agrees(p)'
    <3>1. Live(p)' = {}
      BY <1>3, <2>3
    <3> QED
      BY <1>3, <1>4, <2>1, <3>1, NoGuards
  <2> QED
    BY <1>1, <1>6, <2>1, <2>2, <2>3
<1>7. CASE q # p
  <2>1. Covered(q)'
    BY <1>1, <1>2, <1>3, <1>7 DEF Covered
  <2>2. q \notin forced => Agrees(q)'
    BY <1>1, <1>2, <1>3, <1>5, <1>7 DEF Agrees
  <2> QED
    BY <1>1, <1>7, <2>1, <2>2
<1> QED
  BY <1>6, <1>7

LEMMA ReleaseAllLedger ==
    ASSUME LockInv, ReleaseAll, NEW q \in LockPages
    PROVE  Covered(q)' /\ (q \notin forced' => Agrees(q)')
<1>1. /\ shared' = [p \in LockPages |-> 0] /\ exclusive' = {}
      /\ forced' = {p \in LockPages : Live(p) # {}}
      /\ mode' = mode /\ page' = page
  BY DEF ReleaseAll, guardVars
<1>2. Covered(q)'
  <2>1. shared'[q] = 0 /\ LiveIn(q, Shared)' = LiveIn(q, Shared)
    BY <1>1 DEF LiveIn, Live
  <2>2. Cardinality(LiveIn(q, Shared)) \in Nat
    BY LiveInFinite
  <2> QED
    BY <1>1, <2>1, <2>2 DEF Covered
<1>3. ASSUME q \notin forced' PROVE Agrees(q)'
  <2>1. Live(q)' = {}
    BY <1>1, <1>3 DEF Live
  <2>2. LocksTypeOK'
    BY TypeStep DEF LockInv, LocksNext
  <2> QED
    BY <1>2, <2>1, <2>2, NoGuards
<1> QED
  BY <1>2, <1>3

LEMMA NextLockInv == LockInv /\ [LocksNext]_lockVars => LockInv'
<1> SUFFICES ASSUME LockInv, [LocksNext]_lockVars PROVE LockInv'
  OBVIOUS
<1>1. LocksTypeOK'
  BY TypeStep DEF LockInv
<1>2. ASSUME NEW q \in LockPages PROVE Covered(q)' /\ (q \notin forced' => Agrees(q)')
  <2>1. CASE LocksNext
    <3>1. ASSUME NEW g \in Guards, DropShared(g) \/ DropExclusive(g)
          PROVE  Covered(q)' /\ (q \notin forced' => Agrees(q)')
      <4>1. PICK p \in LockPages : page[g] = p
        BY DEF LockInv, LocksTypeOK
      <4> QED
        BY <3>1, <4>1, DropSharedLedger, DropExclusiveLedger
    <3> QED
      BY <2>1, <3>1, LockSharedLedger, LockExclusiveLedger, ReleaseAllLedger DEF LocksNext
  <2>2. CASE UNCHANGED lockVars
    <3>1. Covered(q) /\ (q \notin forced => Agrees(q))
      BY DEF LockInv, Ledger
    <3> QED
      BY <2>2, <3>1 DEF lockVars, guardVars, Covered, Agrees, LiveIn, Live
  <2> QED
    BY <2>1, <2>2
<1> QED
  BY <1>1, <1>2 DEF LockInv, Ledger

LEMMA LockInvHolds == LocksSpec => []LockInv
BY InitLockInv, NextLockInv, PTL DEF LocksSpec

\* A guard to write excludes every other guard of its page (page_lock.rs:61),
\* for any pages and guards.
THEOREM LocksExclude == LocksSpec => []Exclusion
<1>1. LockInv => Exclusion
  BY DEF LockInv, Ledger, Agrees, Exclusion, LocksTypeOK, Live
<1> QED
  BY <1>1, LockInvHolds, PTL

\* A lock is always matched by a guard that gives it back (page_lock.rs:117),
\* whatever release_all did in between.
THEOREM LocksAreHeld == LocksSpec => []NoLockLeaks
<1>1. LockInv => NoLockLeaks
  BY DEF LockInv, Ledger, Covered, NoLockLeaks
<1> QED
  BY <1>1, LockInvHolds, PTL

---------------------------------------------------------------------------
\* PageCache: the points at which a thread holds a mutex.
HoldPoints(m) ==
    CASE m = "cache" -> {"get_lru", "invalidate_size"}
      [] m = "size"  -> {"put_room", "put_evict", "put_cache", "put_lru"}
      [] m = "lru"   -> {"put_evict"}

HeldBy == \A t \in Threads, m \in Mutexes : owner[m] = t <=> at[t] \in HoldPoints(m)

\* The page to be evicted is there: nobody takes it from the queue meanwhile.
Evicting == \A t \in Threads : at[t] = "put_evict" => lru # << >>

\* One, if a thread is at the point.
AnyAt(point) == IF \E t \in Threads : at[t] = point THEN 1 ELSE 0

\* As long as no clear ran beside a call, a clear is alone, and the size
\* covers the pages.
CacheCounted ==
    /\ IsFiniteSet(cached)
    /\ "clear" \notin overlap =>
          /\ \A t \in Threads : at[t] \in ClearPoints => Busy = {t}
          /\ \A t \in Threads : at[t] \in {"clear_lru", "clear_size"} => cached = {}
          /\ Cardinality(cached) + AnyAt("invalidate_size") <= size + AnyAt("put_lru")

\* The pages that are cached and about to be queued.
Entering == {arg[t] : t \in {u \in Threads : at[u] = "put_lru"}}

\* As long as no clear or invalidate ran beside a call, either is alone, and
\* a cached page is queued or about to be.
CacheQueued ==
    overlap = {} =>
        /\ \A t \in Threads : at[t] \in EmptyingPoints => Busy = {t}
        /\ \A t \in Threads : at[t] \in {"invalidate_size", "invalidate_lru"} => arg[t] \notin cached
        /\ cached \subseteq ToSet(lru) \union Entering

CacheInv == CacheTypeOK /\ HeldBy /\ Evicting /\ CacheCounted /\ CacheQueued

\* A step that takes mutexes that are free, and gives back only what it has.
LEMMA StepHeld ==
    ASSUME CacheTypeOK, HeldBy, NEW t \in Threads, NEW from, NEW to, NEW got, NEW left,
           Step(t, from, to, got, left), got \subseteq Mutexes,
           \A m \in left : m \in got \/ from \in HoldPoints(m),
           \A m \in Mutexes : to \in HoldPoints(m) <=> m \notin left /\ (m \in got \/ from \in HoldPoints(m))
    PROVE  HeldBy'
<1> SUFFICES ASSUME NEW u \in Threads, NEW m \in Mutexes
             PROVE  owner'[m] = u <=> at'[u] \in HoldPoints(m)
  BY DEF HeldBy
<1>1. /\ at[t] = from /\ at'[t] = to
      /\ u # t => at'[u] = at[u]
      /\ m \in got => owner[m] = Free
      /\ owner'[m] = IF m \in left THEN Free ELSE IF m \in got THEN t ELSE owner[m]
  BY DEF Step, CacheTypeOK
<1>2. owner[m] = u <=> at[u] \in HoldPoints(m)
  BY DEF HeldBy
<1>3. owner[m] = t <=> from \in HoldPoints(m)
  BY <1>1 DEF HeldBy
<1>4. u # Free /\ t # Free
  BY FreeAssumption
<1>5. CASE m \in left
  <2>1. owner'[m] # u /\ (owner[m] = Free \/ owner[m] = t)
    BY <1>1, <1>3, <1>4, <1>5
  <2>2. to \notin HoldPoints(m)
    BY <1>5
  <2>3. CASE u = t
    BY <1>1, <2>1, <2>2, <2>3
  <2>4. CASE u # t
    BY <1>1, <1>2, <1>4, <2>1, <2>4
  <2> QED
    BY <2>3, <2>4
<1>6. CASE m \notin left
  <2>1. to \in HoldPoints(m) <=> m \in got \/ owner[m] = t
    BY <1>3, <1>6
  <2>2. CASE u = t
    BY <1>1, <1>6, <2>1, <2>2
  <2>3. CASE u # t
    <3>1. CASE m \in got
      BY <1>1, <1>2, <1>4, <1>6, <2>3, <3>1
    <3>2. CASE m \notin got
      BY <1>1, <1>2, <1>6, <2>3, <3>2
    <3> QED
      BY <3>1, <3>2
  <2> QED
    BY <2>2, <2>3
<1> QED
  BY <1>5, <1>6

\* The types of what a step changes.
LEMMA StepTyped ==
    ASSUME CacheTypeOK, NEW t \in Threads, NEW from, NEW to \in CachePoints, NEW got, NEW left,
           Step(t, from, to, got, left)
    PROVE  owner' \in [Mutexes -> Threads \union {Free}] /\ at' \in [Threads -> CachePoints]
<1>1. owner' \in [Mutexes -> Threads \union {Free}]
  <2>1. owner' = [m \in Mutexes |-> IF m \in left THEN Free ELSE IF m \in got THEN t ELSE owner[m]]
    BY DEF Step
  <2>2. \A m \in Mutexes : owner[m] \in Threads \union {Free}
    BY DEF CacheTypeOK
  <2> QED
    BY <2>1, <2>2
<1>2. at' \in [Threads -> CachePoints]
  BY DEF Step, CacheTypeOK
<1> QED
  BY <1>1, <1>2

\* Calls of a kind that were alone stay alone while they go on.
LEMMA StepAlone ==
    ASSUME CacheTypeOK, NEW t \in Threads, NEW from, NEW to, NEW got, NEW left,
           Step(t, from, to, got, left), NEW S, "idle" \notin S, from # "idle",
           to \in S => from \in S,
           \A u \in Threads : at[u] \in S => Busy = {u}
    PROVE  \A u \in Threads : at'[u] \in S => Busy' = {u}
<1> SUFFICES ASSUME NEW u \in Threads, at'[u] \in S PROVE Busy' = {u}
  OBVIOUS
<1>1. at[t] = from /\ at'[t] = to /\ \A v \in Threads : v # t => at'[v] = at[v]
  BY DEF Step, CacheTypeOK
<1>2. at[u] \in S /\ Busy = {u}
  BY <1>1
<1>3. t = u
  BY <1>1, <1>2 DEF Busy
<1> QED
  BY <1>1, <1>2, <1>3 DEF Busy

\* How many are at a point after a step, where no more than one can be.
LEMMA StepCount ==
    ASSUME CacheTypeOK, NEW t \in Threads, NEW from, NEW to, NEW got, NEW left,
           Step(t, from, to, got, left), NEW p,
           at[t] = p => \A u \in Threads : at[u] = p => u = t
    PROVE  /\ AnyAt(p) \in {0, 1} /\ AnyAt(p)' \in {0, 1}
           /\ from # p /\ to # p => AnyAt(p)' = AnyAt(p)
           /\ to = p => AnyAt(p)' = 1
           /\ from = p => AnyAt(p) = 1
           /\ from = p /\ to # p => AnyAt(p)' = 0
<1>1. at[t] = from /\ at'[t] = to /\ \A v \in Threads : v # t => at'[v] = at[v]
  BY DEF Step, CacheTypeOK
<1> QED
  BY <1>1 DEF AnyAt

\* What every step within a call has: it takes the mutexes its next point
\* needs, and a clear or an invalidate does not begin in the middle of a call.
Regular(from, to, got, left) ==
    /\ from \in CachePoints \ {"idle"} /\ to \in CachePoints
    /\ got \subseteq Mutexes
    /\ \A m \in left : m \in got \/ from \in HoldPoints(m)
    /\ \A m \in Mutexes : to \in HoldPoints(m) <=> m \notin left /\ (m \in got \/ from \in HoldPoints(m))
    /\ to \in ClearPoints => from \in ClearPoints
    /\ to \in EmptyingPoints => from \in EmptyingPoints

LEMMA MovesAreRegular ==
    ASSUME NEW t \in Threads, Moves(t)
    PROVE  \E from, to, got, left : Step(t, from, to, got, left) /\ Regular(from, to, got, left)
<1> USE DEF Regular, CachePoints, EmptyingPoints, ClearPoints, PutPoints, Mutexes, HoldPoints
<1>1. CASE GetCache(t)
  <2>1. Regular("get", "get_lru", {"cache"}, {})
    OBVIOUS
  <2>2. Regular("get", "idle", {}, {})
    OBVIOUS
  <2> HIDE DEF Regular
  <2> QED
    BY <1>1, <2>1, <2>2 DEF GetCache
<1>2. CASE GetLru(t)
  <2>1. Regular("get_lru", "idle", {"lru"}, {"lru", "cache"})
    OBVIOUS
  <2> HIDE DEF Regular
  <2> QED
    BY <1>2, <2>1 DEF GetLru
<1>3. CASE PutSize(t)
  <2>1. Regular("put", "put_room", {"size"}, {})
    OBVIOUS
  <2> HIDE DEF Regular
  <2> QED
    BY <1>3, <2>1 DEF PutSize
<1>4. CASE PutRoom(t)
  <2>1. Regular("put_room", "put_evict", {"lru"}, {})
    OBVIOUS
  <2>2. Regular("put_room", "put_cache", {}, {})
    OBVIOUS
  <2> HIDE DEF Regular
  <2> QED
    BY <1>4, <2>1, <2>2 DEF PutRoom
<1>5. CASE PutEvict(t)
  <2>1. Regular("put_evict", "put_room", {"cache"}, {"cache", "lru"})
    OBVIOUS
  <2> HIDE DEF Regular
  <2> QED
    BY <1>5, <2>1 DEF PutEvict
<1>6. CASE PutCache(t)
  <2>1. Regular("put_cache", "put_lru", {"cache"}, {"cache"})
    OBVIOUS
  <2> HIDE DEF Regular
  <2> QED
    BY <1>6, <2>1 DEF PutCache
<1>7. CASE PutLru(t)
  <2>1. Regular("put_lru", "idle", {"lru"}, {"lru", "size"})
    OBVIOUS
  <2> HIDE DEF Regular
  <2> QED
    BY <1>7, <2>1 DEF PutLru
<1>8. CASE InvalidateCache(t)
  <2>1. Regular("invalidate", "invalidate_size", {"cache"}, {})
    OBVIOUS
  <2>2. Regular("invalidate", "invalidate_lru", {}, {})
    OBVIOUS
  <2> HIDE DEF Regular
  <2> QED
    BY <1>8, <2>1, <2>2 DEF InvalidateCache
<1>9. CASE InvalidateSize(t)
  <2>1. Regular("invalidate_size", "invalidate_lru", {"size"}, {"size", "cache"})
    OBVIOUS
  <2> HIDE DEF Regular
  <2> QED
    BY <1>9, <2>1 DEF InvalidateSize
<1>10. CASE InvalidateLru(t)
  <2>1. Regular("invalidate_lru", "idle", {"lru"}, {"lru"})
    OBVIOUS
  <2> HIDE DEF Regular
  <2> QED
    BY <1>10, <2>1 DEF InvalidateLru
<1>11. CASE ClearCache(t)
  <2>1. Regular("clear", "clear_lru", {"cache"}, {"cache"})
    OBVIOUS
  <2> HIDE DEF Regular
  <2> QED
    BY <1>11, <2>1 DEF ClearCache
<1>12. CASE ClearLru(t)
  <2>1. Regular("clear_lru", "clear_size", {"lru"}, {"lru"})
    OBVIOUS
  <2> HIDE DEF Regular
  <2> QED
    BY <1>12, <2>1 DEF ClearLru
<1>13. CASE ClearSize(t)
  <2>1. Regular("clear_size", "idle", {"size"}, {"size"})
    OBVIOUS
  <2> HIDE DEF Regular
  <2> QED
    BY <1>13, <2>1 DEF ClearSize
<1>14. CASE StatsCache(t)
  <2>1. Regular("stats", "stats_size", {"cache"}, {"cache"})
    OBVIOUS
  <2> HIDE DEF Regular
  <2> QED
    BY <1>14, <2>1 DEF StatsCache
<1>15. CASE StatsSize(t)
  <2>1. Regular("stats_size", "idle", {"size"}, {"size"})
    OBVIOUS
  <2> HIDE DEF Regular
  <2> QED
    BY <1>15, <2>1 DEF StatsSize
<1> HIDE DEF Regular
<1> QED
  BY <1>1, <1>2, <1>3, <1>4, <1>5, <1>6, <1>7, <1>8, <1>9, <1>10, <1>11, <1>12, <1>13, <1>14, <1>15 DEF Moves

\* What a step within a call does to the rest, and its types.
LEMMA MovesTyped ==
    ASSUME CacheTypeOK, Evicting, NEW t \in Threads, Moves(t)
    PROVE  CacheTypeOK' /\ arg' = arg /\ overlap' = overlap
<1>1. owner' \in [Mutexes -> Threads \union {Free}] /\ at' \in [Threads -> CachePoints]
  BY MovesAreRegular, StepTyped DEF Regular
<1>2. /\ cached \subseteq CachePages /\ size \in Int /\ lru \in Seq(CachePages) /\ arg[t] \in CachePages
      /\ arg \in [Threads -> CachePages] /\ overlap \subseteq {"clear", "invalidate"}
  BY DEF CacheTypeOK
<1>3. /\ Append(lru, arg[t]) \in Seq(CachePages) /\ Without(lru, arg[t]) \in Seq(CachePages)
      /\ Append(Without(lru, arg[t]), arg[t]) \in Seq(CachePages)
  BY <1>2, AppendFacts, WithoutFacts
<1>4. PutEvict(t) => Tail(lru) \in Seq(CachePages)
  BY <1>2, TailFacts DEF PutEvict, Step, Evicting
<1>5. << >> \in Seq(CachePages) /\ size - 1 \in Int /\ size + 1 \in Int /\ 0 \in Int
  BY <1>2
<1>6. lru' \in Seq(CachePages) /\ size' \in Int
  BY <1>2, <1>3, <1>4, <1>5 DEF Moves, Same, GetCache, GetLru, PutSize, PutRoom, PutEvict, PutCache,
     PutLru, InvalidateCache, InvalidateSize, InvalidateLru, ClearCache, ClearLru, ClearSize,
     StatsCache, StatsSize
<1>7. cached' \subseteq CachePages
  BY <1>2 DEF Moves, Same, GetCache, GetLru, PutSize, PutRoom, PutEvict, PutCache,
     PutLru, InvalidateCache, InvalidateSize, InvalidateLru, ClearCache, ClearLru, ClearSize,
     StatsCache, StatsSize
<1>8. arg' = arg /\ overlap' = overlap
  BY DEF Moves, Same, GetCache, GetLru, PutSize, PutRoom, PutEvict, PutCache,
     PutLru, InvalidateCache, InvalidateSize, InvalidateLru, ClearCache, ClearLru, ClearSize,
     StatsCache, StatsSize
<1> QED
  BY <1>1, <1>2, <1>6, <1>7, <1>8 DEF CacheTypeOK

\* A call begins with no mutex.
LEMMA CallFacts ==
    ASSUME CacheTypeOK, HeldBy, NEW t \in Threads, NEW p \in CachePages, Call(t, p)
    PROVE  /\ CacheTypeOK' /\ HeldBy'
           /\ at[t] = "idle"
           /\ at'[t] \in {"get", "put", "invalidate", "clear", "stats"}
           /\ arg'[t] = p
           /\ \A u \in Threads : u # t => at'[u] = at[u] /\ arg'[u] = arg[u]
           /\ UNCHANGED <<cached, lru, size>>
<1>1. PICK to \in {"get", "put", "invalidate", "clear", "stats"} : Step(t, "idle", to, {}, {})
  BY DEF Call
<1>2. to \in CachePoints
  BY DEF CachePoints, EmptyingPoints, ClearPoints, PutPoints
<1>3. HeldBy'
  <2>1. \A m \in Mutexes : to \notin HoldPoints(m) /\ "idle" \notin HoldPoints(m)
    BY DEF HoldPoints, Mutexes
  <2> QED
    BY <1>1, <2>1, StepHeld
<1>4. /\ at[t] = "idle" /\ at'[t] = to
      /\ \A u \in Threads : u # t => at'[u] = at[u]
  BY <1>1 DEF Step, CacheTypeOK
<1>5. /\ arg' = [arg EXCEPT ![t] = p] /\ arg' \in [Threads -> CachePages] /\ UNCHANGED <<cached, lru, size>>
  BY DEF Call, CacheTypeOK
<1>6. overlap' \subseteq {"clear", "invalidate"}
  BY DEF Call, CacheTypeOK
<1>7. CacheTypeOK'
  BY <1>1, <1>2, <1>5, <1>6, StepTyped DEF CacheTypeOK
<1> QED
  BY <1>3, <1>4, <1>5, <1>7 DEF CacheTypeOK

LEMMA MovesHeld ==
    ASSUME CacheTypeOK, HeldBy, NEW t \in Threads, Moves(t)
    PROVE  HeldBy'
BY MovesAreRegular, StepHeld DEF Regular

LEMMA MovesEvicting ==
    ASSUME CacheTypeOK, HeldBy, Evicting, NEW t \in Threads, Moves(t)
    PROVE  Evicting'
<1> SUFFICES ASSUME NEW u \in Threads, at'[u] = "put_evict" PROVE lru' # << >>
  BY DEF Evicting
<1>1. CASE u = t
  <2>1. PutRoom(t) /\ lru # << >>
    BY <1>1 DEF Moves, Same, GetCache, GetLru, PutSize, PutRoom, PutEvict, PutCache,
     PutLru, InvalidateCache, InvalidateSize, InvalidateLru, ClearCache, ClearLru, ClearSize,
     StatsCache, StatsSize, Step, CacheTypeOK
  <2> QED
    BY <2>1 DEF PutRoom, Same
<1>2. CASE u # t
  <2>1. at[u] = "put_evict" /\ lru # << >>
    BY <1>2 DEF Moves, Same, GetCache, GetLru, PutSize, PutRoom, PutEvict, PutCache,
     PutLru, InvalidateCache, InvalidateSize, InvalidateLru, ClearCache, ClearLru, ClearSize,
     StatsCache, StatsSize, Step, CacheTypeOK, Evicting
  <2>2. owner["lru"] = u /\ owner["lru"] # Free
    BY <2>1, FreeAssumption DEF HeldBy, HoldPoints, Mutexes
  <2>3. at[t] # "put_evict"
    BY <1>2, <2>2 DEF HeldBy, HoldPoints, Mutexes
  <2>4. lru' = lru
    BY <2>2, <2>3 DEF Moves, Same, GetCache, GetLru, PutSize, PutRoom, PutEvict, PutCache,
     PutLru, InvalidateCache, InvalidateSize, InvalidateLru, ClearCache, ClearLru, ClearSize,
     StatsCache, StatsSize, Step
  <2> QED
    BY <2>1, <2>4
<1> QED
  BY <1>1, <1>2

\* Only one thread is at a point that holds a mutex.
LEMMA AloneAtPoints ==
    ASSUME HeldBy, NEW t \in Threads, NEW u \in Threads, at[u] = at[t],
           at[t] \in {"invalidate_size", "put_lru"}
    PROVE  u = t
<1>1. at[t] = "invalidate_size" => owner["cache"] = t /\ owner["cache"] = u
  BY DEF HeldBy, HoldPoints, Mutexes
<1>2. at[t] = "put_lru" => owner["size"] = t /\ owner["size"] = u
  BY DEF HeldBy, HoldPoints, Mutexes
<1> QED
  BY <1>1, <1>2

\* A call that was not alone is in the history, and so is a clear.
LEMMA CallAlone ==
    ASSUME CacheTypeOK, HeldBy, NEW t \in Threads, NEW p \in CachePages, Call(t, p)
    PROVE  /\ overlap \subseteq overlap'
           /\ "clear" \notin overlap' /\ (\A u \in Threads : at[u] \in ClearPoints => Busy = {u}) =>
                 \A u \in Threads : at'[u] \in ClearPoints => Busy' = {u}
           /\ overlap' = {} /\ (\A u \in Threads : at[u] \in EmptyingPoints => Busy = {u}) =>
                 \A u \in Threads : at'[u] \in EmptyingPoints => Busy' = {u}
<1>1. /\ at[t] = "idle" /\ at'[t] # "idle"
      /\ \A u \in Threads : u # t => at'[u] = at[u]
  BY CallFacts
<1>2. Busy' = Busy \union {t} /\ t \notin Busy
  BY <1>1 DEF Busy
<1> DEFINE emptying == IF Busy = {} THEN {} ELSE {u \in Busy \union {t} : at'[u] \in EmptyingPoints}
<1>3. overlap' = overlap \union {IF at'[u] \in ClearPoints THEN "clear" ELSE "invalidate" : u \in emptying}
  BY DEF Call
<1>4. \A u \in Threads : Busy # {} /\ at'[u] \in EmptyingPoints => u \in emptying
  <2>1. \A u \in Threads : at'[u] \in EmptyingPoints => u \in Busy \union {t}
    BY <1>1 DEF Busy, EmptyingPoints, ClearPoints
  <2> QED
    BY <2>1
<1> HIDE DEF emptying
<1>5. ClearPoints \subseteq EmptyingPoints
  BY DEF EmptyingPoints
<1>6. \A u \in Threads : Busy # {} /\ at'[u] \in ClearPoints => "clear" \in overlap'
  BY <1>3, <1>4, <1>5
<1>7. \A u \in Threads : Busy # {} /\ at'[u] \in EmptyingPoints => overlap' # {}
  BY <1>3, <1>4
<1>8. \A u \in Threads : at'[u] \in EmptyingPoints /\ Busy = {} => Busy' = {u}
  BY <1>1, <1>2 DEF EmptyingPoints, ClearPoints, Busy
<1> QED
  BY <1>3, <1>5, <1>6, <1>7, <1>8

LEMMA CallCounted ==
    ASSUME CacheTypeOK, HeldBy, CacheCounted, NEW t \in Threads, NEW p \in CachePages, Call(t, p)
    PROVE  CacheCounted'
<1>1. /\ at[t] = "idle" /\ at'[t] \in {"get", "put", "invalidate", "clear", "stats"}
      /\ \A u \in Threads : u # t => at'[u] = at[u]
      /\ cached' = cached /\ size' = size
  BY CallFacts
<1>2. /\ \A u \in Threads : at'[u] = "invalidate_size" <=> at[u] = "invalidate_size"
      /\ \A u \in Threads : at'[u] = "put_lru" <=> at[u] = "put_lru"
      /\ \A u \in Threads : at'[u] \in {"clear_lru", "clear_size"} <=> at[u] \in {"clear_lru", "clear_size"}
  BY <1>1
<1>3. AnyAt("invalidate_size")' = AnyAt("invalidate_size") /\ AnyAt("put_lru")' = AnyAt("put_lru")
  BY <1>2 DEF AnyAt
<1> QED
  BY <1>1, <1>2, <1>3, CallAlone DEF CacheCounted

\* How a step within a call changes the two sides of the count.
LEMMA MovesCount ==
    ASSUME CacheTypeOK, HeldBy, IsFiniteSet(cached), NEW t \in Threads, Moves(t),
           at[t] \in {"clear_lru", "clear_size"} => cached = {},
           at[t] \in ClearPoints => Busy = {t}
    PROVE  /\ IsFiniteSet(cached')
           /\ Cardinality(cached) + AnyAt("invalidate_size") <= size + AnyAt("put_lru") =>
                 Cardinality(cached') + AnyAt("invalidate_size")' <= size' + AnyAt("put_lru")'
           /\ at'[t] \in {"clear_lru", "clear_size"} => cached' = {}
<1> DEFINE taken == AnyAt("invalidate_size")
           uncounted == AnyAt("put_lru")
           pages == Cardinality(cached)
<1>1. PICK from, to, got, left : Step(t, from, to, got, left) /\ Regular(from, to, got, left)
  BY MovesAreRegular
<1>2. at[t] = from /\ at'[t] = to
  BY <1>1 DEF Step, CacheTypeOK
<1>3. /\ taken \in {0, 1} /\ taken' \in {0, 1}
      /\ from # "invalidate_size" /\ to # "invalidate_size" => taken' = taken
      /\ to = "invalidate_size" => taken' = 1
      /\ from = "invalidate_size" => taken = 1
      /\ from = "invalidate_size" /\ to # "invalidate_size" => taken' = 0
  <2>1. at[t] = "invalidate_size" => \A u \in Threads : at[u] = "invalidate_size" => u = t
    BY AloneAtPoints
  <2> QED
    BY <1>1, <2>1, StepCount
<1>4. /\ uncounted \in {0, 1} /\ uncounted' \in {0, 1}
      /\ from # "put_lru" /\ to # "put_lru" => uncounted' = uncounted
      /\ to = "put_lru" => uncounted' = 1
      /\ from = "put_lru" => uncounted = 1
      /\ from = "put_lru" /\ to # "put_lru" => uncounted' = 0
  <2>1. at[t] = "put_lru" => \A u \in Threads : at[u] = "put_lru" => u = t
    BY AloneAtPoints
  <2> QED
    BY <1>1, <2>1, StepCount
<1>5. pages \in Nat /\ size \in Int /\ (pages = 0 <=> cached = {})
  BY FS_CardinalityType, FS_EmptySet DEF CacheTypeOK
<1>6. \A q : /\ IsFiniteSet(cached \ {q}) /\ IsFiniteSet(cached \union {q})
             /\ Cardinality(cached \ {q}) = IF q \in cached THEN pages - 1 ELSE pages
             /\ Cardinality(cached \union {q}) = IF q \in cached THEN pages ELSE pages + 1
  BY FS_AddElement, FS_RemoveElement
<1>7. IsFiniteSet({}) /\ Cardinality({}) = 0
  BY FS_EmptySet
<1> HIDE DEF taken, uncounted, pages
<1>bits. taken \in Int /\ uncounted \in Int /\ pages \in Int /\ size \in Int
  BY <1>3, <1>4, <1>5
<1>8. CASE GetCache(t) \/ GetLru(t) \/ PutSize(t) \/ PutRoom(t) \/ StatsCache(t) \/ StatsSize(t)
  <2>1. cached' = cached /\ size' = size
    BY <1>8 DEF GetCache, GetLru, PutSize, PutRoom, StatsCache, StatsSize, Same
  <2>2. /\ from \notin {"invalidate_size", "put_lru"} /\ to \notin {"invalidate_size", "put_lru"}
        /\ to \notin {"clear_lru", "clear_size"}
    BY <1>2, <1>8 DEF GetCache, GetLru, PutSize, PutRoom, StatsCache, StatsSize, Step, CacheTypeOK
  <2>3. taken' = taken /\ uncounted' = uncounted
    BY <1>3, <1>4, <2>2
  <2> QED
    BY <1>2, <2>1, <2>2, <2>3 DEF pages, taken, uncounted
<1>9. CASE PutEvict(t)
  <2>1. cached' = cached \ {Head(lru)} /\ size' = IF Head(lru) \in cached THEN size - 1 ELSE size
    BY <1>9 DEF PutEvict, Same
  <2>2. at[t] = "put_evict" /\ at'[t] = "put_room"
    BY <1>9 DEF PutEvict, Step, CacheTypeOK
  <2>3. taken' = taken /\ uncounted' = uncounted
    BY <1>2, <1>3, <1>4, <2>2
  <2>4. /\ IsFiniteSet(cached')
        /\ Cardinality(cached') = IF Head(lru) \in cached THEN pages - 1 ELSE pages
    BY <1>6, <2>1
  <2>5. pages + taken <= size + uncounted => Cardinality(cached') + taken' <= size' + uncounted'
    BY <1>bits, <2>1, <2>3, <2>4
  <2> QED
    BY <2>2, <2>4, <2>5 DEF pages, taken, uncounted
<1>10. CASE PutCache(t)
  <2>1. cached' = cached \union {arg[t]} /\ size' = size
    BY <1>10 DEF PutCache, Same
  <2>2. at[t] = "put_cache" /\ at'[t] = "put_lru"
    BY <1>10 DEF PutCache, Step, CacheTypeOK
  <2>3. taken' = taken /\ uncounted' = 1 /\ uncounted = 0
    <3>1. taken' = taken /\ uncounted' = 1
      BY <1>2, <1>3, <1>4, <2>2
    <3>2. owner["size"] = t
      BY <2>2 DEF HeldBy, HoldPoints, Mutexes
    <3>3. \A u \in Threads : at[u] = "put_lru" => owner["size"] = u
      BY DEF HeldBy, HoldPoints, Mutexes
    <3>4. \A u \in Threads : at[u] # "put_lru"
      BY <2>2, <3>2, <3>3
    <3> QED
      BY <3>1, <3>4 DEF uncounted, AnyAt
  <2>4. IsFiniteSet(cached') /\ Cardinality(cached') \in {pages, pages + 1}
    BY <1>6, <2>1
  <2>5. pages + taken <= size + uncounted => Cardinality(cached') + taken' <= size' + uncounted'
    BY <1>bits, <2>1, <2>3, <2>4
  <2> QED
    BY <2>2, <2>4, <2>5 DEF pages, taken, uncounted
<1>11. CASE PutLru(t)
  <2>1. cached' = cached /\ size' = size + 1
    BY <1>11 DEF PutLru, Same
  <2>2. at[t] = "put_lru" /\ at'[t] = "idle"
    BY <1>11 DEF PutLru, Step, CacheTypeOK
  <2>3. taken' = taken /\ uncounted' = 0 /\ uncounted = 1
    BY <1>2, <1>3, <1>4, <2>2
  <2>4. Cardinality(cached') = pages
    BY <2>1 DEF pages
  <2>5. pages + taken <= size + uncounted => Cardinality(cached') + taken' <= size' + uncounted'
    BY <1>bits, <2>1, <2>3, <2>4
  <2> QED
    BY <2>1, <2>2, <2>5 DEF pages, taken, uncounted
<1>12. CASE InvalidateCache(t) /\ arg[t] \in cached
  <2>1. cached' = cached \ {arg[t]} /\ size' = size
    BY <1>12 DEF InvalidateCache
  <2>2. at[t] = "invalidate" /\ at'[t] = "invalidate_size" /\ owner["cache"] = Free
    BY <1>12 DEF InvalidateCache, Step, CacheTypeOK
  <2>3. taken' = 1 /\ uncounted' = uncounted /\ taken = 0
    <3>1. taken' = 1 /\ uncounted' = uncounted
      BY <1>2, <1>3, <1>4, <2>2
    <3>2. \A u \in Threads : at[u] = "invalidate_size" => owner["cache"] = u
      BY DEF HeldBy, HoldPoints, Mutexes
    <3>3. \A u \in Threads : at[u] # "invalidate_size"
      BY <2>2, <3>2, FreeAssumption
    <3> QED
      BY <3>1, <3>3 DEF taken, AnyAt
  <2>4. IsFiniteSet(cached') /\ Cardinality(cached') = pages - 1
    BY <1>6, <1>12, <2>1
  <2>5. pages + taken <= size + uncounted => Cardinality(cached') + taken' <= size' + uncounted'
    BY <1>bits, <2>1, <2>3, <2>4
  <2> QED
    BY <2>2, <2>4, <2>5 DEF pages, taken, uncounted
<1>13. CASE InvalidateCache(t) /\ arg[t] \notin cached
  <2>1. cached' = cached /\ size' = size
    BY <1>13 DEF InvalidateCache
  <2>2. at[t] = "invalidate" /\ at'[t] = "invalidate_lru"
    BY <1>13 DEF InvalidateCache, Step, CacheTypeOK
  <2>3. taken' = taken /\ uncounted' = uncounted
    BY <1>2, <1>3, <1>4, <2>2
  <2> QED
    BY <2>1, <2>2, <2>3 DEF pages, taken, uncounted
<1>14. CASE InvalidateSize(t)
  <2>1. cached' = cached /\ size' = size - 1
    BY <1>14 DEF InvalidateSize, Same
  <2>2. at[t] = "invalidate_size" /\ at'[t] = "invalidate_lru"
    BY <1>14 DEF InvalidateSize, Step, CacheTypeOK
  <2>3. taken' = 0 /\ taken = 1 /\ uncounted' = uncounted
    BY <1>2, <1>3, <1>4, <2>2
  <2>4. Cardinality(cached') = pages
    BY <2>1 DEF pages
  <2>5. pages + taken <= size + uncounted => Cardinality(cached') + taken' <= size' + uncounted'
    BY <1>bits, <2>1, <2>3, <2>4
  <2> QED
    BY <2>1, <2>2, <2>5 DEF pages, taken, uncounted
<1>15. CASE InvalidateLru(t)
  <2>1. cached' = cached /\ size' = size
    BY <1>15 DEF InvalidateLru, Same
  <2>2. at[t] = "invalidate_lru" /\ at'[t] = "idle"
    BY <1>15 DEF InvalidateLru, Step, CacheTypeOK
  <2>3. taken' = taken /\ uncounted' = uncounted
    BY <1>2, <1>3, <1>4, <2>2
  <2> QED
    BY <2>1, <2>2, <2>3 DEF pages, taken, uncounted
<1>16. CASE ClearCache(t)
  <2>1. cached' = {} /\ size' = size
    BY <1>16 DEF ClearCache, Same
  <2>2. at[t] = "clear" /\ at'[t] = "clear_lru"
    BY <1>16 DEF ClearCache, Step, CacheTypeOK
  <2>3. taken' = taken /\ uncounted' = uncounted
    BY <1>2, <1>3, <1>4, <2>2
  <2>4. Cardinality(cached') = 0
    BY <1>7, <2>1
  <2>5. pages + taken <= size + uncounted => Cardinality(cached') + taken' <= size' + uncounted'
    BY <1>5, <1>bits, <2>1, <2>3, <2>4
  <2> QED
    BY <1>7, <2>1, <2>5 DEF pages, taken, uncounted
<1>17. CASE ClearLru(t)
  <2>1. cached' = cached /\ size' = size
    BY <1>17 DEF ClearLru, Same
  <2>2. at[t] = "clear_lru" /\ at'[t] = "clear_size"
    BY <1>17 DEF ClearLru, Step, CacheTypeOK
  <2>3. taken' = taken /\ uncounted' = uncounted
    BY <1>2, <1>3, <1>4, <2>2
  <2> QED
    BY <2>1, <2>2, <2>3 DEF pages, taken, uncounted
<1>18. CASE ClearSize(t)
  <2>1. cached' = cached /\ size' = 0
    BY <1>18 DEF ClearSize, Same
  <2>2. at[t] = "clear_size" /\ at'[t] = "idle"
    BY <1>18 DEF ClearSize, Step, CacheTypeOK
  <2>3. taken' = taken /\ uncounted' = uncounted
    BY <1>2, <1>3, <1>4, <2>2
  <2>4. pages = 0 /\ Cardinality(cached') = 0
    BY <1>7, <2>1, <2>2 DEF pages
  <2>5. taken = 0
    <3>1. Busy = {t}
      BY <2>2 DEF ClearPoints
    <3>2. \A u \in Threads : at[u] # "invalidate_size"
      BY <2>2, <3>1 DEF Busy
    <3> QED
      BY <3>2 DEF taken, AnyAt
  <2>6. uncounted \in {0, 1}
    BY <1>4
  <2>7. Cardinality(cached') + taken' <= size' + uncounted'
    BY <2>1, <2>3, <2>4, <2>5, <2>6
  <2> QED
    BY <2>1, <2>2, <2>7 DEF taken, uncounted
<1> QED
  BY <1>8, <1>9, <1>10, <1>11, <1>12, <1>13, <1>14, <1>15, <1>16, <1>17, <1>18 DEF Moves

LEMMA MovesQueue ==
    ASSUME CacheTypeOK, Evicting, NEW t \in Threads, Moves(t),
           cached \subseteq ToSet(lru) \union Entering,
           at[t] = "invalidate_lru" => arg[t] \notin cached,
           at[t] = "clear_lru" => cached = {}
    PROVE  cached' \subseteq ToSet(lru') \union Entering'
<1>1. arg' = arg /\ arg[t] \in CachePages /\ lru \in Seq(CachePages)
  BY MovesTyped DEF CacheTypeOK
<1>2. \A u \in Threads : u # t => at'[u] = at[u]
  <2>1. PICK from, to, got, left : Step(t, from, to, got, left)
    BY MovesAreRegular
  <2> QED
    BY <2>1 DEF Step, CacheTypeOK
<1>3. /\ at[t] # "put_lru" => Entering \subseteq Entering'
      /\ at'[t] = "put_lru" => arg[t] \in Entering'
      /\ Entering \subseteq Entering' \union {arg[t]}
  <2>1. \A u \in Threads : at'[u] = "put_lru" => arg[u] \in Entering'
    BY <1>1 DEF Entering
  <2>2. \A e \in Entering : \E u \in Threads : at[u] = "put_lru" /\ arg[u] = e
    BY DEF Entering
  <2>3. \A e \in Entering : e \in Entering' \/ (at[t] = "put_lru" /\ e = arg[t])
    BY <1>2, <2>1, <2>2
  <2> QED
    BY <2>1, <2>3
<1>4. /\ ToSet(Append(lru, arg[t])) = ToSet(lru) \union {arg[t]}
      /\ ToSet(Without(lru, arg[t])) = ToSet(lru) \ {arg[t]}
  <2>1. lru \in Seq(CachePages) /\ arg[t] \in CachePages
    BY <1>1
  <2>2. ToSet(Append(lru, arg[t])) = ToSet(lru) \union {arg[t]}
    BY <2>1, AppendFacts
  <2>3. ToSet(Without(lru, arg[t])) = ToSet(lru) \ {arg[t]}
    BY <2>1, WithoutFacts
  <2> QED
    BY <2>2, <2>3
<1>5. ToSet(Append(Without(lru, arg[t]), arg[t])) = ToSet(Without(lru, arg[t])) \union {arg[t]}
  <2>1. Without(lru, arg[t]) \in Seq(CachePages)
    BY <1>1, WithoutFacts
  <2> QED
    BY <1>1, <2>1, AppendFacts
<1>6. CASE at[t] \in {"get", "put", "put_room", "invalidate", "invalidate_size", "clear", "clear_size",
                     "stats", "stats_size"}
  <2>1. lru' = lru /\ cached' \subseteq cached
    BY <1>6 DEF Moves, Same, GetCache, GetLru, PutSize, PutRoom, PutEvict, PutCache,
     PutLru, InvalidateCache, InvalidateSize, InvalidateLru, ClearCache, ClearLru, ClearSize,
     StatsCache, StatsSize, Step
  <2> QED
    BY <1>3, <1>6, <2>1
<1>7. CASE GetLru(t)
  <2>1. lru' = Append(Without(lru, arg[t]), arg[t]) /\ cached' = cached /\ at[t] # "put_lru"
    BY <1>7 DEF GetLru, Step
  <2> QED
    BY <1>3, <1>4, <1>5, <2>1
<1>8. CASE PutEvict(t)
  <2>1. lru' = Tail(lru) /\ cached' = cached \ {Head(lru)} /\ at[t] = "put_evict"
    BY <1>8 DEF PutEvict, Step
  <2>2. ToSet(lru) = ToSet(Tail(lru)) \union {Head(lru)}
    BY <1>1, <2>1, TailFacts DEF Evicting
  <2> QED
    BY <1>3, <2>1, <2>2
<1>9. CASE PutCache(t)
  <2>1. lru' = lru /\ cached' = cached \union {arg[t]} /\ at[t] = "put_cache" /\ at'[t] = "put_lru"
    BY <1>9 DEF PutCache, Step, CacheTypeOK
  <2> QED
    BY <1>3, <2>1
<1>10. CASE PutLru(t)
  <2>1. lru' = Append(lru, arg[t]) /\ cached' = cached
    BY <1>10 DEF PutLru
  <2> QED
    BY <1>3, <1>4, <2>1
<1>11. CASE InvalidateLru(t)
  <2>1. lru' = Without(lru, arg[t]) /\ cached' = cached /\ at[t] = "invalidate_lru"
    BY <1>11 DEF InvalidateLru, Step
  <2> QED
    BY <1>3, <1>4, <2>1
<1>12. CASE ClearLru(t)
  <2>1. cached' = {}
    BY <1>12 DEF ClearLru, Step
  <2> QED
    BY <2>1
<1> QED
  BY <1>6, <1>7, <1>8, <1>9, <1>10, <1>11, <1>12 DEF Moves, GetCache, PutSize, PutRoom, InvalidateCache,
     InvalidateSize, ClearCache, ClearSize, StatsCache, StatsSize, Step

LEMMA InitCacheInv == CacheInit => CacheInv
<1> SUFFICES ASSUME CacheInit PROVE CacheInv
  OBVIOUS
<1>1. CacheTypeOK
  <2>1. (CHOOSE p \in CachePages : TRUE) \in CachePages
    BY CachePagesAssumption
  <2> QED
    BY <2>1 DEF CacheInit, CacheTypeOK, CachePoints
<1>2. HeldBy
  BY FreeAssumption DEF CacheInit, HeldBy, HoldPoints, Mutexes
<1>3. Evicting
  BY DEF CacheInit, Evicting
<1>4. CacheCounted
  BY FS_EmptySet DEF CacheInit, CacheCounted, AnyAt, ClearPoints
<1>5. CacheQueued
  BY DEF CacheInit, CacheQueued, EmptyingPoints, ClearPoints
<1> QED
  BY <1>1, <1>2, <1>3, <1>4, <1>5 DEF CacheInv

LEMMA CallKeepsCacheInv ==
    ASSUME CacheInv, NEW t \in Threads, NEW p \in CachePages, Call(t, p)
    PROVE  CacheInv'
<1> USE DEF CacheInv
<1>1. /\ CacheTypeOK' /\ HeldBy'
      /\ at[t] = "idle"
      /\ at'[t] \in {"get", "put", "invalidate", "clear", "stats"}
      /\ \A u \in Threads : u # t => at'[u] = at[u] /\ arg'[u] = arg[u]
      /\ UNCHANGED <<cached, lru, size>>
  BY CallFacts
<1>2. Evicting'
  BY <1>1 DEF Evicting
<1>3. CacheCounted'
  BY CallCounted
<1>4. CacheQueued'
  <2> SUFFICES ASSUME overlap' = {} PROVE CacheQueued'
    BY DEF CacheQueued
  <2>1. overlap = {}
    BY CallAlone
  <2>2. \A u \in Threads : at'[u] \in EmptyingPoints => Busy' = {u}
    BY <2>1, CallAlone DEF CacheQueued
  <2>3. \A u \in Threads : at'[u] \in {"invalidate_size", "invalidate_lru"} => arg'[u] \notin cached'
    BY <1>1, <2>1 DEF CacheQueued
  <2>4. Entering' = Entering
    BY <1>1 DEF Entering
  <2>5. cached' \subseteq ToSet(lru') \union Entering'
    BY <1>1, <2>1, <2>4 DEF CacheQueued
  <2> QED
    BY <2>2, <2>3, <2>5 DEF CacheQueued
<1> QED
  BY <1>1, <1>2, <1>3, <1>4

LEMMA MovesKeepCacheInv ==
    ASSUME CacheInv, NEW t \in Threads, Moves(t)
    PROVE  CacheInv'
<1> USE DEF CacheInv
<1>1. CacheTypeOK' /\ HeldBy' /\ Evicting' /\ arg' = arg /\ overlap' = overlap
  BY MovesTyped, MovesHeld, MovesEvicting
<1>2. PICK from, to, got, left : Step(t, from, to, got, left) /\ Regular(from, to, got, left)
  BY MovesAreRegular
<1>3. /\ at[t] = from /\ at'[t] = to /\ from # "idle"
      /\ \A u \in Threads : u # t => at'[u] = at[u]
  BY <1>2 DEF Step, Regular, CacheTypeOK
<1>4. "idle" \notin ClearPoints /\ "idle" \notin EmptyingPoints
  BY DEF EmptyingPoints, ClearPoints
<1>5. IsFiniteSet(cached')
  <2>1. IsFiniteSet(cached) /\ \A q : IsFiniteSet(cached \union {q})
    BY FS_AddElement DEF CacheCounted
  <2>2. IsFiniteSet({})
    BY FS_EmptySet
  <2>3. cached' \subseteq cached \/ cached' = cached \union {arg[t]}
    BY DEF Moves, Same, GetCache, GetLru, PutSize, PutRoom, PutEvict, PutCache,
     PutLru, InvalidateCache, InvalidateSize, InvalidateLru, ClearCache, ClearLru, ClearSize,
     StatsCache, StatsSize
  <2> QED
    BY <2>1, <2>3, FS_Subset
<1>6. CacheCounted'
  <2> SUFFICES ASSUME "clear" \notin overlap PROVE CacheCounted'
    BY <1>1, <1>5 DEF CacheCounted
  <2>1. \A u \in Threads : at[u] \in ClearPoints => Busy = {u}
    BY DEF CacheCounted
  <2>2. \A u \in Threads : at'[u] \in ClearPoints => Busy' = {u}
    BY <1>2, <1>3, <1>4, <2>1, StepAlone DEF Regular
  <2>3. \A u \in Threads : at[u] \in {"clear_lru", "clear_size"} => cached = {}
    BY DEF CacheCounted
  <2>4. Cardinality(cached) + AnyAt("invalidate_size") <= size + AnyAt("put_lru")
    BY DEF CacheCounted
  <2>5. /\ Cardinality(cached') + AnyAt("invalidate_size")' <= size' + AnyAt("put_lru")'
        /\ at'[t] \in {"clear_lru", "clear_size"} => cached' = {}
    <3>1. IsFiniteSet(cached)
      BY DEF CacheCounted
    <3> QED
      BY <2>1, <2>3, <2>4, <3>1, MovesCount
  <2>6. \A u \in Threads : at'[u] \in {"clear_lru", "clear_size"} => u = t
    <3> SUFFICES ASSUME NEW u \in Threads, at'[u] \in {"clear_lru", "clear_size"}, u # t PROVE FALSE
      OBVIOUS
    <3>1. at[u] \in ClearPoints
      BY <1>3 DEF ClearPoints
    <3>2. t \in Busy
      BY <1>3 DEF Busy
    <3> QED
      BY <2>1, <3>1, <3>2
  <2> QED
    BY <1>5, <2>2, <2>5, <2>6 DEF CacheCounted
<1>7. CacheQueued'
  <2> SUFFICES ASSUME overlap = {} PROVE CacheQueued'
    BY <1>1 DEF CacheQueued
  <2>1. \A u \in Threads : at[u] \in EmptyingPoints => Busy = {u}
    BY DEF CacheQueued
  <2>2. \A u \in Threads : at'[u] \in EmptyingPoints => Busy' = {u}
    BY <1>2, <1>3, <1>4, <2>1, StepAlone DEF Regular
  <2>3. \A u \in Threads : at[u] \in {"invalidate_size", "invalidate_lru"} => arg[u] \notin cached
    BY DEF CacheQueued
  <2>4. \A u \in Threads : at'[u] \in {"invalidate_size", "invalidate_lru"} => arg'[u] \notin cached'
    <3> SUFFICES ASSUME NEW u \in Threads, at'[u] \in {"invalidate_size", "invalidate_lru"}
                 PROVE  arg[u] \notin cached'
      BY <1>1
    <3>1. u = t
      <4> SUFFICES ASSUME u # t PROVE FALSE
        OBVIOUS
      <4>1. at[u] \in EmptyingPoints
        BY <1>3 DEF EmptyingPoints
      <4>2. t \in Busy
        BY <1>3 DEF Busy
      <4> QED
        BY <2>1, <4>1, <4>2
    <3>2. at'[t] \in {"invalidate_size", "invalidate_lru"}
      BY <3>1
    <3>3. \/ at[t] \in {"invalidate_size", "invalidate_lru"} /\ cached' = cached
          \/ cached' = cached \ {arg[t]}
      BY <3>2 DEF Moves, Same, GetCache, GetLru, PutSize, PutRoom, PutEvict, PutCache,
     PutLru, InvalidateCache, InvalidateSize, InvalidateLru, ClearCache, ClearLru, ClearSize,
     StatsCache, StatsSize, Step, CacheTypeOK
    <3> QED
      BY <2>3, <3>1, <3>3
  <2>5. cached' \subseteq ToSet(lru') \union Entering'
    <3>1. at[t] = "clear_lru" => cached = {}
      BY DEF CacheCounted
    <3>2. cached \subseteq ToSet(lru) \union Entering
      BY DEF CacheQueued
    <3> QED
      BY <2>3, <3>1, <3>2, MovesQueue
  <2> QED
    BY <2>2, <2>4, <2>5 DEF CacheQueued
<1> QED
  BY <1>1, <1>6, <1>7

LEMMA CacheStep == CacheInv /\ [CacheNext]_cacheVars => CacheInv'
<1> SUFFICES ASSUME CacheInv, [CacheNext]_cacheVars PROVE CacheInv'
  OBVIOUS
<1>1. CASE UNCHANGED cacheVars
  BY <1>1 DEF cacheVars, CacheInv, CacheTypeOK, HeldBy, Evicting, CacheCounted, CacheQueued, Busy, AnyAt, Entering
<1>2. CASE CacheNext
  BY <1>2, CallKeepsCacheInv, MovesKeepCacheInv DEF CacheNext
<1> QED
  BY <1>1, <1>2

LEMMA CacheInvHolds == CacheSpec => []CacheInv
BY CacheStep, InitCacheInv, PTL DEF CacheSpec

\* Threads that wait for each other are there only with one in put, the only
\* call that takes the map last (cache.rs:108): reads, invalidations, clears and
\* statistics of any number of threads cannot stop each other.
THEOREM OnlyPutsDeadlock == CacheSpec => []OnlyPutDeadlocks
<1>1. CacheInv => OnlyPutDeadlocks
  <2> SUFFICES ASSUME CacheInv, NEW S \in SUBSET Busy, S # {}, \A t \in S : owner[Wanted(t)] \in S,
                      \A t \in S : at[t] \notin PutPoints
               PROVE  FALSE
    BY DEF OnlyPutDeadlocks
  <2>1. S \subseteq Threads
    BY DEF Busy
  <2>2. \A t \in S : Wanted(t) \in Mutexes
    BY DEF Wanted, Mutexes
  <2>3. \A t \in S : owner["size"] # t /\ owner["lru"] # t
    BY <2>1 DEF CacheInv, HeldBy, HoldPoints, Mutexes, PutPoints
  <2>4. \A t \in S : Wanted(t) = "cache"
    BY <2>2, <2>3 DEF Mutexes
  <2>5. PICK t \in S : owner["cache"] = t
    BY <2>4
  <2>6. at[t] \in {"get_lru", "invalidate_size"}
    BY <2>1, <2>5 DEF CacheInv, HeldBy, HoldPoints, Mutexes
  <2> QED
    BY <2>4, <2>6 DEF Wanted
<1> QED
  BY <1>1, CacheInvHolds, PTL

\* Between calls the size is at least the number of cached pages, so invalidate
\* never takes from zero, and a cached page is queued for eviction
\* (cache.rs:115), unless clear or invalidate ran beside another call.
THEOREM SizeCoversPages == CacheSpec => []SizeCovers
<1>1. CacheInv => SizeCovers
  <2> SUFFICES ASSUME CacheInv, Busy = {} PROVE SizeCovers
    BY DEF SizeCovers
  <2>1. \A t \in Threads : at[t] = "idle"
    BY DEF Busy
  <2>2. AnyAt("invalidate_size") = 0 /\ AnyAt("put_lru") = 0 /\ Entering = {}
    BY <2>1 DEF AnyAt, Entering
  <2>3. IsFiniteSet(cached) /\ size \in Int /\ Cardinality(cached) \in Nat
    BY FS_CardinalityType DEF CacheInv, CacheCounted, CacheTypeOK
  <2>4. "clear" \notin overlap => Cardinality(cached) + 0 <= size + 0
    BY <2>2 DEF CacheInv, CacheCounted
  <2>5. overlap = {} => cached \subseteq ToSet(lru)
    BY <2>2 DEF CacheInv, CacheQueued
  <2> QED
    BY <2>3, <2>4, <2>5 DEF SizeCovers
<1> QED
  BY <1>1, CacheInvHolds, PTL
=============================================================================
