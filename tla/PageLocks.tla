----------------------------- MODULE PageLocks -----------------------------
(***************************************************************************)
(* PageLockManager (pager/page_lock.rs): shared and exclusive locks on     *)
(* pages.  A call that cannot have its lock fails at once; a lock is given *)
(* back when its guard is dropped.  Every call runs under one RwLock, so   *)
(* it is one step.                                                         *)
(***************************************************************************)
EXTENDS Naturals, FiniteSets

CONSTANTS
    LockPages,   \* page ids
    Guards       \* bound: the guard objects

ASSUME LockPagesAssumption == LockPages # {}
ASSUME GuardsAssumption == IsFiniteSet(Guards)

Shared    == "Shared"
Exclusive == "Exclusive"
NotHeld   == "NotHeld"

VARIABLES
    shared,      \* shared_count of every page, 0 where there is no entry
    exclusive,   \* the pages with an exclusive_holder
    mode,        \* of every guard object: the mode it was given, or NotHeld
    page,        \* ... and the page it was last given
    forced       \* history: pages release_all took from under a guard

guardVars == <<mode, page>>
lockVars  == <<shared, exclusive, guardVars, forced>>

Live(p)      == {g \in Guards : mode[g] # NotHeld /\ page[g] = p}
LiveIn(p, m) == {g \in Live(p) : mode[g] = m}

LocksInit ==
    /\ shared = [p \in LockPages |-> 0] /\ exclusive = {}
    /\ mode = [g \in Guards |-> NotHeld] /\ forced = {}
    /\ page = [g \in Guards |-> CHOOSE p \in LockPages : TRUE]

Give(g, p, m) == mode' = [mode EXCEPT ![g] = m] /\ page' = [page EXCEPT ![g] = p]

LockShared(g, p) ==
    /\ mode[g] = NotHeld /\ p \notin exclusive
    /\ shared' = [shared EXCEPT ![p] = @ + 1]
    /\ Give(g, p, Shared)
    /\ UNCHANGED <<exclusive, forced>>

\* Mutation: only another writer blocks a writer.
LockExclusiveOverReaders(g, p) ==
    /\ mode[g] = NotHeld /\ p \notin exclusive
    /\ exclusive' = exclusive \union {p}
    /\ Give(g, p, Exclusive)
    /\ UNCHANGED <<shared, forced>>

LockExclusive(g, p) ==
    /\ mode[g] = NotHeld /\ shared[p] = 0 /\ p \notin exclusive
    /\ exclusive' = exclusive \union {p}
    /\ Give(g, p, Exclusive)
    /\ UNCHANGED <<shared, forced>>

\* A page without guards is no longer in doubt.
Dropped(g) ==
    /\ mode' = [mode EXCEPT ![g] = NotHeld] /\ UNCHANGED page
    /\ forced' = IF Live(page[g]) = {g} THEN forced \ {page[g]} ELSE forced

\* Mutation: a reader's drop gives its count back only when it is the last.
DropLast(g) ==
    /\ mode[g] = Shared /\ Dropped(g)
    /\ shared' = IF shared[page[g]] > 1 THEN shared
                 ELSE [shared EXCEPT ![page[g]] = 0]
    /\ UNCHANGED exclusive

\* Mutation: a count that release_all took already is taken again.
DropBelow(g) ==
    /\ mode[g] = Shared /\ Dropped(g)
    /\ shared' = [shared EXCEPT ![page[g]] = @ - 1]
    /\ UNCHANGED exclusive

\* Drop of a shared guard; release_all may have taken its count already.
DropShared(g) ==
    /\ mode[g] = Shared /\ Dropped(g)
    /\ shared' = [shared EXCEPT ![page[g]] = IF @ = 0 THEN 0 ELSE @ - 1]
    /\ UNCHANGED exclusive

\* Drop of an exclusive guard, whoever holds the page now.
DropExclusive(g) ==
    /\ mode[g] = Exclusive /\ Dropped(g)
    /\ exclusive' = exclusive \ {page[g]}
    /\ UNCHANGED shared

\* release_all empties the map and leaves the guards.
ReleaseAll ==
    /\ shared' = [p \in LockPages |-> 0] /\ exclusive' = {}
    /\ forced' = {p \in LockPages : Live(p) # {}}
    /\ UNCHANGED guardVars

LocksNext ==
    \/ \E g \in Guards : \/ \E p \in LockPages : LockShared(g, p) \/ LockExclusive(g, p)
                         \/ DropShared(g) \/ DropExclusive(g)
    \/ ReleaseAll

LocksSpec == LocksInit /\ [][LocksNext]_lockVars

---------------------------------------------------------------------------
LocksTypeOK ==
    /\ shared \in [LockPages -> Nat] /\ exclusive \subseteq LockPages
    /\ mode \in [Guards -> {Shared, Exclusive, NotHeld}] /\ page \in [Guards -> LockPages]
    /\ forced \subseteq LockPages

\* A guard to write excludes every other guard on its page
\* (page_lock.rs:61), unless release_all forgot a guard that is still there.
Exclusion ==
    \A g, h \in Guards :
        /\ g # h /\ mode[g] # NotHeld /\ mode[h] # NotHeld
        /\ page[g] = page[h] /\ page[g] \notin forced
        => mode[g] = Shared

\* A lock that is left has a guard that will give it back (page_lock.rs:117),
\* also after release_all: no order of drops blocks a page for ever.
NoLockLeaks ==
    \A p \in LockPages :
        /\ shared[p] <= Cardinality(LiveIn(p, Shared))
        /\ p \in exclusive => LiveIn(p, Exclusive) # {}
=============================================================================
