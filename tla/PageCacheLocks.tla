--------------------------- MODULE PageCacheLocks ---------------------------
(***************************************************************************)
(* PageCache (pager/cache.rs): a map of pages, a queue of their ids and a  *)
(* size, each under a mutex of its own, which rayon's threads (read_pages) *)
(* call together.  A step runs from one mutex to the next; a thread that   *)
(* wants a mutex waits for it with the ones it holds.  Pages are of one    *)
(* size, the unit.  access_count is always the innermost mutex and is left *)
(* out.                                                                    *)
(***************************************************************************)
EXTENDS Integers, Sequences, FiniteSets, Queues

CONSTANTS
    Threads,
    CachePages,
    MaxSize,     \* max_size, in pages
    Overrun,     \* bound: how far the size may run away (see put)
    Free         \* no thread

ASSUME FreeAssumption == Free \notin Threads
ASSUME CachePagesAssumption == CachePages # {}

Mutexes == {"cache", "lru", "size"}

VARIABLES
    owner,       \* who holds each mutex
    at, arg,     \* per thread: the point of its call, and the call's page
    cached,      \* cache: the pages in the map
    lru,         \* lru
    size,        \* current_size
    overlap      \* history: which of clear and invalidate ran beside a call

cacheVars == <<owner, at, arg, cached, lru, size, overlap>>

CacheInit ==
    /\ owner = [m \in Mutexes |-> Free]
    /\ at = [t \in Threads |-> "idle"] /\ arg = [t \in Threads |-> CHOOSE p \in CachePages : TRUE]
    /\ cached = {} /\ lru = << >> /\ size = 0 /\ overlap = {}

Busy == {t \in Threads : at[t] # "idle"}

---------------------------------------------------------------------------
(***************************************************************************)
(* A step of thread t: it moves on from one point of its call to another,  *)
(* having got the mutexes `got' and given back `left'.                     *)
(***************************************************************************)
Step(t, from, to, got, left) ==
    /\ at[t] = from /\ at' = [at EXCEPT ![t] = to]
    /\ \A m \in got : owner[m] = Free
    /\ owner' = [m \in Mutexes |-> IF m \in left THEN Free
                                   ELSE IF m \in got THEN t ELSE owner[m]]

Same == UNCHANGED <<arg, cached, lru, size, overlap>>

ClearPoints    == {"clear", "clear_lru", "clear_size", "clear_locked"}
EmptyingPoints == ClearPoints \union {"invalidate", "invalidate_size", "invalidate_lru"}
PutPoints      == {"put", "put_room", "put_evict", "put_cache", "put_lru"}

Call(t, p) ==
    /\ \E to \in {"get", "put", "invalidate", "clear", "stats"} :
          Step(t, "idle", to, {}, {}) /\ (to = "put" => size + Len(lru) < Overrun)
    /\ arg' = [arg EXCEPT ![t] = p]
    /\ LET emptying == IF Busy = {} THEN {} ELSE {u \in Busy \union {t} : at'[u] \in EmptyingPoints}
       IN  overlap' = overlap \union {IF at'[u] \in ClearPoints THEN "clear" ELSE "invalidate" :
                                         u \in emptying}
    /\ UNCHANGED <<cached, lru, size>>

\* get: cache, and under it lru.
GetCache(t) ==
    /\ IF arg[t] \in cached THEN Step(t, "get", "get_lru", {"cache"}, {})
                            ELSE owner["cache"] = Free /\ Step(t, "get", "idle", {}, {})
    /\ Same

GetLru(t) ==
    /\ Step(t, "get_lru", "idle", {"lru"}, {"lru", "cache"})
    /\ lru' = Append(Without(lru, arg[t]), arg[t])
    /\ UNCHANGED <<arg, cached, size, overlap>>

\* put: size for the whole call; while the page does not fit, lru and under it
\* cache, to evict the first page queued.
PutSize(t) ==
    /\ Step(t, "put", "put_room", {"size"}, {})
    /\ Same

PutRoom(t) ==
    /\ IF size + 1 > MaxSize
       THEN IF lru # << >> THEN Step(t, "put_room", "put_evict", {"lru"}, {})
                           ELSE owner["lru"] = Free /\ Step(t, "put_room", "put_cache", {}, {})
       ELSE Step(t, "put_room", "put_cache", {}, {})
    /\ Same

PutEvict(t) ==
    /\ Step(t, "put_evict", "put_room", {"cache"}, {"cache", "lru"})
    /\ lru' = Tail(lru) /\ cached' = cached \ {Head(lru)}
    /\ size' = IF Head(lru) \in cached THEN size - 1 ELSE size
    /\ UNCHANGED <<arg, overlap>>

PutCache(t) ==
    /\ Step(t, "put_cache", "put_lru", {"cache"}, {"cache"})
    /\ cached' = cached \union {arg[t]}
    /\ UNCHANGED <<arg, lru, size, overlap>>

\* The size goes up also for a page that was there already.
PutLru(t) ==
    /\ Step(t, "put_lru", "idle", {"lru"}, {"lru", "size"})
    /\ lru' = Append(lru, arg[t]) /\ size' = size + 1
    /\ UNCHANGED <<arg, cached, overlap>>

\* invalidate: cache, and under it size if the page was there; then lru.
InvalidateCache(t) ==
    /\ IF arg[t] \in cached
       THEN Step(t, "invalidate", "invalidate_size", {"cache"}, {})
       ELSE owner["cache"] = Free /\ Step(t, "invalidate", "invalidate_lru", {}, {})
    /\ cached' = cached \ {arg[t]}
    /\ UNCHANGED <<arg, lru, size, overlap>>

\* Mutation: a page goes with its size and with the size of its first put.
InvalidateTwice(t) ==
    /\ Step(t, "invalidate_size", "invalidate_lru", {"size"}, {"size", "cache"})
    /\ size' = size - 2
    /\ UNCHANGED <<arg, cached, lru, overlap>>

InvalidateSize(t) ==
    /\ Step(t, "invalidate_size", "invalidate_lru", {"size"}, {"size", "cache"})
    /\ size' = size - 1
    /\ UNCHANGED <<arg, cached, lru, overlap>>

InvalidateLru(t) ==
    /\ Step(t, "invalidate_lru", "idle", {"lru"}, {"lru"})
    /\ lru' = Without(lru, arg[t])
    /\ UNCHANGED <<arg, cached, size, overlap>>

\* Mutation: clear holds the size while it waits for the map.
ClearLocked(t) ==
    \/ Step(t, "clear", "clear_locked", {"size"}, {}) /\ Same
    \/ /\ Step(t, "clear_locked", "clear_lru", {"cache"}, {"cache", "size"})
       /\ cached' = {} /\ UNCHANGED <<arg, lru, size, overlap>>

\* clear: the three mutexes one after the other.
ClearCache(t) ==
    /\ Step(t, "clear", "clear_lru", {"cache"}, {"cache"})
    /\ cached' = {} /\ UNCHANGED <<arg, lru, size, overlap>>

ClearLru(t) ==
    /\ Step(t, "clear_lru", "clear_size", {"lru"}, {"lru"})
    /\ lru' = << >> /\ UNCHANGED <<arg, cached, size, overlap>>

ClearSize(t) ==
    /\ Step(t, "clear_size", "idle", {"size"}, {"size"})
    /\ size' = 0 /\ UNCHANGED <<arg, cached, lru, overlap>>

\* stats: cache, then size.
StatsCache(t) == Step(t, "stats", "stats_size", {"cache"}, {"cache"}) /\ Same

StatsSize(t) == Step(t, "stats_size", "idle", {"size"}, {"size"}) /\ Same

Moves(t) ==
    \/ GetCache(t) \/ GetLru(t)
    \/ PutSize(t) \/ PutRoom(t) \/ PutEvict(t) \/ PutCache(t) \/ PutLru(t)
    \/ InvalidateCache(t) \/ InvalidateSize(t) \/ InvalidateLru(t)
    \/ ClearCache(t) \/ ClearLru(t) \/ ClearSize(t)
    \/ StatsCache(t) \/ StatsSize(t)

CacheNext == \E t \in Threads : Moves(t) \/ \E p \in CachePages : Call(t, p)

CacheSpec == CacheInit /\ [][CacheNext]_cacheVars

---------------------------------------------------------------------------
CachePoints ==
    {"idle", "get", "get_lru", "stats", "stats_size"}
       \union EmptyingPoints \union PutPoints

CacheTypeOK ==
    /\ owner \in [Mutexes -> Threads \union {Free}] /\ at \in [Threads -> CachePoints]
    /\ arg \in [Threads -> CachePages] /\ cached \subseteq CachePages
    /\ lru \in Seq(CachePages) /\ size \in Int /\ overlap \subseteq {"clear", "invalidate"}

\* The mutex a thread needs next.
Wanted(t) ==
    IF at[t] \in {"get_lru", "put_room", "put_lru", "invalidate_lru", "clear_lru"} THEN "lru"
    ELSE IF at[t] \in {"put", "invalidate_size", "clear_size", "stats_size"} THEN "size"
    ELSE "cache"

\* Threads that wait for each other are there only when one of them is in put,
\* which alone takes the map last (cache.rs:108): reads, invalidations and
\* clears of any number of threads cannot stop each other.
OnlyPutDeadlocks ==
    \A S \in SUBSET Busy :
        S # {} /\ (\A t \in S : owner[Wanted(t)] \in S) => \E t \in S : at[t] \in PutPoints

\* Between calls the size counts at least the pages that are cached, so that
\* invalidate never takes from zero, and each of them is queued for eviction
\* (cache.rs:115).  Only a clear beside another call breaks the first, and only
\* a clear or an invalidate the second.
SizeCovers ==
    Busy = {} => /\ "clear" \notin overlap => Cardinality(cached) <= size
                 /\ overlap = {} => cached \subseteq ToSet(lru)
=============================================================================
