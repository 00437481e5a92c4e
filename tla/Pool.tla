-------------------------------- MODULE Pool --------------------------------
(***************************************************************************)
(* Sql6Pool (sql6/pool.py): threads that take connections from a queue and *)
(* put them back.  The queue has a lock of its own; the pool's lock guards *)
(* the count of connections made, and is held while one is made.           *)
(***************************************************************************)
EXTENDS Naturals, Sequences, FiniteSets, SequencesExt

CONSTANTS
    Users,            \* threads
    Conns,            \* bound: connections that exist at a time
    MaxConnections, MinIdle,
    MaxGets,          \* bound: get calls of a thread
    NoConn

ASSUME ConnsAssumption ==
    IsFiniteSet(Conns) /\ Conns \intersect Users = {} /\ NoConn \notin Conns \union Users
ASSUME LimitsAssumption ==
    /\ MaxConnections \in Nat
    /\ \E S \in SUBSET Conns : Cardinality(S) = MinIdle

Points == {"idle", "waiting", "counting", "creating", "stale", "replacing", "holding",
           "closing", "shutting", "resetting"}

VARIABLES
    queue,            \* _pool
    created,          \* _created_count
    busy,             \* who holds the pool's lock, or NoConn
    step,             \* per thread: where its call is
    conn,             \* per thread: the connection it was given last, or NoConn
    taken,            \* per thread: the connection it took from the queue to close it
    gets,             \* calls of get so far
    open,             \* the connections that are open
    twice,            \* history: was one given back twice?
    uncounted         \* history: the open connections that were there when close_all set
                      \* the count to 0, and the threads that were to replace one

ghostVars == <<twice, uncounted>>
poolVars  == <<queue, created, busy, step, conn, taken, gets, open, ghostVars>>

PoolInit ==
    /\ open = CHOOSE S \in SUBSET Conns : Cardinality(S) = MinIdle
    /\ queue = SetToSeq(open) /\ created = MinIdle /\ busy = NoConn
    /\ step = [u \in Users |-> "idle"] /\ gets = [u \in Users |-> 0]
    /\ conn = [u \in Users |-> NoConn] /\ taken = [u \in Users |-> NoConn]
    /\ twice = FALSE /\ uncounted = {}

Goes(u, from, to) == step[u] = from /\ step' = [step EXCEPT ![u] = to]

Holding   == {u \in Users : step[u] = "holding"}
Replacing == {u \in Users : step[u] = "replacing"}

---------------------------------------------------------------------------
Get(u) ==
    /\ Goes(u, "idle", "waiting") /\ gets[u] < MaxGets
    /\ gets' = [gets EXCEPT ![u] = @ + 1]
    /\ UNCHANGED <<queue, created, busy, conn, taken, open, ghostVars>>

\* Mutation: a connection not used for long is closed, and given out.
TakeStale(u) ==
    /\ queue # << >> /\ queue' = Tail(queue)
    /\ Goes(u, "waiting", "holding")
    /\ conn' = [conn EXCEPT ![u] = Head(queue)]
    /\ open' \in {open, open \ {Head(queue)}}
    /\ UNCHANGED <<created, busy, taken, gets, ghostVars>>

\* queue.get has a connection; one not used for long is to be closed and replaced.
Take(u) ==
    /\ queue # << >> /\ queue' = Tail(queue)
    /\ \/ /\ Goes(u, "waiting", "holding")
          /\ conn' = [conn EXCEPT ![u] = Head(queue)] /\ UNCHANGED taken
       \/ /\ Goes(u, "waiting", "stale")
          /\ taken' = [taken EXCEPT ![u] = Head(queue)] /\ UNCHANGED conn
    /\ UNCHANGED <<created, busy, gets, open, ghostVars>>

\* The connection that was taken for it is closed.
Shut(u) ==
    /\ \/ /\ Goes(u, "stale", "replacing")
          /\ uncounted' = {x \in uncounted : x # taken[u]}
                              \union {v \in {u} : taken[u] \in uncounted}
       \/ /\ Goes(u, "shutting", "closing")
          /\ uncounted' = uncounted \ {taken[u]}
    /\ open' = open \ {taken[u]}
    /\ taken' = [taken EXCEPT ![u] = NoConn]
    /\ UNCHANGED <<queue, created, busy, conn, gets, twice>>

\* queue.Empty: the timeout is over.
TimeOut(u) ==
    /\ queue = << >> /\ Goes(u, "waiting", "counting")
    /\ UNCHANGED <<queue, created, busy, conn, taken, gets, open, ghostVars>>

\* Mutation: the limit is looked at before the lock is taken.
CountLate(u) ==
    /\ created' = created + 1 /\ busy = NoConn /\ busy' = u
    /\ Goes(u, "counting", "creating")
    /\ UNCHANGED <<queue, conn, taken, gets, open, ghostVars>>

\* Under the lock: another connection may be made, or get raises TimeoutError.
Count(u) ==
    /\ busy = NoConn
    /\ IF created < MaxConnections
       THEN created' = created + 1 /\ busy' = u /\ Goes(u, "counting", "creating")
       ELSE UNCHANGED <<created, busy>> /\ Goes(u, "counting", "idle")
    /\ UNCHANGED <<queue, conn, taken, gets, open, ghostVars>>

\* _create_pooled_connection: the connection is made, or an exception leaves get
\* (and the lock) with the count as it is.
Create(u) ==
    /\ \/ Goes(u, "creating", "holding") \/ Goes(u, "replacing", "holding")
    /\ \E c \in Conns \ open :
          /\ open' = open \union {c} /\ conn' = [conn EXCEPT ![u] = c]
          /\ uncounted' = (uncounted \ {u}) \union {d \in {c} : u \in uncounted}
    /\ busy' = IF busy = u THEN NoConn ELSE busy
    /\ UNCHANGED <<queue, created, taken, gets, twice>>

\* Mutation: the lock is taken and given back by hand, and not after an exception.
FailLocked(u) ==
    /\ \/ Goes(u, "creating", "idle") \/ Goes(u, "replacing", "idle")
    /\ uncounted' = uncounted \ {u}
    /\ UNCHANGED <<queue, created, busy, conn, taken, gets, open, twice>>

Fail(u) ==
    /\ \/ Goes(u, "creating", "idle") \/ Goes(u, "replacing", "idle")
    /\ uncounted' = uncounted \ {u}
    /\ busy' = IF busy = u THEN NoConn ELSE busy
    /\ UNCHANGED <<queue, created, conn, taken, gets, open, twice>>

\* close of a pooled connection: it goes back to the queue, which has no bound.
Return(u) ==
    /\ Goes(u, "holding", "idle")
    /\ queue' = Append(queue, conn[u])
    /\ UNCHANGED <<created, busy, conn, taken, gets, open, ghostVars>>

\* Nothing stops a second close (by hand, and at the end of a with).
ReturnAgain(u) ==
    /\ step[u] = "idle" /\ conn[u] # NoConn /\ ~twice
    /\ queue' = Append(queue, conn[u]) /\ twice' = TRUE
    /\ UNCHANGED <<created, busy, step, conn, taken, gets, open, uncounted>>

\* close_all: connections are taken from the queue and closed one by one.
CloseTake(u) ==
    /\ queue # << >> /\ queue' = Tail(queue)
    /\ step[u] \in {"idle", "closing"} /\ step' = [step EXCEPT ![u] = "shutting"]
    /\ taken' = [taken EXCEPT ![u] = Head(queue)]
    /\ UNCHANGED <<created, busy, conn, gets, open, ghostVars>>

\* queue.Empty ends the loop; the pool's lock is not held yet.
CloseSeen(u) ==
    /\ queue = << >>
    /\ step[u] \in {"idle", "closing"} /\ step' = [step EXCEPT ![u] = "resetting"]
    /\ UNCHANGED <<queue, created, busy, conn, taken, gets, open, ghostVars>>

\* Then the count is set to 0, whatever came back to the queue or is in use.
CloseEnd(u) ==
    /\ busy = NoConn /\ Goes(u, "resetting", "idle")
    /\ created' = 0
    /\ uncounted' = open \union Replacing
    /\ UNCHANGED <<queue, busy, conn, taken, gets, open, twice>>

\* What a thread in a call of get does.
Proceed(u) ==
    \/ Take(u) \/ TimeOut(u) \/ Count(u) \/ Create(u) \/ Fail(u)
    \/ step[u] = "stale" /\ Shut(u)

PoolNext == \E u \in Users :
    \/ Get(u) \/ Proceed(u) \/ Return(u) \/ ReturnAgain(u)
    \/ CloseTake(u) \/ Shut(u) \/ CloseSeen(u) \/ CloseEnd(u)

PoolFairness == \A u \in Users : WF_poolVars(Proceed(u))

PoolSpec == PoolInit /\ [][PoolNext]_poolVars /\ PoolFairness

---------------------------------------------------------------------------
PoolTypeOK ==
    /\ queue \in Seq(Conns) /\ open \subseteq Conns /\ created \in Nat
    /\ busy \in Users \union {NoConn}
    /\ step \in [Users -> Points] /\ gets \in [Users -> Nat]
    /\ conn \in [Users -> Conns \union {NoConn}] /\ taken \in [Users -> Conns \union {NoConn}]
    /\ twice \in BOOLEAN /\ uncounted \subseteq open \union Replacing

\* A connection that was taken is nobody else's, and it is open (pool.py:71),
\* as long as none was given back twice.
NotShared ==
    ~twice => /\ \A u, v \in Holding : conn[u] = conn[v] => u = v
              /\ \A u \in Holding : conn[u] \in open /\ ~Contains(queue, conn[u])

\* Every open connection is counted, but for those that were there when close_all
\* set the count to 0 (pool.py:113) and what replaces them; and no more are counted
\* than max_connections (pool.py:85), or than min_idle where that is more (nothing
\* compares the two).  So the limit is exceeded by what close_all forgot and by
\* nothing else, also long after it, as long as none was given back twice.
Bounded ==
    ~twice => /\ Cardinality(open \ uncounted) <= created
              /\ (created <= MaxConnections \/ created <= MinIdle)

\* Every get ends (pool.py:66): with a connection or with an exception, also when
\* a connection cannot be made while others wait for the lock.
GetEnds == \A u \in Users : step[u] = "waiting" ~> step[u] \in {"holding", "idle"}
=============================================================================
