CONSTANTS
    Clients = {c1, c2}
    MaxSent = 2
    NoTxn = NoTxn
    NoTable = NoTable
    Users = {u1, u2}
    Conns = {1, 2, 3}
    MaxConnections = 2
    MinIdle = 1
    MaxGets = 2
    NoConn = NoConn
    LockPages = {p1, p2}
    Guards = {g1, g2, g3}
    Threads = {t1, t2}
    CachePages = {p1, p2}
    MaxSize = 1
    Overrun = 3
    Free = Free
SPECIFICATION ActorsSpec
CHECK_DEADLOCK FALSE
INVARIANTS
    TypesOK
    RollbackExact
    FtsRowsKept
    NotShared
    Bounded
    Exclusion
    NoLockLeaks
    OnlyPutDeadlocks
    SizeCovers
PROPERTIES
    Answered
    GetEnds
