----------------------------- MODULE MCSessions -----------------------------
(***************************************************************************)
(* The parts with several actors, checked in one run: the clients of the   *)
(* WebSocket server, the users of the connection pool, the page locks and  *)
(* the threads of the page cache.  They share nothing: the subject is      *)
(* picked at first and the variables of the others stay as they are.       *)
(***************************************************************************)
EXTENDS Sessions, Pool, PageLocks, PageCacheLocks

VARIABLE subject

allVars == <<subject, sessionVars, poolVars, lockVars, cacheVars>>

ActorsInit == /\ subject \in {"sessions", "pool", "locks", "page cache"}
              /\ SessionsInit /\ PoolInit /\ LocksInit /\ CacheInit

Only(who, rest) == subject = who /\ UNCHANGED <<subject, rest>>
OnlySessions == Only("sessions", <<poolVars, lockVars, cacheVars>>)
OnlyPool     == Only("pool", <<sessionVars, lockVars, cacheVars>>)

ActorsNext ==
    \/ OnlySessions /\ SessionsNext
    \/ OnlyPool /\ PoolNext
    \/ Only("locks", <<sessionVars, poolVars, cacheVars>>) /\ LocksNext
    \/ Only("page cache", <<sessionVars, poolVars, lockVars>>) /\ CacheNext

\* The fairness of the parts, over the variables of all.
ActorsFairness ==
    /\ \A c \in Clients : WF_allVars(OnlySessions /\ Work(c))
    /\ \A u \in Users : WF_allVars(OnlyPool /\ Proceed(u))

ActorsSpec == ActorsInit /\ [][ActorsNext]_allVars /\ ActorsFairness

\* The types of the parts.
TypesOK == SessionsTypeOK /\ PoolTypeOK /\ LocksTypeOK /\ CacheTypeOK
=============================================================================
