---------------------------- MODULE AtomicStore ----------------------------
(***************************************************************************)
(* What the disk store promises its callers: pages that survive, changed   *)
(* one write at a time outside a transaction and all at once by a commit.  *)
(* A restart forgets the open transaction and nothing else.                *)
(***************************************************************************)
CONSTANTS Pages, Values, None

VARIABLES
    store,    \* the content of every page, as any restart finds it
    active,   \* is a transaction open?
    pending   \* what the open transaction wrote, None elsewhere

vars == <<store, active, pending>>

Nothing == [p \in Pages |-> None]

Init == store \in [Pages -> Values] /\ active = FALSE /\ pending = Nothing

Begin == active' = TRUE /\ pending' = Nothing /\ UNCHANGED store

Put(p, v) ==
    /\ UNCHANGED active
    /\ IF active THEN pending' = [pending EXCEPT ![p] = v] /\ UNCHANGED store
                 ELSE UNCHANGED pending /\ store' = [store EXCEPT ![p] = v]

Commit ==
    /\ active /\ active' = FALSE
    /\ pending' = Nothing
    /\ store' = [p \in Pages |-> IF pending[p] # None THEN pending[p] ELSE store[p]]

\* Rollback, or the end of the process.
Abandon == active' = FALSE /\ pending' = Nothing /\ UNCHANGED store

Next == Begin \/ Commit \/ Abandon \/ \E p \in Pages, v \in Values : Put(p, v)

Spec == Init /\ [][Next]_vars
=============================================================================
