------------------------- MODULE DiskPagerContract -------------------------
(***************************************************************************)
(* The disk store implements AtomicStore for callers that keep to the      *)
(* calls its log can keep apart.                                           *)
(***************************************************************************)
EXTENDS DiskPager

\* The promise, read off the files and the open transaction.
Promise == INSTANCE AtomicStore WITH
    store   <- [p \in Pages |-> Recovered(p)],
    active  <- inTxn,
    pending <- dirty

\* The calls the code keeps its promise for: nothing is logged over frames of
\* an earlier session (flush comes first after a restart that replayed some),
\* and no page is changed behind the log's back by rollback or alloc_page.
CallInContract ==
    /\ Idle /\ pc' \in {"data", "commit"} =>
          \A i \in Visible : log[i].kind = "hole" \/ log[i].session = session
    /\ spoiled' = {}

ContractSpec == Init /\ [][Next /\ CallInContract]_vars

\* Within that contract the store, file write by file write and across crashes,
\* implements the atomic store (Wal over its log, checkpoint and replay).
ImplementsAtomicStore == Promise!Spec
=============================================================================
