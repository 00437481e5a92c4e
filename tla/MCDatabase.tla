---------------------------- MODULE MCDatabase ----------------------------
(***************************************************************************)
(* Two tables, five triggers, tables with a unique key and with a parent.  *)
(***************************************************************************)
EXTENDS Database

CONSTANTS a, b, x

Trigger(t, event, does, into) == [table |-> t, event |-> event, does |-> does, into |-> into]

\* Two that insert for each other, one that puts a row back, one that deletes
\* in the other table and one that cannot be read.
MCTriggers ==
    {Trigger(a, "insert", "insert", b), Trigger(b, "insert", "insert", a),
     Trigger(a, "delete", "insert", a), Trigger(b, "delete", "delete", a),
     Trigger(b, "update", "error", b)}

MCConstraints ==
    {[unique |-> TRUE, parent |-> None, default |-> [key |-> 1, val |-> x]],
     [unique |-> FALSE, parent |-> b, default |-> [key |-> 2, val |-> x]]}

MCStatements == <<2, 3>>

\* A database that is used once.
OneSession == <<4>>

\* Tables made by one session and used by the next.
TwoSessions == <<2, 2>>
=============================================================================
