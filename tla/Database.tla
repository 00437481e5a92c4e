------------------------------ MODULE Database ------------------------------
(***************************************************************************)
(* SQL statements over a database file: the executor (planner/executor.rs) *)
(* with its transaction manager and constraints, the catalog               *)
(* (catalog/catalog.rs) and the tables (table/table.rs).                   *)
(*                                                                         *)
(* The executor never asks the store for a transaction, so every change of *)
(* a page is durable by itself.  A statement is a program, the sequence of *)
(* operations it has still to do, one action each, so that the process can *)
(* die between any two of them and an error leaves what is done.           *)
(*                                                                         *)
(* A tree of order 64 is one page as long as it has fewer than 63 records. *)
(* The model stays below that, so the tree whose root is page p is what    *)
(* page p holds: the integer keys are a table's, the text keys a catalog's.*)
(***************************************************************************)
EXTENDS Integers, Sequences, FiniteSets, SequencesExt

CONSTANTS
    Names,         \* table names
    Keys,          \* primary keys of rows
    Vals,          \* the rest of a row
    None,          \* no row, no table, no page
    Unset,         \* page 2^32 - 1, what usize::MAX is in a record of the catalog
    TriggerDefs,   \* triggers: [table, event, into, does], see BodyOps
    ConstraintDefs,\* what a table is created with: [unique, parent, default]
    RecordWidth,   \* number of values of a u32, scaled down
    SizeWidth,     \* number of values of a usize, scaled down
    Capacity,      \* records a scan can allocate room for
    NumPages,      \* bound: pages of the file
    MaxRows,       \* bound: rows of an INSERT
    Statements,    \* bound: for each session, the number of its statements
    EmptySessions  \* sessions before the first that opened and closed the file

ASSUME KeysAssumption   == Keys \subseteq Int /\ IsFiniteSet(Keys)
ASSUME NoneAssumption   == /\ None # Unset
                           /\ {None, Unset} \intersect (Names \union Vals \union Nat) = {}
                           /\ None \notin [root : Nat \union {None, Unset}, count : Nat]
                                     \union [root : Nat \union {Unset}, len : Nat]
ASSUME WidthAssumption  == /\ {RecordWidth, SizeWidth, Capacity} \subseteq Nat
                           /\ Cardinality(Keys) <= Capacity
                           /\ 2 * Capacity < RecordWidth /\ RecordWidth < SizeWidth
ASSUME BoundsAssumption == {NumPages, MaxRows} \subseteq Nat /\ Statements \in Seq(Nat)
ASSUME StartAssumption  == EmptySessions \in 0 .. 2 /\ EmptySessions < NumPages

Pages == 0 .. NumPages - 1
Rows  == [key : Keys, val : Vals]

ASSUME NamesAssumption  == IsFiniteSet(Names)
ASSUME TriggersAssumption ==
    /\ IsFiniteSet(TriggerDefs)
    /\ TriggerDefs \subseteq [table : Names, event : {"insert", "delete", "update"},
                              does : {"insert", "delete", "error"}, into : Names]
ASSUME ConstraintsAssumption ==
    ConstraintDefs \subseteq [unique : BOOLEAN, parent : Names \union {None},
                              default : Rows \union {None}]

VARIABLES
    \* The file.
    rows,       \* page -> the rows of the tree it is
    cats,       \* page -> the catalog it is: [tables, triggers]
    savedCount, \* page count in the header
    savedRoot,  \* catalog root in the header, 0 for none
    \* The process.
    up,
    pageCount,  \* DiskStorage.page_count
    catRoot,    \* the root of Catalog.sys_tree
    cache,      \* Catalog.cache: name -> [root, count]
    defaults,   \* ... and its schema: name -> the row of the columns' defaults, or None
    trig,       \* Catalog.trigger_cache
    open,       \* Executor.tables: name -> [root, len]
    cons,       \* Executor.constraints
    snap,       \* TransactionManager.snapshot, with what SELECTs saw then
    program,    \* what the statement in progress has still to do
    \* Bounds and history.
    session,
    statements, \* statements of this session
    stale,      \* did a session start with a page count older than its tables?
    renamed,    \* names tables were renamed from or to
    unsaved,    \* tables with rows put that the catalog does not count yet
    uncounted   \* tables a statement or a session left so, or that update themselves

file    == <<rows, cats, savedCount, savedRoot>>
trees   == <<pageCount, catRoot, cache, defaults, trig, open>>
history == <<session, statements, stale, renamed, unsaved, uncounted>>
vars    == <<file, up, trees, cons, snap, program, history>>

NoRows    == [k \in Keys |-> None]
NoTables  == [t \in Names |-> None]
NoCatalog == [tables |-> NoTables, triggers |-> {}]

Meta(root, count) == [root |-> root, count |-> count]

\* Mutation: page and count are kept as they are.
EncodeWide(m) == m

\* encode_meta: page and count are written as u32.
Encode(m) == Meta(IF m.root = None THEN Unset ELSE m.root, m.count % RecordWidth)

\* A page that was never written reads as an internal node without a key
\* whose only child is page 0.  (In the instances page 0 is the catalog of a
\* session that made no table.)
Page(root) == IF root = Unset THEN 0 ELSE root

Present(r) == {k \in DOMAIN r : r[k] # None}

\* scan_all: a tree that counts no record has nothing to scan.
Scan(root, count) == IF root = None \/ count = 0 THEN NoRows ELSE rows[Page(root)]

\* scan_all asks for room for as many records as the tree counts.
Scannable(t) == open[t] # None => open[t].len <= Capacity

\* What SELECT * returns; no result when there is no such table.
Visible(t) ==
    IF cache[t] = None THEN None
    ELSE IF open[t] # None THEN Scan(open[t].root, open[t].len)
    ELSE Scan(cache[t].root, cache[t].count)

\* What it would return after the process died now.
Restarted(t) ==
    LET m == cats[savedRoot].tables[t]
    IN  IF savedRoot = 0 \/ m = None THEN None ELSE Scan(m.root, m.count)

---------------------------------------------------------------------------
(***************************************************************************)
(* Programs.                                                               *)
(***************************************************************************)
Op(do, t, arg, nested) == [do |-> do, table |-> t, arg |-> arg, nested |-> nested]

\* Mutation: the triggers of a trigger's statement fire as well.
RowOpsFiring(t, r, nested) ==
    <<Op("check", t, r, nested), Op("fire", t, "insert", nested),
      Op("put", t, r, nested),   Op("fire", t, "insert", nested)>>

\* The operations of a row: the triggers of a nested statement stay quiet.
RowOps(t, r, nested) ==
    IF nested THEN <<Op("check", t, r, TRUE), Op("put", t, r, TRUE)>>
    ELSE <<Op("check", t, r, FALSE), Op("fire", t, "insert", FALSE),
           Op("put", t, r, FALSE),   Op("fire", t, "insert", FALSE)>>

\* Mutation: all rows are checked before the first is inserted.
InsertOpsCheckedFirst(t, rs, nested) ==
    <<Op("find", t, None, nested)>>
        \o [i \in DOMAIN rs |-> Op("check", t, rs[i], nested)]
        \o FlattenSeq([i \in DOMAIN rs |-> Tail(RowOps(t, rs[i], nested))])
        \o <<Op("save", t, None, nested)>>

InsertOps(t, rs, nested) ==
    <<Op("find", t, None, nested)>>
        \o FlattenSeq([i \in DOMAIN rs |-> RowOps(t, rs[i], nested)])
        \o <<Op("save", t, None, nested)>>

\* The keys a scan finds, in their order.
Sorted(ks) == CHOOSE s \in SetToSeqs(ks) : \A i, j \in DOMAIN s : i < j => s[i] < s[j]

\* For each row found.
DeleteOps(t, ks, nested) ==
    FlattenSeq([i \in 1 .. Cardinality(ks) |->
        LET del == Op("del", t, Sorted(ks)[i], nested)
        IN  IF nested THEN <<del>>
            ELSE <<Op("fire", t, "delete", FALSE), del, Op("fire", t, "delete", FALSE)>>])

\* An update deletes the old row and inserts the new one, unchecked.
UpdateOps(t, k, r) ==
    <<Op("fire", t, "update", FALSE), Op("del", t, k, FALSE),
      Op("put", t, r, FALSE), Op("fire", t, "update", FALSE)>>

Idle == up /\ program = << >>

Running(do) == up /\ program # << >> /\ Head(program).do = do

\* The operation is done.
Done == program' = Tail(program)

\* An error ends the statement, and leaves what it did.
Fail ==
    /\ program' = << >>
    /\ unsaved' = {}
    /\ uncounted' = uncounted \union unsaved
    /\ UNCHANGED <<file, up, trees, cons, snap, session, statements, stale, renamed>>

---------------------------------------------------------------------------
(***************************************************************************)
(* get_table, which every access to a table goes through: a table that is  *)
(* not open is opened with the root and the count the catalog has, or gets *)
(* its tree now.                                                           *)
(***************************************************************************)
\* The table a foreign key refers to, if it exists.
Parent(t) ==
    IF cons[t] = None \/ cons[t].parent = None THEN None
    ELSE IF cache[cons[t].parent] = None THEN None ELSE cons[t].parent

\* The tables an operation uses, and the ones that are there to be used.
Needs(op) ==
    IF op.do \in {"put", "del", "get", "scan"} THEN {op.table}
    ELSE IF op.do = "check" /\ op.arg # None THEN {Parent(op.table)} \ {None} ELSE {}

OpenTables == {t \in Names : open[t] # None /\ cache[t] # None}

Ready(do) == Running(do) /\ Needs(Head(program)) \subseteq OpenTables

Persist(cs, t, m) == [cs EXCEPT ![catRoot].tables[t] = Encode(m)]

\* Mutation: the page a new tree gets is not counted.
NewTreeUncounted ==
    /\ pageCount < NumPages
    /\ pageCount' = pageCount
    /\ rows' = [rows EXCEPT ![pageCount] = NoRows]

\* alloc_page and the empty leaf of BPlusTree::new.
NewTree ==
    /\ pageCount < NumPages
    /\ pageCount' = pageCount + 1
    /\ rows' = [rows EXCEPT ![pageCount] = NoRows]

OpenTable ==
    /\ up /\ program # << >>
    /\ \E t \in Needs(Head(program)) :
          /\ open[t] = None /\ cache[t] # None
          /\ IF cache[t].root # None
             THEN /\ open' = [open EXCEPT ![t] = [root |-> cache[t].root, len |-> cache[t].count]]
                  /\ UNCHANGED <<rows, cats, pageCount, cache>>
             ELSE /\ NewTree
                  /\ open' = [open EXCEPT ![t] = [root |-> pageCount, len |-> 0]]
                  /\ cache' = [cache EXCEPT ![t] = Meta(pageCount, 0)]
                  /\ cats' = Persist([cats EXCEPT ![pageCount] = NoCatalog],
                                     t, Meta(pageCount, 0))
    /\ UNCHANGED <<savedCount, savedRoot, up, catRoot, defaults, trig, cons, snap, program,
                   session, statements, stale, renamed, unsaved, uncounted>>

\* The table of a statement is not there.
NoTable ==
    /\ Running("find") \/ Running("scan") \/ Running("get")
    /\ cache[Head(program).table] = None
    /\ Fail

Find ==
    /\ Running("find") /\ cache[Head(program).table] # None
    /\ Done
    /\ UNCHANGED <<file, up, trees, cons, snap, history>>

(***************************************************************************)
(* The source of an UPDATE or a DELETE: a scan of the table, or, when the  *)
(* WHERE clause gives the primary key, a search, which does not look at    *)
(* the count.  What is read now is what the statement goes on with.        *)
(***************************************************************************)
ScanTable ==
    /\ Ready("scan") /\ Scannable(Head(program).table)
    /\ LET t == Head(program).table
           found == Present(Scan(open[t].root, open[t].len))
       IN  program' = (IF Head(program).arg = "delete" THEN DeleteOps(t, found, Head(program).nested)
                       ELSE << >>)
                      \o Tail(program)
    /\ UNCHANGED <<file, up, trees, cons, snap, history>>

Get ==
    /\ Ready("get")
    /\ LET t   == Head(program).table
           k   == Head(program).arg.key
           new == Head(program).arg.row
       IN  program' = (IF rows[Page(open[t].root)][k] = None THEN << >>
                       ELSE IF new = None THEN DeleteOps(t, {k}, FALSE) ELSE UpdateOps(t, k, new))
                      \o Tail(program)
    /\ UNCHANGED <<file, up, trees, cons, snap, history>>

(***************************************************************************)
(* The checks of exec_insert: the row a foreign key refers to is in the    *)
(* parent, if there is a parent; a unique key is not in the table, as far  *)
(* as the table is open.  A row without a key (None) is in no parent and   *)
(* equal to no other row.                                                  *)
(***************************************************************************)
OpenRows(t) == IF open[t] = None THEN {} ELSE Present(Scan(open[t].root, open[t].len))

Admitted(t, r) ==
    r # None =>
    /\ Parent(t) # None => r.key \in OpenRows(Parent(t))
    /\ cons[t] # None => ~(cons[t].unique /\ r.key \in OpenRows(t))

CheckScans ==
    LET t == Head(program).table
    IN  /\ Head(program).arg # None /\ Parent(t) # None => Scannable(Parent(t))
        /\ cons[t] # None => Scannable(t)

Check ==
    /\ Ready("check")
    /\ LET t == Head(program).table
       IN  /\ CheckScans
           /\ IF Admitted(t, Head(program).arg)
              THEN Done /\ UNCHANGED <<file, up, trees, cons, snap, history>>
              ELSE Fail

(***************************************************************************)
(* fire_triggers, called before and after each row: it runs the bodies of  *)
(* the triggers of the table and the event, in any order (a HashMap's),    *)
(* those made to run before a row and those made to run after it alike.    *)
(* The body is kept as a text in which a sign is spelled by its name, as   *)
(* in VALUES LPAREN 1 RPAREN, so few bodies can be read again: INSERT INTO *)
(* t DEFAULT VALUES, DELETE FROM t, and no statement that is followed by a *)
(* semicolon.                                                              *)
(***************************************************************************)
BodyOps(g) ==
    CASE g.does = "insert" -> InsertOps(g.into, <<defaults[g.into]>>, TRUE)
      [] g.does = "delete" -> <<Op("scan", g.into, "delete", TRUE)>>
      [] g.does = "error"  -> <<Op("error", None, None, TRUE)>>

Fire ==
    /\ Ready("fire")
    /\ LET op == Head(program)
       IN  \E bodies \in SetToSeqs({g \in trig : g.table = op.table /\ g.event = op.arg}) :
              program' = FlattenSeq([i \in DOMAIN bodies |-> BodyOps(bodies[i])])
                         \o Tail(program)
    /\ UNCHANGED <<file, up, trees, cons, snap, history>>

\* The body of a trigger does not parse.
BadBody == Running("error") /\ Fail

\* A row needs a key; the table has its tree by now.
NoKey == Ready("put") /\ Head(program).arg = None /\ Fail

\* BPlusTree's size: a record that is replaced is taken off and counted again.
LenAfterPut(len, replaced) ==
    ((IF replaced /\ len # 0 THEN len - 1 ELSE len) + 1) % SizeWidth

\* Is the count of the table saved before the statement ends?
Saved(t) == \E op \in Range(program) : op.do = "save" /\ op.table = t

\* Does an update of the table run a trigger that changes the table itself?
UpdatesItself(t) ==
    \E g \in trig : g.table = t /\ g.event = "update" /\ g.into = t /\ g.does # "error"

\* Table::insert.  Whatever inserts saves the count before it ends, except an
\* update, which puts back as many rows as it took out if nothing comes between.
Put ==
    /\ Ready("put") /\ Head(program).arg # None
    /\ LET t == Head(program).table
           p == Page(open[t].root)
           r == Head(program).arg
       IN  /\ rows' = [rows EXCEPT ![p][r.key] = r.val]
           /\ open' = [open EXCEPT ![t].len = LenAfterPut(@, rows[p][r.key] # None)]
           /\ unsaved' = IF Saved(t) THEN unsaved \union {t} ELSE unsaved
           /\ uncounted' = IF ~Saved(t) /\ UpdatesItself(t) THEN uncounted \union {t} ELSE uncounted
    /\ Done
    /\ UNCHANGED <<cats, savedCount, savedRoot, up, pageCount, catRoot, cache, defaults, trig, cons,
                   snap, session, statements, stale, renamed>>

\* Has the row a parent node with no other child to merge it with?
Orphaned(t, k) == open[t].root = Unset /\ rows[Page(open[t].root)][k] # None

\* Table::delete.  The subtraction wraps in a release build.
Del ==
    /\ Ready("del") /\ ~Orphaned(Head(program).table, Head(program).arg)
    /\ LET t == Head(program).table
           p == Page(open[t].root)
           k == Head(program).arg
       IN  /\ rows' = [rows EXCEPT ![p][k] = None]
           /\ open' = [open EXCEPT ![t].len = IF rows[p][k] # None THEN (@ - 1) % SizeWidth ELSE @]
    /\ Done
    /\ UNCHANGED <<cats, savedCount, savedRoot, up, pageCount, catRoot, cache, defaults, trig, cons,
                   snap, history>>

\* Mutation: the catalog in memory only is told.
SaveMetaInMemory(m) ==
    /\ cache' = [cache EXCEPT ![Head(program).table] = m]
    /\ cats' = cats

\* update_table_meta_full.
SaveMeta(m) ==
    LET t == Head(program).table
    IN  /\ cache' = [cache EXCEPT ![t] = m]
        /\ cats' = Persist(cats, t, m)

\* Mutation: the count that is saved is the one from before the last row.
CountRowLate(t) == Meta(open[t].root, open[t].len - 1)

CountRows(t) == Meta(open[t].root, open[t].len)

\* The end of exec_insert: root and row count go to the catalog.
Save ==
    /\ Running("save")
    /\ LET t == Head(program).table
       IN  /\ cache[t] # None /\ open[t] # None
           /\ SaveMeta(CountRows(t))
           /\ unsaved' = unsaved \ {t}
    /\ Done
    /\ UNCHANGED <<rows, savedCount, savedRoot, up, pageCount, catRoot, defaults, trig, open, cons,
                   snap, session, statements, stale, renamed, uncounted>>

---------------------------------------------------------------------------
(***************************************************************************)
(* Statements.  One that fails at once changes nothing and is left out.    *)
(***************************************************************************)
Statement ==
    /\ Idle /\ statements < Statements[session]
    /\ statements' = statements + 1
    /\ UNCHANGED <<savedCount, savedRoot, up, pageCount, catRoot, session, stale>>

Run(ops) ==
    /\ program' = ops
    /\ UNCHANGED <<rows, cats, cache, defaults, trig, open, cons, renamed, unsaved, uncounted>>

Insert ==
    /\ Statement
    /\ \E t \in Names, rs \in BoundedSeq(Rows, MaxRows) :
          rs # << >> /\ Run(InsertOps(t, rs, FALSE))
    /\ UNCHANGED snap

Delete ==
    /\ Statement
    /\ \E t \in Names :
          \/ Run(<<Op("scan", t, "delete", FALSE)>>)
          \/ \E k \in Keys : Run(<<Op("get", t, [key |-> k, row |-> None], FALSE)>>)
    /\ UNCHANGED snap

Update ==
    /\ Statement
    /\ \E t \in Names, k \in Keys, r \in Rows :
          Run(<<Op("get", t, [key |-> k, row |-> r], FALSE)>>)
    /\ UNCHANGED snap

Select ==
    /\ Statement
    /\ \E t \in Names : Run(<<Op("scan", t, "select", FALSE)>>)
    /\ UNCHANGED snap

CreateTable ==
    /\ Statement
    /\ \E t \in Names, c \in ConstraintDefs :
          /\ cache[t] = None
          /\ cons' = [cons EXCEPT ![t] = c]
          /\ cache' = [cache EXCEPT ![t] = Meta(None, 0)]
          /\ cats' = Persist(cats, t, Meta(None, 0))
          /\ defaults' = [defaults EXCEPT ![t] = c.default]
    /\ UNCHANGED <<rows, trig, open, snap, program, renamed, unsaved, uncounted>>

\* Mutation: the record of a dropped table stays in the catalog's tree.
ForgetInMemory(t) ==
    /\ open' = [open EXCEPT ![t] = None]
    /\ cache' = [cache EXCEPT ![t] = None]
    /\ defaults' = [defaults EXCEPT ![t] = None]
    /\ cats' = cats
    /\ uncounted' = uncounted \ {t}

\* Catalog::drop_table and the handle; there is no error when it is not in the catalog.
Forget(t) ==
    /\ open' = [open EXCEPT ![t] = None]
    /\ cache' = [cache EXCEPT ![t] = None]
    /\ defaults' = [defaults EXCEPT ![t] = None]
    /\ cats' = IF cache[t] = None THEN cats ELSE [cats EXCEPT ![catRoot].tables[t] = None]
    /\ uncounted' = uncounted \ {t}

DropTable ==
    /\ Statement
    /\ \E t \in Names : cache[t] # None /\ Forget(t)
    /\ UNCHANGED <<rows, trig, cons, snap, program, renamed, unsaved>>

\* The record under the old name stays in the tree, the handle stays open,
\* and a table that has the new name is not asked about.
RenameTable ==
    /\ Statement
    /\ \E t, u \in Names :
          /\ t # u /\ cache[t] # None
          /\ cache' = [cache EXCEPT ![t] = None, ![u] = cache[t]]
          /\ defaults' = [defaults EXCEPT ![t] = None, ![u] = defaults[t]]
          /\ cats' = Persist(cats, u, cache[t])
          /\ renamed' = renamed \union {t, u}
    /\ UNCHANGED <<rows, trig, open, cons, snap, program, unsaved, uncounted>>

CreateTrigger ==
    /\ Statement
    /\ \E g \in TriggerDefs \ trig :
          /\ trig' = trig \union {g}
          /\ cats' = [cats EXCEPT ![catRoot].triggers = @ \union {g}]
    /\ UNCHANGED <<rows, cache, defaults, open, cons, snap, program, renamed, unsaved, uncounted>>

DropTrigger ==
    /\ Statement
    /\ \E g \in trig :
          /\ trig' = trig \ {g}
          /\ cats' = [cats EXCEPT ![catRoot].triggers = @ \ {g}]
    /\ UNCHANGED <<rows, cache, defaults, open, cons, snap, program, renamed, unsaved, uncounted>>

---------------------------------------------------------------------------
(***************************************************************************)
(* Transactions: BEGIN notes the row counts of the open tables, ROLLBACK   *)
(* drops the open tables that are not among them and shortens the others.  *)
(***************************************************************************)
View == [t \in Names |-> Visible(t)]

Begin ==
    /\ Statement /\ snap = None
    /\ snap' = [counts |-> [t \in Names |-> IF open[t] = None THEN None ELSE open[t].len],
                view   |-> View]
    /\ Run(<< >>)

Commit ==
    /\ Statement /\ snap # None
    /\ snap' = None
    /\ Run(<< >>)

Rollback ==
    /\ Statement /\ snap # None
    /\ snap' = None
    /\ \E new \in SetToSeqs({t \in Names : open[t] # None /\ snap.counts[t] = None}),
          old \in SetToSeqs({t \in Names : open[t] # None /\ snap.counts[t] # None}) :
          Run([i \in DOMAIN new |-> Op("forget", new[i], None, FALSE)]
              \o [i \in DOMAIN old |-> Op("shorten", old[i], snap.counts[old[i]], FALSE)]
              \o <<Op("rolledBack", None, snap.view, FALSE)>>)

ForgetTable ==
    /\ Running("forget")
    /\ Forget(Head(program).table)
    /\ Done
    /\ UNCHANGED <<rows, savedCount, savedRoot, up, pageCount, catRoot, trig, cons, snap,
                   session, statements, stale, renamed, unsaved>>

\* Of the rows in the order of their keys, those after the first arg go.
Shorten ==
    /\ Running("shorten")
    /\ LET t  == Head(program).table
           ks == Sorted(Present(Scan(open[t].root, open[t].len)))
           go == SubSeq(ks, Head(program).arg + 1, Len(ks))
       IN  /\ Scannable(t)
           /\ program' = [i \in DOMAIN go |-> Op("del", t, go[i], FALSE)] \o Tail(program)
    /\ UNCHANGED <<file, up, trees, cons, snap, history>>

RolledBack ==
    /\ Running("rolledBack")
    /\ Done
    /\ UNCHANGED <<file, up, trees, cons, snap, history>>

---------------------------------------------------------------------------
(***************************************************************************)
(* A process: with_disk, the end of a session, death.                      *)
(***************************************************************************)
Counted(c) ==
    \A t \in Names : c.tables[t] # None => c.tables[t].root = Unset \/ c.tables[t].root < savedCount

Open ==
    /\ ~up /\ session < Len(Statements)
    /\ session' = session + 1 /\ statements' = 0
    /\ up' = TRUE
    /\ stale' = (stale \/ (savedRoot # 0 /\ ~Counted(cats[savedRoot])))
    /\ IF savedRoot = 0
       THEN /\ savedCount < NumPages
            /\ catRoot' = savedCount
            /\ pageCount' = savedCount + 1
            /\ rows' = [rows EXCEPT ![savedCount] = NoRows]
            /\ cats' = [cats EXCEPT ![savedCount] = NoCatalog]
            /\ cache' = NoTables /\ trig' = {}
       ELSE /\ catRoot' = savedRoot
            /\ pageCount' = savedCount
            /\ cache' = cats[savedRoot].tables
            /\ trig' = cats[savedRoot].triggers
            /\ UNCHANGED <<rows, cats>>
    /\ UNCHANGED <<savedCount, savedRoot, defaults, open, cons, snap, program, renamed, unsaved,
                   uncounted>>

\* Executor::flush, which the shell and the server over stdin call at the end.
Close ==
    /\ Idle
    /\ program' = <<Op("flush", None, None, FALSE), Op("root", None, None, FALSE),
                    Op("exit", None, None, FALSE)>>
    /\ UNCHANGED <<file, up, trees, cons, snap, history>>

\* The header gets the page count, and the root it had.
Flush ==
    /\ Running("flush") /\ Done
    /\ savedCount' = pageCount
    /\ UNCHANGED <<rows, cats, savedRoot, up, trees, cons, snap, history>>

\* The header is written again, with both.
SetCatalogRoot ==
    /\ Running("root") /\ Done
    /\ savedRoot' = catRoot /\ savedCount' = pageCount
    /\ UNCHANGED <<rows, cats, up, trees, cons, snap, history>>

NoProcess ==
    /\ up' = FALSE /\ program' = << >>
    /\ pageCount' = 0 /\ catRoot' = None
    /\ cache' = NoTables /\ defaults' = NoTables /\ open' = NoTables /\ cons' = NoTables
    /\ trig' = {} /\ snap' = None
    /\ unsaved' = {}
    /\ uncounted' = uncounted \union unsaved
    /\ UNCHANGED <<savedCount, savedRoot, cats, session, statements, stale, renamed>>

Exit == Running("exit") /\ NoProcess /\ UNCHANGED rows

Crash == up /\ NoProcess /\ UNCHANGED rows

\* The row is gone when rebalance panics (tree.rs:273).
DelPanics ==
    /\ Ready("del") /\ Orphaned(Head(program).table, Head(program).arg)
    /\ rows' = [rows EXCEPT ![Page(open[Head(program).table].root)][Head(program).arg] = None]
    /\ NoProcess

\* There is no room for the records a scan has to expect: the process aborts.
Overflow ==
    /\ \/ Ready("scan") /\ ~Scannable(Head(program).table)
       \/ Running("shorten") /\ ~Scannable(Head(program).table)
       \/ Ready("check") /\ ~CheckScans
    /\ NoProcess /\ UNCHANGED rows

---------------------------------------------------------------------------
(***************************************************************************)
(* A new file, or one that was opened and closed before.  The first        *)
(* session has its catalog on page 0, which the header cannot name; so the *)
(* second makes a catalog of its own, on page 1, and later ones find it.   *)
(***************************************************************************)
Init ==
    /\ rows = [p \in Pages |-> NoRows] /\ cats = [p \in Pages |-> NoCatalog]
    /\ savedCount = EmptySessions
    /\ savedRoot = IF EmptySessions = 0 THEN 0 ELSE EmptySessions - 1
    /\ up = FALSE /\ program = << >>
    /\ pageCount = 0 /\ catRoot = None
    /\ cache = NoTables /\ defaults = NoTables /\ open = NoTables /\ cons = NoTables
    /\ trig = {} /\ snap = None
    /\ session = 0 /\ statements = 0
    /\ stale = FALSE /\ renamed = {} /\ unsaved = {} /\ uncounted = {}

\* What the process does by itself once a statement or the end has begun.
Continue ==
    \/ OpenTable \/ NoTable \/ Find \/ ScanTable \/ Get \/ Check \/ Fire \/ BadBody
    \/ NoKey \/ Put \/ Del \/ Save
    \/ ForgetTable \/ Shorten \/ RolledBack
    \/ Flush \/ SetCatalogRoot \/ Exit \/ Overflow \/ DelPanics

Next ==
    \/ Insert \/ Delete \/ Update \/ Select
    \/ CreateTable \/ DropTable \/ RenameTable \/ CreateTrigger \/ DropTrigger
    \/ Begin \/ Commit \/ Rollback
    \/ Open \/ Close \/ Crash
    \/ Continue

Spec == Init /\ [][Next]_vars

---------------------------------------------------------------------------
(***************************************************************************)
(* Properties.                                                             *)
(***************************************************************************)
Ops == {"find", "scan", "get", "check", "fire", "put", "del", "save", "forget", "shorten",
        "rolledBack", "error", "flush", "root", "exit"}

CatMeta == [root : Pages \union {Unset}, count : 0 .. RecordWidth - 1]
MemMeta == [root : Pages \union {Unset, None}, count : 0 .. SizeWidth - 1]

\* Every variable has its type, and there is no handle, trigger, constraint
\* or transaction without a process.
TypeOK ==
    /\ rows \in [Pages -> [Keys -> Vals \union {None}]]
    /\ cats \in [Pages -> [tables : [Names -> CatMeta \union {None}], triggers : SUBSET TriggerDefs]]
    /\ savedCount \in 0 .. NumPages /\ savedRoot \in Pages
    /\ up \in BOOLEAN
    /\ pageCount \in 0 .. NumPages /\ catRoot \in Pages \union {None}
    /\ cache \in [Names -> MemMeta \union {None}]
    /\ open \in [Names -> [root : Pages \union {Unset}, len : 0 .. SizeWidth - 1] \union {None}]
    /\ defaults \in [Names -> Rows \union {None}]
    /\ trig \in SUBSET TriggerDefs
    /\ cons \in [Names -> ConstraintDefs \union {None}]
    /\ \A op \in Range(program) : op.do \in Ops /\ op.table \in Names \union {None}
    /\ session \in 0 .. Len(Statements) /\ statements \in Nat
    /\ stale \in BOOLEAN
    /\ {renamed, unsaved, uncounted} \subseteq SUBSET Names
    /\ ~up => /\ program = << >> /\ snap = None /\ trig = {} /\ unsaved = {}
              /\ cache = NoTables /\ defaults = NoTables /\ open = NoTables /\ cons = NoTables

\* Tables the catalog is right about: a renamed table leaves a record and a
\* handle behind, a failed statement rows that are not counted, and tables
\* first used by a later process than the one that created them are one tree.
Sound(t) ==
    /\ t \notin renamed \union unsaved \union uncounted
    /\ cache[t] # None => cache[t].root # Unset

\* The catalog in memory is the catalog on file, after every change of either
\* (catalog.rs keeps it twice and every method writes both).
CatalogMatches ==
    up =>
        /\ trig = cats[catRoot].triggers
        /\ \A t \in Names :
              LET m == cats[catRoot].tables[t]
              IN  IF cache[t] = None THEN m = None \/ t \in renamed ELSE m = Encode(cache[t])

\* A scan and a search by key see the same rows (executor.rs:298 looks at the
\* count, executor.rs:315 does not), although the count is kept apart from
\* the rows, in the handle and in the catalog, and only inserts save it.
AccessPathsAgree ==
    up /\ ~stale =>
        \A t \in Names :
            LET m == IF open[t] = None THEN cache[t] ELSE open[t]
            IN  Sound(t) /\ cache[t] # None /\ m.root # None => Visible(t) = rows[m.root]

\* Once the catalog's root is in the header, whatever a finished statement
\* did is found by the next process, also when this one dies instead of
\* closing the database: no statement leaves its result in memory only.
RestartFinds ==
    Idle /\ savedRoot = catRoot /\ catRoot # 0 /\ ~stale =>
        \A t \in Names : Sound(t) => Restarted(t) = Visible(t)

\* The bodies of triggers fire no triggers (executor.rs:834): a statement has
\* never more to do for them than one run of each.
TriggersEnd ==
    Cardinality({i \in DOMAIN program : program[i].nested})
        <= (4 + Cardinality(Keys)) * Cardinality(TriggerDefs)

\* An operation changes what SELECT returns for its own table only: two
\* tables share no page, and a trigger or a check opens a table unharmed.
StatementsIsolated ==
    [][up /\ up' /\ program # << >> /\ ~stale =>
          \A t \in Names \ (renamed \union {Head(program).table}) :
              cache[t] # None /\ cache[t].root # Unset => Visible(t)' = Visible(t)]_vars

\* An INSERT replaces no row of a table with a unique key: between the check
\* of a row (executor.rs:624) and its insertion triggers run, and earlier rows
\* of the statement are in the table by then.  A trigger that inserts into its
\* own table can come in between; an UPDATE is not checked at all.
UniqueKept ==
    [][\A t \in Names \ renamed :
          /\ Running("put") /\ Head(program).table = t /\ Head(program).arg # None /\ Saved(t)
          /\ cons[t] # None /\ open[t] # None /\ ~stale
          /\ up' /\ cons[t].unique
          /\ \A g \in trig : g.table = t /\ g.event = "insert" =>
                    g.into # t \/ g.does # "insert"
          => rows[open[t].root][Head(program).arg.key] = None]_vars

\* Two open tables are two trees (catalog.rs:82: a table that has no tree yet
\* has a page number that stands for "not in use").
TablesApart ==
    up /\ ~stale =>
        \A t, u \in Names \ renamed :
            t # u /\ open[t] # None /\ open[u] # None =>
                Page(open[t].root) # Page(open[u].root)

\* ROLLBACK: what SELECT returns is what it returned at BEGIN.
RollbackUndoes ==
    Running("rolledBack") => View = Head(program).arg

\* A database that is closed is found as it was by the next process.
CloseKeeps ==
    Running("exit") /\ ~stale =>
        \A t \in Names : Sound(t) => Restarted(t) = Visible(t)

=============================================================================
