------------------------------ MODULE Queries ------------------------------
(***************************************************************************)
(* How a SELECT is planned (src/src/planner/planner.rs) and how the plan   *)
(* is executed (src/src/planner/executor.rs), against what the statement   *)
(* means.  A table is its columns and its rows in the order of their keys, *)
(* the first column; a column is the sequence of the names that lead to    *)
(* it: <<"id">>, or <<"s", "id">> below a subquery called s.  What a       *)
(* statement may leave out is a sequence of at most one element.           *)
(***************************************************************************)
EXTENDS Expressions

\* A table, and the result of a plan: ok is FALSE for Err, and for a panic.
Table(cols, rows) == [ok |-> TRUE, cols |-> cols, rows |-> rows]
Failure == [ok |-> FALSE, cols |-> <<>>, rows |-> <<>>]

\* A row under its columns: of two columns with one name the first is found.
Row(cols, values) == [c \in Range(cols) |-> values[Min({i \in DOMAIN cols : cols[i] = c})]]

\* The statement a clause at a time changes, and its parts.
Star == [star |-> TRUE]
Item(e, name) == [star |-> FALSE, expr |-> e, name |-> name]
Agg(f, args)  == Call(f, args)
Scalar(q)     == [op |-> "scalar", query |-> q]
InQuery(e, q, n) == [op |-> "inquery", args |-> <<e>>, query |-> q, negated |-> n]
Exists(q, n)  == [op |-> "exists", query |-> q, negated |-> n]
Key(e, asc)   == [expr |-> e, asc |-> asc]
JoinOf(t, kind, on) == [table |-> t, kind |-> kind, on |-> on]
FromTable(t)  == <<[table |-> t]>>
FromQuery(q, alias) == <<[query |-> q, alias |-> alias]>>
SelectFrom(from) ==
    [with |-> <<>>, columns |-> <<Star>>, distinct |-> FALSE, from |-> from, joins |-> <<>>,
     where |-> <<>>, group |-> <<>>, having |-> <<>>, order |-> <<>>, limit |-> <<>>,
     offset |-> 0, union |-> <<>>]

-----------------------------------------------------------------------------
(* The planner.  A table's scan takes the WHERE clause with it: as the key *)
(* to look up if the clause is an equation of the first column, as a       *)
(* filter otherwise.                                                       *)

SeqScan(t, filter) == [node |-> "scan", table |-> t, filter |-> filter]
IndexScan(t, e)    == [node |-> "index", table |-> t, key |-> e]

IsPrimaryKeyLoose(db, t, c) == t \in DOMAIN db /\ c \in Range(db[t].cols)
IsPrimaryKey(db, t, c)      == t \in DOMAIN db /\ Head(db[t].cols) = c

\* The column and the other side of an equation, of which the first column
\* from the left counts.
EqCondition(e) ==
    IF ~(e.op = "bin" /\ e.sign = "=") THEN <<>>
    ELSE LET sides == SelectSeq(<<1, 2>>, LAMBDA i : e.args[i].op = "col")
         IN  IF sides = <<>> THEN <<>>
             ELSE <<e.args[sides[1]].name, e.args[3 - sides[1]]>>

PlanTableScan(db, t, where) ==
    LET eq == IF where = <<>> THEN <<>> ELSE EqCondition(where[1])
    IN  IF eq # <<>> /\ IsPrimaryKey(db, t, eq[1]) THEN IndexScan(t, eq[2]) ELSE SeqScan(t, where)

IsPushedDown(plan, where) ==
    CASE plan.node = "scan"  -> plan.filter = where
      [] plan.node = "index" -> TRUE
      [] OTHER               -> FALSE

RECURSIVE HasAgg(_)
HasAgg(e) == \/ e.op = "call" /\ e.sign \in {"COUNT", "COUNT DISTINCT", "SUM", "AVG", "MAX", "MIN"}
             \/ e.op = "bin" /\ \E i \in 1..2 : HasAgg(e.args[i])

Aggregates(s) == \E i \in DOMAIN s.columns : ~s.columns[i].star /\ HasAgg(s.columns[i].expr)

\* The node a clause puts on top of the plan.
Layer(asked, node) == IF asked THEN <<node>> ELSE <<>>

RECURSIVE PlanSelect(_, _)
PlanSelect(db, s) ==
    LET source == CASE s.from = <<>> -> SeqScan("__dual__", <<>>)
                    [] s.from # <<>> /\ "table" \in DOMAIN s.from[1] ->
                          PlanTableScan(db, s.from[1].table, s.where)
                    [] OTHER -> [node |-> "subquery", alias |-> s.from[1].alias,
                                 input |-> PlanSelect(db, s.from[1].query)]
        joined == FoldLeft(LAMBDA p, j : [node |-> "join", left |-> p, kind |-> j.kind, on |-> j.on,
                                          right |-> PlanTableScan(db, j.table, <<>>)],
                           source, s.joins)
        layers ==
            Layer(s.where # <<>> /\ ~IsPushedDown(joined, s.where),
                  [node |-> "filter", expr |-> s.where[1]])
            \o Layer(s.group # <<>> \/ Aggregates(s),
                     [node |-> "aggregate", group |-> s.group, having |-> s.having,
                      outputs |-> s.columns])
            \o Layer(s.distinct, [node |-> "distinct"])
            \o Layer(s.order # <<>>, [node |-> "sort", keys |-> s.order])
            \o Layer(s.limit # <<>> \/ s.offset # 0,
                     [node |-> "limit", limit |-> s.limit, offset |-> s.offset])
            \o Layer(~Aggregates(s), [node |-> "projection", columns |-> s.columns])
            \o Layer(s.with # <<>>,
                     [node |-> "cte",
                      definitions |-> [i \in DOMAIN s.with |->
                                         <<s.with[i][1], PlanSelect(db, s.with[i][2])>>]])
        named == FoldLeft(LAMBDA p, l : l @@ [input |-> p], joined, layers)
    IN  IF s.union = <<>> THEN named
        ELSE [node |-> "union", left |-> named, right |-> PlanSelect(db, s.union[1]),
              all |-> s.union[2]]

-----------------------------------------------------------------------------
(* The executor.                                                           *)

RECURSIVE Exec(_, _, _)

\* Subqueries become literals before the rows are looked at, where and, or,
\* comparisons and arithmetic lead to them; anywhere else they fail.
Run(db, cte, q) == Exec(db, cte, PlanSelect(db, q))
Firsts(rows)    == LET some == SelectSeq(rows, LAMBDA r : r # <<>>)
                   IN  [i \in DOMAIN some |-> Lit(some[i][1])]

Literal(e, r) ==
    CASE ~r.ok -> [op |-> "failed"]
      [] r.ok /\ e.op = "scalar" ->
            IF r.rows = <<>> \/ r.rows[1] = <<>> THEN Lit(Null) ELSE Lit(r.rows[1][1])
      [] r.ok /\ e.op = "exists" -> Lit(Bool((r.rows # <<>>) # e.negated))
      [] r.ok /\ e.op = "inquery" -> InList(e.args[1], Firsts(r.rows), e.negated)

RECURSIVE Resolve(_, _, _)
Resolve(db, cte, e) ==
    CASE e.op \in {"scalar", "inquery", "exists"} -> Literal(e, Run(db, cte, e.query))
      [] e.op = "bin" -> [e EXCEPT !.args = [i \in 1..2 |-> Resolve(db, cte, e.args[i])]]
      [] OTHER -> e

RECURSIVE Unresolved(_)
Unresolved(e) == e.op = "failed" \/ (e.op = "bin" /\ \E i \in 1..2 : Unresolved(e.args[i]))

\* A subquery that was not resolved fails where it is evaluated.
Value(e, row) == IF e.op \in {"scalar", "inquery", "exists"} THEN Error ELSE Eval(e, row)
Kept(r, e) ==
    IF ~r.ok \/ Unresolved(e) \/ \E n \in DOMAIN r.rows : Value(e, Row(r.cols, r.rows[n])) = Panic THEN Failure
    ELSE Table(r.cols, SelectSeq(r.rows, LAMBDA v : IsTruthy(Value(e, Row(r.cols, v)))))

Filter(db, cte, r, e) == Kept(r, Resolve(db, cte, e))

ExecScan(db, cte, t, filter) ==
    CASE t = "__dual__" -> Table(<<>>, <<<<>>>>)
      [] t # "__dual__" /\ t \in DOMAIN cte ->      \* without resolving subqueries
            IF filter = <<>> THEN cte[t] ELSE Kept(cte[t], filter[1])
      [] t # "__dual__" /\ t \notin DOMAIN cte /\ t \in DOMAIN db ->
            IF filter = <<>> THEN db[t] ELSE Filter(db, cte, db[t], filter[1])
      [] OTHER -> Failure

ExecIndexScan(db, t, e) ==
    IF t \in DOMAIN db /\ e.op = "lit" /\ e.value[1] \in {"int", "text"}
    THEN Table(db[t].cols, SelectSeq(db[t].rows, LAMBDA v : v[1] = e.value))
    ELSE Failure

FirstRows(rows) ==
    FoldLeft(LAMBDA acc, v : IF Contains(acc, v) THEN acc ELSE Append(acc, v), <<>>, rows)

\* The rows of expressions, where <<>> stands for a star.
ProjectedRows(r, exprs) ==
    [n \in DOMAIN r.rows |->
        FlattenSeq([i \in DOMAIN exprs |->
            IF exprs[i] = <<>> THEN r.rows[n] ELSE <<Value(exprs[i][1], Row(r.cols, r.rows[n]))>>])]

Projection(r, columns, exprs, rows) ==
    IF \/ \E i \in DOMAIN exprs : rows # <<>> /\ exprs[i] # <<>> /\ Unresolved(exprs[i][1])
       \/ \E n \in DOMAIN rows : \E i \in DOMAIN rows[n] : Failed(rows[n][i])
    THEN Failure
    ELSE Table(IF rows = <<>> THEN <<>>
               ELSE FlattenSeq([i \in DOMAIN columns |->
                       IF columns[i].star THEN r.cols ELSE <<columns[i].name>>]), rows)

Resolved(r, columns, exprs) == Projection(r, columns, exprs, ProjectedRows(r, exprs))
ExecProjection(db, cte, r, columns) ==
    CASE ~r.ok -> Failure
      [] r.ok /\ columns = <<Star>> -> r
      [] OTHER -> Resolved(r, columns,
                           [i \in DOMAIN columns |->
                              IF columns[i].star THEN <<>> ELSE <<Resolve(db, cte, columns[i].expr)>>])

\* A stable sort; a key that fails counts as null (one that panics is not
\* looked at).
OrNull(v) == IF Failed(v) THEN Null ELSE v
CompareRows(cols, keys, v, w) ==
    LET Cmp(k) == CmpVal(OrNull(Value(keys[k].expr, Row(cols, v))),
                         OrNull(Value(keys[k].expr, Row(cols, w))))
                  * (IF keys[k].asc THEN 1 ELSE -1)
        telling == {k \in DOMAIN keys : Cmp(k) # 0}
    IN  IF telling = {} THEN 0 ELSE Cmp(Min(telling))

\* An insertion sort, for the stable sort of the library.
SortRows(cols, keys, rows) ==
    FoldLeft(LAMBDA acc, v :
                LET n == Cardinality({i \in DOMAIN acc : CompareRows(cols, keys, acc[i], v) <= 0})
                IN  SubSeq(acc, 1, n) \o <<v>> \o SubSeq(acc, n + 1, Len(acc)),
             <<>>, rows)

\* Groups in the order of their first rows, and one group of nothing if there
\* are neither rows nor keys to group by.  An output that is no aggregate is
\* that of the group's first row; outputs that are stars are left out.
ExecAggregate(r, group, having, outputs) ==
    LET KeyOf(v)  == [i \in DOMAIN group |-> OrNull(Value(group[i], Row(r.cols, v)))]
        keys      == FirstRows([n \in DOMAIN r.rows |-> KeyOf(r.rows[n])])
        groups    == IF keys = <<>> /\ group = <<>> THEN <<<<>>>>
                     ELSE [n \in DOMAIN keys |->
                             SelectSeq(r.rows, LAMBDA v : KeyOf(v) = keys[n])]
        items     == SelectSeq(outputs, LAMBDA o : ~o.star)
        cols      == [i \in DOMAIN items |-> items[i].name]
        Output(e, rows) ==
            CASE e.op = "call" ->
                    LET vs == [n \in DOMAIN rows |-> IF e.args = <<>> THEN Integer(1)
                                                    ELSE Value(e.args[1], Row(r.cols, rows[n]))]
                    IN  IF \E n \in DOMAIN vs : Failed(vs[n]) THEN Error
                        ELSE EvalAggregate(e.sign, vs)
              [] e.op # "call" /\ rows # <<>> -> Value(e, Row(r.cols, rows[1]))
              [] OTHER -> Null
        out == [n \in DOMAIN groups |-> [i \in DOMAIN items |-> Output(items[i].expr, groups[n])]]
        kept == SelectSeq(out, LAMBDA v :
                    having = <<>> \/ IsTruthy(OrNull(Value(having[1], Row(cols, v)))))
    IN  IF ~r.ok \/ \E n \in DOMAIN out : \E i \in DOMAIN items : Failed(out[n][i]) THEN Failure
        ELSE Table(cols, kept)

ExecJoin(l, r, kind, on) ==
    LET cols == l.cols \o r.cols
        Pairs(v) == LET all == [n \in DOMAIN r.rows |-> v \o r.rows[n]]
                        hits == IF on = <<>> THEN all
                                ELSE SelectSeq(all, LAMBDA w : IsTruthy(Value(on[1], Row(cols, w))))
                    IN  IF hits = <<>> /\ kind = "left"
                        THEN <<v \o [i \in DOMAIN r.cols |-> Null]>> ELSE hits
    IN  IF ~l.ok \/ ~r.ok THEN Failure
        ELSE Table(cols, FlattenSeq([n \in DOMAIN l.rows |-> Pairs(l.rows[n])]))

SetOperation(l, r, all) ==
    IF ~l.ok \/ ~r.ok THEN Failure
    ELSE Table(l.cols, IF all THEN l.rows \o r.rows ELSE FirstRows(l.rows \o r.rows))

\* A definition sees those before it.
Define(cte, name, r) == [x \in DOMAIN cte \cup {name} |-> IF x = name THEN r ELSE cte[x]]
WithDefined(db, cte, p) ==
    IF \E d \in Range(p.definitions) : ~cte[d[1]].ok THEN Failure ELSE Exec(db, cte, p.input)

\* The nodes that have one input, whose result is r.
ExecOver(db, cte, p, r) ==
    CASE p.node = "filter"     -> Filter(db, cte, r, p.expr)
      [] p.node = "aggregate"  -> ExecAggregate(r, p.group, p.having, p.outputs)
      [] p.node = "projection" -> ExecProjection(db, cte, r, p.columns)
      [] ~r.ok -> Failure
      [] r.ok /\ p.node = "subquery" ->
            [r EXCEPT !.cols = [i \in DOMAIN r.cols |-> <<p.alias>> \o r.cols[i]]]
      [] r.ok /\ p.node = "distinct" -> [r EXCEPT !.rows = FirstRows(r.rows)]
      [] r.ok /\ p.node = "sort"     -> [r EXCEPT !.rows = SortRows(r.cols, p.keys, r.rows)]
      [] r.ok /\ p.node = "limit"    ->
            [r EXCEPT !.rows = SubSeq(r.rows, p.offset + 1,
                                      IF p.limit = <<>> THEN Len(r.rows)
                                      ELSE Min({Len(r.rows), p.offset + p.limit[1]}))]

Exec(db, cte, p) ==
    CASE p.node = "scan"  -> ExecScan(db, cte, p.table, p.filter)
      [] p.node = "index" -> ExecIndexScan(db, p.table, p.key)
      [] p.node = "join"  -> ExecJoin(Exec(db, cte, p.left), Exec(db, cte, p.right), p.kind, p.on)
      [] p.node = "union" -> SetOperation(Exec(db, cte, p.left), Exec(db, cte, p.right), p.all)
      [] p.node = "cte"   ->
            WithDefined(db, FoldLeft(LAMBDA c, d : Define(c, d[1], Exec(db, c, d[2])), cte, p.definitions), p)
      [] OTHER -> ExecOver(db, cte, p, Exec(db, cte, p.input))

-----------------------------------------------------------------------------
(* What a SELECT of tables means: the pairs of row numbers that its clauses *)
(* keep, in the order its keys give them and then in the tables' order.    *)
(* Number 0 is the row of nulls a left join adds.                          *)

RowsOf(db, t) == DOMAIN db[t].rows
Joined(s)     == s.joins # <<>>
RightOf(s)    == s.joins[1]

ColsOf(db, s) == db[s.from[1].table].cols \o (IF Joined(s) THEN db[RightOf(s).table].cols ELSE <<>>)
RowOf(db, s, k) ==
    db[s.from[1].table].rows[k[1]] \o
    (CASE ~Joined(s) -> <<>>
       [] Joined(s) /\ k[2] = 0 -> [i \in DOMAIN db[RightOf(s).table].cols |-> Null]
       [] OTHER -> db[RightOf(s).table].rows[k[2]])
True(db, s, clause, k) ==
    clause = <<>> \/ Passes(clause[1], Row(ColsOf(db, s), RowOf(db, s, k)))

Combined(db, s) ==
    IF ~Joined(s) THEN RowsOf(db, s.from[1].table) \X {0}
    ELSE LET hits == {k \in RowsOf(db, s.from[1].table) \X RowsOf(db, RightOf(s).table) :
                         True(db, s, RightOf(s).on, k)}
         IN  hits \cup {<<i, 0>> : i \in {i \in RowsOf(db, s.from[1].table) :
                               RightOf(s).kind = "left" /\ \A k \in hits : k[1] # i}}

\* Pairs by a comparison, and those that it does not tell apart as they are.
Earlier(k, l) == k[1] < l[1] \/ (k[1] = l[1] /\ k[2] < l[2])
Ordered(ks, Cmp(_, _)) ==
    SetToSortSeq(ks, LAMBDA k, l : Cmp(k, l) < 0 \/ (Cmp(k, l) = 0 /\ Earlier(k, l)))

Window(rows, s) ==
    LET first == s.offset + 1
        last  == IF s.limit = <<>> THEN Len(rows) ELSE s.offset + s.limit[1]
    IN  SubSeq(rows, first, Min({last, Len(rows)}))

\* The rows of a function from pairs to rows, in the order of the keys.
InOrder(cols, keys, row) ==
    LET Cmp(k, l) == CompareRows(cols, keys, row[k], row[l])
        ks == Ordered(DOMAIN row, Cmp)
    IN  [n \in DOMAIN ks |-> row[ks[n]]]

Projected(columns, cols, rows) ==
    [n \in DOMAIN rows |->
        FlattenSeq([i \in DOMAIN columns |->
            IF columns[i].star THEN rows[n] ELSE <<Eval(columns[i].expr, Row(cols, rows[n]))>>])]

\* What the columns are for a group: in its first member, or of all of them.
Of(e, k, members, at) ==
    LET counted == IF e.args = <<>> THEN members
                   ELSE {m \in members : Eval(e.args[1], at[m]) # Null}
        vs == {Eval(e.args[1], at[m]) : m \in counted}
    IN  CASE e.op # "call" -> Eval(e, at[k])
          [] e.op = "call" /\ e.sign = "COUNT" -> Integer(Cardinality(counted))
          [] e.op = "call" /\ e.sign = "COUNT DISTINCT" -> Integer(Cardinality(vs))
          [] e.op = "call" /\ e.sign = "SUM" ->
                Float(MapThenSumSet(LAMBDA m : Eval(e.args[1], at[m])[2], counted))
          [] e.op = "call" /\ e.sign \in {"MIN", "MAX"} ->
                IF counted = {} THEN Null
                ELSE CHOOSE v \in vs : \A w \in vs :
                        IF e.sign = "MIN" THEN CmpVal(v, w) <= 0 ELSE CmpVal(v, w) >= 0
Outputs(columns, k, members, at) == [i \in DOMAIN columns |-> Of(columns[i].expr, k, members, at)]

\* Groups are told apart by their first members.
Groups(s, at) ==
    LET keys    == [k \in DOMAIN at |-> [i \in DOMAIN s.group |-> Eval(s.group[i], at[k])]]
        leaders == {k \in DOMAIN at : ~\E l \in DOMAIN at : keys[l] = keys[k] /\ Earlier(l, k)}
    IN  [k \in leaders |-> {m \in DOMAIN at : keys[m] = keys[k]}]

GroupRows(s, names, at, groups) ==
    LET out  == [k \in DOMAIN groups |-> Outputs(s.columns, k, groups[k], at)]
        kept == {k \in DOMAIN out : s.having = <<>> \/ Passes(s.having[1], Row(names, out[k]))}
    IN  IF s.group = <<>> /\ s.having = <<>> /\ DOMAIN at = {}
        THEN <<Outputs(s.columns, <<0, 0>>, {}, at)>>
        ELSE InOrder(names, s.order, [k \in kept |-> out[k]])

First(distinct, row) ==
    {k \in DOMAIN row : distinct => ~\E l \in DOMAIN row : row[l] = row[k] /\ Earlier(l, k)}

MeaningOf(s, cols, row) ==
    LET at == [k \in DOMAIN row |-> Row(cols, row[k])]
    IN  Window(IF Aggregates(s)
               THEN GroupRows(s, [i \in DOMAIN s.columns |-> s.columns[i].name], at, Groups(s, at))
               ELSE Projected(s.columns, cols,
                              InOrder(cols, s.order, [k \in First(s.distinct, row) |-> row[k]])),
               s)

Meaning(db, s) ==
    MeaningOf(s, ColsOf(db, s),
              [k \in {k \in Combined(db, s) : True(db, s, s.where, k)} |-> RowOf(db, s, k)])

Agree(r, rows, asSet) ==
    /\ r.ok
    /\ IF asSet THEN Range(r.rows) = Range(rows) /\ FirstRows(r.rows) = r.rows ELSE r.rows = rows

\* What a statement returns is what a plain statement means, one of tables, by
\* whatever path it is planned: the key or a scan, a filter below a join or above
\* it, rows that are sorted before they are cut and projected, a query in the
\* place of a table or of a literal (planner.rs:52, executor.rs:220).
QueriesAgree(db, s, plain) ==
    Agree(Run(db, [x \in {} |-> Failure], s), Meaning(db, plain), s.union # <<>> /\ ~s.union[2])
=============================================================================
