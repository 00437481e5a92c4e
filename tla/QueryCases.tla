----------------------------- MODULE QueryCases -----------------------------
(***************************************************************************)
(* The statements Queries is checked with, over a table t with a key id    *)
(* and a number n, and a table u whose second column refers to t: every    *)
(* case is a database, a statement and the plain statement it stands for.  *)
(* Left out are the statements that this executor gives a meaning of its   *)
(* own: WHERE over the right side of a join, DISTINCT of some columns      *)
(* only, a key compared with a value of another kind, and views.           *)
(***************************************************************************)
EXTENDS Queries

Ns == {Null, Integer(1), Integer(2)}       \* what the column n of t holds
Ids == <<1, 2, 4>>
Rows(keys, ns) == [i \in DOMAIN ns |-> <<Integer(keys[i]), ns[i]>>]
Lists(max) == UNION {[1..k -> Ns] : k \in 0..max}
TableT(max) == {Table(<<<<"id">>, <<"n">>>>, Rows(Ids, ns)) : ns \in Lists(max)}
TableU == {Table(<<<<"k">>, <<"ref">>>>, [i \in DOMAIN refs |-> <<Integer(i), refs[i]>>]) :
              refs \in {<<>>, <<Integer(2), Integer(1)>>, <<Integer(1), Integer(9), Integer(1)>>}}

t == FromTable("t")
id == Col(<<"id">>)
n == Col(<<"n">>)
ref == Col(<<"ref">>)
One == Lit(Integer(1))
Two == Lit(Integer(2))

Wheres == {<<>>} \cup
    {<<e>> : e \in {BinOp("=", id, Two), BinOp("=", Lit(Integer(3)), id), BinOp("=", n, id),
                    BinOp("<", n, Two), UnOp("NOT", BinOp("=", n, One)), IsNull(n, TRUE),
                    Between(id, One, n, FALSE), InList(n, <<id, Two, Lit(Null)>>, TRUE),
                    BinOp("OR", BinOp("=", id, One), BinOp(">", BinOp("+", n, id), Lit(Integer(3))))}}
Orders == {<<>>, <<Key(n, TRUE)>>, <<Key(n, FALSE), Key(id, FALSE)>>}
Windows == {<<<<>>, 0>>, <<<<1>>, 0>>, <<<<2>>, 1>>, <<<<>>, 1>>}
Columns == {<<Star>>, <<Item(n, <<"n">>), Item(BinOp("*", id, Two), <<"?">>)>>}

Scans == {[SelectFrom(t) EXCEPT !.columns = c, !.where = w, !.order = o, !.limit = l[1], !.offset = l[2]] :
             c \in Columns, w \in Wheres, o \in Orders, l \in Windows}

Grouped ==
    {[SelectFrom(t) EXCEPT !.columns = <<Item(n, <<"n">>), Item(Agg("COUNT", <<>>), <<"c">>),
                                         Item(Agg(f, <<id>>), <<"f">>)>>,
                           !.group = <<n>>, !.having = h, !.where = w, !.order = o] :
        f \in {"SUM", "MAX"}, h \in {<<>>, <<BinOp(">", Col(<<"c">>), One)>>},
        w \in {<<>>, <<BinOp("<", n, id)>>}, o \in {<<>>, <<Key(Col(<<"c">>), FALSE)>>}}
    \cup {[SelectFrom(t) EXCEPT !.columns = <<Item(Agg("COUNT DISTINCT", <<n>>), <<"d">>),
                                              Item(Agg("MIN", <<n>>), <<"f">>)>>, !.where = w] :
             w \in Wheres}

Joins ==
    {[SelectFrom(t) EXCEPT !.joins = <<JoinOf("u", kind, on)>>, !.where = w, !.order = o] :
        kind \in {"inner", "left"}, on \in {<<BinOp("=", id, ref)>>, <<BinOp("<", n, ref)>>, <<>>},
        w \in {<<>>, <<BinOp("=", id, Two)>>, <<BinOp("<", n, Two)>>}, o \in {<<>>, <<Key(ref, FALSE)>>}}

Distinct == {[SelectFrom(t) EXCEPT !.joins = <<JoinOf("u", "cross", <<>>)>>, !.distinct = TRUE]}

\* Statements with a query inside, and the plain ones they stand for.
Where(e)  == [SelectFrom(t) EXCEPT !.where = <<e>>]
Refs      == [SelectFrom(FromTable("u")) EXCEPT !.columns = <<Item(ref, <<"ref">>)>>]
Smalls    == BinOp("<", n, Two)
FirstIds  == BinOp("<", id, Two)
MaxId     == [SelectFrom(t) EXCEPT !.columns = <<Item(Agg("MAX", <<id>>), <<"MAX">>)>>]

NestedIn(refs, maxId) ==
    {<<Where(InQuery(id, Refs, no)), Where(InList(id, refs, no))>> : no \in BOOLEAN}
    \cup {<<Where(BinOp("AND", Smalls, Exists(Refs, no))),
            Where(BinOp("AND", Smalls, Lit(Bool((refs # <<>>) # no))))>> : no \in BOOLEAN}
    \cup {<<Where(BinOp("<", id, Scalar(MaxId))),
            Where(BinOp("<", id, maxId))>>,
          <<[SelectFrom(FromTable("c")) EXCEPT !.with = <<<<"c", Where(Smalls)>>>>,
                                               !.where = <<FirstIds>>],
            Where(BinOp("AND", Smalls, FirstIds))>>,
          <<SelectFrom(FromQuery(Where(Smalls), "s")), Where(Smalls)>>,
          <<[Where(Smalls) EXCEPT !.union = <<Where(FirstIds), FALSE>>],
            Where(BinOp("OR", Smalls, FirstIds))>>}
Nested(db) == NestedIn(Firsts(Meaning(db, Refs)), Firsts(Meaning(db, MaxId))[1])

Case(db, s, plain) == [db |-> db, s |-> s, plain |-> plain]
Databases(max) == {[x \in {"t", "u"} |-> IF x = "t" THEN a ELSE b] : a \in TableT(max), b \in TableU}
Cases ==
    {Case([x \in {"t"} |-> a], s, s) : a \in TableT(3), s \in Scans \cup Grouped}
    \cup {Case(db, s, s) : db \in Databases(2), s \in Joins \cup Distinct}
    \cup UNION {{Case(db, c[1], c[2]) : c \in Nested(db)} : db \in Databases(3)}
=============================================================================
