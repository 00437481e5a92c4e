------------------------------- MODULE Parser -------------------------------
(***************************************************************************)
(* The parser of src/src/parser/parser.rs over tokens: expressions by      *)
(* levels of precedence, statements by a grammar.  A token is a keyword or *)
(* a sign, an identifier, or a literal.  Parsing starts at a position and  *)
(* gives the tree and the position after it, or fails.                     *)
(*                                                                         *)
(* The parser decides by the next one or two tokens and never goes back.   *)
(* ExpressionReadsBack and StatementReadsBack say that it reads everything *)
(* that the grammar means, and reads it as it was meant: Show writes a    *)
(* tree with the parentheses that precedence asks for, Sentences derives   *)
(* token sequences from the grammar in all ways.                           *)
(***************************************************************************)
EXTENDS Integers, Sequences, SequencesExt, FiniteSets, FiniteSetsExt

Kw(s)    == <<"kw", s>>
Ident(x) == <<"ident", x>>
LitTok(n) == <<"lit", n>>
Eof      == Kw("eof")

Peek(toks, pos) == IF pos <= Len(toks) THEN toks[pos] ELSE Eof
Check(toks, pos, s) == Peek(toks, pos) = Kw(s)
CheckIn(toks, pos, set) == Peek(toks, pos) \in {Kw(s) : s \in set}

Parsed(tree, pos) == [ok |-> TRUE, tree |-> tree, pos |-> pos]
Failed == [ok |-> FALSE, tree |-> <<>>, pos |-> 0]

\* Type names serve as identifiers.
TypeNames == {"TEXT", "INTEGER", "REAL", "BLOB", "BOOLEAN"}
EatIdent(toks, pos) ==
    LET t == Peek(toks, pos)
    IN  IF t[1] = "ident" THEN Parsed(t, pos + 1)
        ELSE IF t[1] = "kw" /\ t[2] \in TypeNames THEN Parsed(Ident(t[2]), pos + 1) ELSE Failed

-----------------------------------------------------------------------------
(* Expressions.                                                            *)

Levels == [or |-> 1, and |-> 2, not |-> 3, comparison |-> 4, sum |-> 5, product |-> 6, sign |-> 7,
           primary |-> 8]
Signs == [l \in {1, 2, 5, 6} |->
            CASE l = 1 -> {"OR"} [] l = 2 -> {"AND"} [] l = 5 -> {"+", "-", "||"}
              [] l = 6 -> {"*", "/", "%"}]
Comparisons == {"=", "<>", "<", "<=", ">", ">="}

RECURSIVE Parse(_, _, _)

\* A mutation, used only to confirm that ExpressionReadsBack can fail: the
\* operators of a level group to the right.
MoreToTheRight(l, toks, left) ==
    IF ~left.ok \/ ~CheckIn(toks, left.pos, Signs[l]) THEN left
    ELSE LET right == Parse(l, toks, left.pos + 1)
         IN  IF right.ok
             THEN Parsed(<<"bin", Peek(toks, left.pos)[2], left.tree, right.tree>>, right.pos)
             ELSE Failed

\* parse_or, parse_and, parse_addition, parse_multiplication: what the next
\* level reads, and while an operator of this level follows, another of it.
RECURSIVE More(_, _, _)
More(l, toks, left) ==
    IF ~left.ok \/ ~CheckIn(toks, left.pos, Signs[l]) THEN left
    ELSE LET right == Parse(l + 1, toks, left.pos + 1)
             sign  == Peek(toks, left.pos)[2]
         IN  IF right.ok
             THEN More(l, toks, Parsed(<<"bin", sign, left.tree, right.tree>>, right.pos))
             ELSE Failed

ParseBinary(l, toks, pos) == More(l, toks, Parse(l + 1, toks, pos))

ParseNot(toks, pos) ==
    IF ~Check(toks, pos, "NOT") THEN Parse(Levels.comparison, toks, pos)
    ELSE LET e == Parse(Levels.comparison, toks, pos + 1)
         IN  IF e.ok THEN Parsed(<<"not", e.tree>>, e.pos) ELSE Failed

\* Expressions between commas; a comma before the closing parenthesis is left.
RECURSIVE ParseList(_, _)
ParseList(toks, pos) ==
    LET e == Parse(Levels.or, toks, pos)
        comma == Check(toks, e.pos, ",")
        rest == ParseList(toks, e.pos + 1)
    IN  IF ~e.ok THEN Failed
        ELSE IF ~comma THEN Parsed(<<e.tree>>, e.pos)
        ELSE IF Check(toks, e.pos + 1, ")") THEN Parsed(<<e.tree>>, e.pos + 1)
        ELSE IF rest.ok THEN Parsed(<<e.tree>> \o rest.tree, rest.pos) ELSE Failed

\* What is in parentheses, and the closing one.
Closed(toks, inner) == IF inner.ok /\ Check(toks, inner.pos, ")")
                       THEN Parsed(inner.tree, inner.pos + 1) ELSE Failed

ParseBetween(toks, e, no, pos) ==
    LET low  == Parse(Levels.sum, toks, pos)
        high == Parse(Levels.sum, toks, low.pos + 1)
    IN  IF low.ok /\ Check(toks, low.pos, "AND") /\ high.ok
        THEN Parsed(<<"between", no, e, low.tree, high.tree>>, high.pos) ELSE Failed

\* SELECT or WITH after a parenthesis starts a query; its place is in the grammar.
StartsQuery(toks, pos) == CheckIn(toks, pos, {"SELECT", "WITH"})
RECURSIVE ParseQuery(_, _)

ParseIn(toks, e, no, pos) ==
    LET query == StartsQuery(toks, pos + 1)
        list  == IF query THEN ParseQuery(toks, pos + 1) ELSE Closed(toks, ParseList(toks, pos + 1))
    IN  IF Check(toks, pos, "(") /\ list.ok
        THEN Parsed(<<IF query THEN "in query" ELSE "in", no, e, list.tree>>, list.pos) ELSE Failed

ParsePattern(toks, e, no, pos) ==
    LET p == Parse(Levels.sum, toks, pos)
    IN  IF p.ok THEN Parsed(<<Peek(toks, pos - 1)[2], no, e, p.tree>>, p.pos) ELSE Failed

\* NOT is looked at with the token that follows it.
ParseComparison(toks, pos) ==
    LET left == Parse(Levels.sum, toks, pos)
        no   == Check(toks, left.pos, "NOT")
                /\ CheckIn(toks, left.pos + 1, {"BETWEEN", "IN", "LIKE", "GLOB"})
        at   == IF no THEN left.pos + 1 ELSE left.pos
        null == IF Check(toks, left.pos + 1, "NOT") THEN left.pos + 2 ELSE left.pos + 1
        right == Parse(Levels.sum, toks, left.pos + 1)
    IN  CASE ~left.ok -> Failed
          [] left.ok /\ Check(toks, left.pos, "IS") ->
                IF Check(toks, null, "NULL")
                THEN Parsed(<<"isnull", null # left.pos + 1, left.tree>>, null + 1) ELSE Failed
          [] left.ok /\ Check(toks, at, "BETWEEN") -> ParseBetween(toks, left.tree, no, at + 1)
          [] left.ok /\ Check(toks, at, "IN")      -> ParseIn(toks, left.tree, no, at + 1)
          [] left.ok /\ CheckIn(toks, at, {"LIKE", "GLOB"}) ->
                ParsePattern(toks, left.tree, no, at + 1)
          [] left.ok /\ CheckIn(toks, left.pos, Comparisons) ->
                IF right.ok THEN Parsed(<<"bin", Peek(toks, left.pos)[2], left.tree, right.tree>>, right.pos)
                ELSE Failed
          [] OTHER -> left

ParseUnary(toks, pos) ==
    IF ~Check(toks, pos, "-") THEN Parse(Levels.primary, toks, pos)
    ELSE LET e == Parse(Levels.primary, toks, pos + 1)
         IN  IF e.ok THEN Parsed(<<"neg", e.tree>>, e.pos) ELSE Failed

ParseFunctionCall(toks, name, pos) ==
    LET distinct == Check(toks, pos, "DISTINCT")
        at   == IF distinct THEN pos + 1 ELSE pos
        args == Closed(toks, CASE Check(toks, at, "*") -> Parsed(<<<<"col", "*">>>>, at + 1)
                               [] Check(toks, at, ")") -> Parsed(<<>>, at)
                               [] OTHER -> ParseList(toks, at))
    IN  IF args.ok THEN Parsed(<<"call", name, distinct, args.tree>>, args.pos) ELSE Failed

-----------------------------------------------------------------------------
(* The grammar of statements.  Each optional part and each alternative is  *)
(* chosen by what is looked at: keywords, an identifier, the start of a    *)
(* query, or the list of columns that VALUES follows.  Alternatives are    *)
(* tried in their order, and one that looks at nothing is the rest.        *)

T(s)       == <<"kw", s>>
Name       == <<"name">>           \* eat_ident
PlainName  == <<"plain name">>     \* an identifier that is no keyword
Expr       == <<"expr">>
Primary    == <<"primary">>
SqlType    == <<"type">>
Query      == <<"select">>
Body       == <<"body">>
Phrase(gs)    == <<"seq", gs>>
Opt(look, g) == <<"opt", look, g>>
Alt(options) == <<"alt", options>>  \* of pairs of what is looked at and what follows
Rep(options) == <<"rep", options>>  \* alternatives as long as one follows
List(g)    == <<"list", g>>         \* between commas
Several(s)   == Phrase([i \in DOMAIN s |-> T(s[i])])
Paren(g)   == Phrase(<<T("("), g, T(")")>>)
Clause(word, g) == Opt(<<word>>, Phrase(<<T(word), g>>))
Flag(word) == Opt(<<word>>, T(word))

Alias == Alt(<<<<<<"AS">>, Phrase(<<T("AS"), Name>>)>>, <<<<"ident">>, PlainName>>, <<<<>>, Phrase(<<>>)>>>>)

SelectItems == List(Alt(<<<<<<"*">>, T("*")>>, <<<<>>, Phrase(<<Expr, Alias>>)>>>>))

TableRef ==
    Phrase(<<Name, Alt(<<<<<<".">>, Phrase(<<T("."), Name, Clause("AS", Name)>>)>>, <<<<>>, Alias>>>>)>>)

\* A name in parentheses is a table as well.
FromItem ==
    Alt(<<<<<<"(", "query">>, Phrase(<<Paren(Query), Flag("AS"), Name>>)>>,
          <<<<"(">>, Phrase(<<Paren(Name), Alias>>)>>,
          <<<<>>, TableRef>>>>)

Joined(words) ==
    Phrase(<<words, TableRef,
          Alt(<<<<<<"ON">>, Phrase(<<T("ON"), Expr>>)>>,
                <<<<"USING">>, Phrase(<<T("USING"), Paren(List(Name))>>)>>, <<<<>>, Phrase(<<>>)>>>>)>>)
Joins ==
    Rep(<<<<<<"JOIN">>, Joined(T("JOIN"))>>, <<<<"INNER">>, Joined(Several(<<"INNER", "JOIN">>))>>,
          <<<<"LEFT">>, Joined(Phrase(<<T("LEFT"), Flag("OUTER"), T("JOIN")>>))>>,
          <<<<"RIGHT">>, Joined(Phrase(<<T("RIGHT"), Flag("OUTER"), T("JOIN")>>))>>,
          <<<<"CROSS">>, Joined(Several(<<"CROSS", "JOIN">>))>>,
          <<<<"NATURAL">>, Joined(Several(<<"NATURAL", "JOIN">>))>>>>)

OrderItems == List(Phrase(<<Expr, Flag("DESC"), Flag("ASC")>>))

With == Opt(<<"WITH">>, Phrase(<<T("WITH"), Flag("RECURSIVE"),
                              List(Phrase(<<Name, T("AS"), Paren(Query)>>))>>))

Limit == Alt(<<<<<<"LIMIT">>, Phrase(<<T("LIMIT"), Expr,
                                    Alt(<<<<<<",">>, Phrase(<<T(","), Expr>>)>>,
                                          <<<<"OFFSET">>, Phrase(<<T("OFFSET"), Expr>>)>>,
                                          <<<<>>, Phrase(<<>>)>>>>)>>)>>,
               <<<<"OFFSET">>, Phrase(<<T("OFFSET"), Expr>>)>>, <<<<>>, Phrase(<<>>)>>>>)

Select ==
    Phrase(<<With, T("SELECT"), Flag("DISTINCT"), SelectItems, Clause("FROM", FromItem), Joins,
          Clause("WHERE", Expr),
          Opt(<<"GROUP", "BY">>, Phrase(<<T("GROUP"), T("BY"), List(Expr)>>)),
          Clause("HAVING", Expr),
          Opt(<<"ORDER", "BY">>, Phrase(<<T("ORDER"), T("BY"), OrderItems>>)),
          Limit,
          Clause("UNION", Phrase(<<Flag("ALL"), Query>>))>>)

Assignment == Phrase(<<Name, T("="), Expr>>)

OnConflict ==
    Clause("ON", Phrase(<<T("CONFLICT"), T("DO"),
                       Alt(<<<<<<"NOTHING">>, T("NOTHING")>>,
                             <<<<>>, Phrase(<<T("UPDATE"), T("SET"), Assignment>>)>>>>)>>))
\* Columns are looked for only where VALUES follows them.
Insert ==
    Phrase(<<Several(<<"INSERT", "INTO">>), Name,
          Alt(<<<<<<"DEFAULT">>, Several(<<"DEFAULT", "VALUES">>)>>,
                <<<<>>, Phrase(<<Opt(<<"values next">>, Paren(List(Name))), T("VALUES"),
                                 List(Paren(List(Expr)))>>)>>>>),
          OnConflict>>)
Update == Phrase(<<T("UPDATE"), Name, T("SET"), List(Assignment), Clause("WHERE", Expr)>>)
Delete == Phrase(<<Several(<<"DELETE", "FROM">>), Name, Clause("WHERE", Expr)>>)

IfNotExists == Opt(<<"IF">>, Several(<<"IF", "NOT", "EXISTS">>))
IfExists    == Opt(<<"IF">>, Several(<<"IF", "EXISTS">>))

CreateView == Phrase(<<T("VIEW"), IfNotExists, Flag("TEMP"), Name, T("AS"), Query>>)

ColumnDef ==
    Phrase(<<Name, SqlType,
          Rep(<<<<<<"NOT">>, Several(<<"NOT", "NULL">>)>>,
                <<<<"PRIMARY">>, Phrase(<<T("PRIMARY"), T("KEY"), Flag("AUTOINCREMENT")>>)>>,
                <<<<"UNIQUE">>, T("UNIQUE")>>,
                <<<<"CHECK">>, Phrase(<<T("CHECK"), Paren(Expr)>>)>>,
                <<<<"REFERENCES">>, Phrase(<<T("REFERENCES"), Name, Opt(<<"(">>, Paren(Name))>>)>>,
                <<<<"DEFAULT">>, Phrase(<<T("DEFAULT"),
                                       Alt(<<<<<<"(">>, Paren(Expr)>>, <<<<>>, Primary>>>>)>>)>>>>)>>)
TableConstraint(words) == Phrase(<<words, Paren(List(Name))>>)
CreateTable ==
    Phrase(<<T("TABLE"), IfNotExists, Name,
          Paren(List(Alt(<<<<<<"PRIMARY">>, TableConstraint(Several(<<"PRIMARY", "KEY">>))>>,
                           <<<<"UNIQUE">>, TableConstraint(T("UNIQUE"))>>,
                           <<<<>>, ColumnDef>>>>)))>>)
CreateIndex == Phrase(<<T("INDEX"), Name, T("ON"), Name, Paren(List(Name))>>)

CreateTrigger ==
    Phrase(<<T("TRIGGER"), IfNotExists, Name,
          Alt(<<<<<<"BEFORE">>, T("BEFORE")>>, <<<<"AFTER">>, T("AFTER")>>,
                <<<<"INSTEAD">>, Several(<<"INSTEAD", "OF">>)>>>>),
          Alt(<<<<<<"DELETE">>, T("DELETE")>>, <<<<"INSERT">>, T("INSERT")>>,
                <<<<"UPDATE">>, Phrase(<<T("UPDATE"), Clause("OF", List(Name))>>)>>>>),
          T("ON"), Name, Opt(<<"FOR">>, Several(<<"FOR", "EACH", "ROW">>)), Clause("WHEN", Expr),
          T("BEGIN"), Body, T("END")>>)

\* UNIQUE is read whatever is created, and counts for an index.
Create ==
    Phrase(<<T("CREATE"), Flag("UNIQUE"),
          Alt(<<<<<<"TABLE">>, CreateTable>>, <<<<"INDEX">>, CreateIndex>>,
                <<<<"VIEW">>, CreateView>>, <<<<"TRIGGER">>, CreateTrigger>>>>)>>)

Dropped(word) == <<<<word>>, Phrase(<<T(word), IfExists, Name>>)>>
Drop == Phrase(<<T("DROP"),
              Alt(<<Dropped("TABLE"), Dropped("INDEX"), Dropped("VIEW"), Dropped("TRIGGER")>>)>>)

Reindex == Phrase(<<T("REINDEX"), Opt(<<"ident">>, PlainName)>>)
Analyze == Phrase(<<T("ANALYZE"), Opt(<<"ident">>, PlainName)>>)
Attach  == Phrase(<<Several(<<"ATTACH", "DATABASE">>), <<"text">>, T("AS"), Name>>)
Detach  == Phrase(<<Several(<<"DETACH", "DATABASE">>), Name>>)
AlterTable ==
    Phrase(<<Several(<<"ALTER", "TABLE">>), Name,
          Alt(<<<<<<"RENAME">>, Phrase(<<Several(<<"RENAME", "TO">>), Name>>)>>,
                <<<<"ADD">>, Phrase(<<Several(<<"ADD", "COLUMN">>), Name, SqlType>>)>>>>)>>)
Pragma  == Phrase(<<T("PRAGMA"), Name, Clause("=", Expr)>>)

Simple ==
    <<<<<<"query">>, Select>>, <<<<"INSERT">>, Insert>>,
      <<<<"UPDATE">>, Update>>, <<<<"DELETE">>, Delete>>, <<<<"CREATE">>, Create>>,
      <<<<"DROP">>, Drop>>, <<<<"BEGIN">>, T("BEGIN")>>, <<<<"COMMIT">>, T("COMMIT")>>,
      <<<<"ROLLBACK">>, T("ROLLBACK")>>, <<<<"ALTER">>, AlterTable>>, <<<<"PRAGMA">>, Pragma>>,
      <<<<"REINDEX">>, Reindex>>, <<<<"ANALYZE">>, Analyze>>, <<<<"ATTACH">>, Attach>>,
      <<<<"DETACH">>, Detach>>, <<<<"VACUUM">>, T("VACUUM")>>>>
Statement == Alt(Append(Simple, <<<<"EXPLAIN">>, Phrase(<<T("EXPLAIN"), Alt(Simple)>>)>>))

-----------------------------------------------------------------------------
(* Reading by the grammar.  The tree of a statement is the sequence of the *)
(* choices, names and expressions in it.                                   *)

\* The position of the parenthesis that closes the one before pos, or the end.
ClosingOf(toks, pos) ==
    LET Depth(i) == 1 + Cardinality({j \in pos..i : Check(toks, j, "(")})
                      - Cardinality({j \in pos..i : Check(toks, j, ")")})
    IN  Min({i \in pos..Len(toks) : Depth(i) = 0} \cup {Len(toks) + 1})

Looks(look, toks, pos) ==
    IF look = <<"values next">>
    THEN Check(toks, pos, "(") /\ Check(toks, ClosingOf(toks, pos + 1) + 1, "VALUES")
    ELSE \A i \in DOMAIN look :
            CASE look[i] = "ident" -> Peek(toks, pos + i - 1)[1] = "ident"
              [] look[i] = "query" -> CheckIn(toks, pos + i - 1, {"SELECT", "WITH"})
              [] OTHER             -> Check(toks, pos + i - 1, look[i])

\* A trigger's body is kept as text, in which a sign is spelled by its name: as
\* an identifier, for whoever reads it again.
Spelled(t) ==
    IF t[1] = "kw" /\ t[2] \in {"(", ")", ",", ";", ".", "=", "<>", "<", "<=", ">", ">=", "+", "-",
                                "*", "/", "%", "INTEGER"}
    THEN Ident(t[2]) ELSE t
BodyEnd(toks, pos) ==
    LET Depth(i) == Cardinality({j \in pos..i : Check(toks, j, "BEGIN")})
                    - Cardinality({j \in pos..(i - 1) : Check(toks, j, "END")})
    IN  Min({i \in pos..Len(toks) : Check(toks, i, "END") /\ Depth(i) = 0} \cup {Len(toks) + 1})

Mark(name, n) == <<name, n>>
Kept(mark, r) == IF r.ok THEN [r EXCEPT !.tree = <<mark>> \o @] ELSE Failed
Tokens(toks, r, pos) ==
    IF r.ok THEN Parsed(<<Mark("expr", 0)>> \o SubSeq(toks, pos, r.pos - 1), r.pos) ELSE Failed

\* The alternative that is chosen, 0 if there is none.
Chosen(options, toks, pos) ==
    Min({i \in DOMAIN options : Looks(options[i][1], toks, pos)} \cup {Len(options) + 1})
    % (Len(options) + 1)

RECURSIVE Accept(_, _, _)
Accept(g, toks, pos) ==
    LET then(r, h) == LET q == Accept(h, toks, r.pos)
                      IN  IF r.ok /\ q.ok THEN Parsed(r.tree \o q.tree, q.pos) ELSE Failed
        i == Chosen(g[2], toks, pos)
    IN  CASE g[1] = "kw" -> IF Check(toks, pos, g[2]) THEN Parsed(<<>>, pos + 1) ELSE Failed
          [] g[1] \in {"name", "plain name"} ->
                LET r == EatIdent(toks, pos) IN IF r.ok THEN Parsed(<<r.tree>>, r.pos) ELSE Failed
          [] g[1] = "expr"    -> Tokens(toks, Parse(Levels.or, toks, pos), pos)
          [] g[1] = "primary" -> Tokens(toks, Parse(Levels.primary, toks, pos), pos)
          [] g[1] = "type"    -> IF CheckIn(toks, pos, TypeNames \cup {"NULL"})
                                 THEN Parsed(<<Peek(toks, pos)>>, pos + 1) ELSE Failed
          [] g[1] = "text"    -> IF Peek(toks, pos)[1] = "lit"
                                 THEN Parsed(<<Peek(toks, pos)>>, pos + 1) ELSE Failed
          [] g[1] = "select"  -> Accept(Select, toks, pos)
          [] g[1] = "body"    ->
                LET end == BodyEnd(toks, pos)
                IN  IF end > Len(toks) THEN Failed
                    ELSE Parsed([j \in 1..(end - pos) |-> Spelled(toks[pos + j - 1])], end)
          [] g[1] = "seq"     -> FoldLeft(then, Parsed(<<>>, pos), g[2])
          [] g[1] = "opt"     -> IF Looks(g[2], toks, pos) THEN Kept(Mark("opt", 1), Accept(g[3], toks, pos))
                                 ELSE Parsed(<<Mark("opt", 0)>>, pos)
          [] g[1] = "alt"     -> IF i = 0 THEN Failed
                                 ELSE Kept(Mark("alt", i), Accept(g[2][i][2], toks, pos))
          [] g[1] = "rep"     -> IF i = 0 THEN Parsed(<<Mark("rep", 0)>>, pos)
                                 ELSE then(Kept(Mark("rep", i), Accept(g[2][i][2], toks, pos)), g)
          [] g[1] = "list"    ->
                LET r == Accept(g[2], toks, pos)
                IN  IF r.ok /\ Check(toks, r.pos, ",")
                    THEN then(Parsed(Append(r.tree, Mark("list", 1)), r.pos + 1), g) ELSE r

-----------------------------------------------------------------------------
(* The primary expressions, and the levels together.                       *)

ParseQuery(toks, pos) == Closed(toks, Tokens(toks, Accept(Select, toks, pos), pos))

ParsePrimary(toks, pos) ==
    LET t     == Peek(toks, pos)
        inner == Parse(Levels.or, toks, pos + 1)
        query == ParseQuery(toks, pos + 1)
        cast  == Parse(Levels.or, toks, pos + 2)
        field == EatIdent(toks, pos + 2)
        test  == ParseQuery(toks, pos + 2)
    IN  CASE t[1] = "lit" \/ CheckIn(toks, pos, {"NULL", "TRUE", "FALSE"}) ->
                Parsed(<<"lit", t>>, pos + 1)
          [] t = Kw("(") /\ StartsQuery(toks, pos + 1) ->
                IF query.ok THEN Parsed(<<"query", query.tree>>, query.pos) ELSE Failed
          [] t = Kw("(") /\ ~StartsQuery(toks, pos + 1) -> Closed(toks, inner)
          [] t = Kw("EXISTS") ->
                IF Check(toks, pos + 1, "(") /\ test.ok
                THEN Parsed(<<"exists", test.tree>>, test.pos) ELSE Failed
          [] t = Kw("CAST") ->
                IF /\ Check(toks, pos + 1, "(") /\ cast.ok /\ Check(toks, cast.pos, "AS")
                   /\ CheckIn(toks, cast.pos + 1, TypeNames \cup {"NULL"})
                   /\ Check(toks, cast.pos + 2, ")")
                THEN Parsed(<<"cast", Peek(toks, cast.pos + 1), cast.tree>>, cast.pos + 3) ELSE Failed
          [] t[1] = "ident" /\ Check(toks, pos + 1, "(") -> ParseFunctionCall(toks, t[2], pos + 2)
          [] t[1] = "ident" /\ Check(toks, pos + 1, ".") ->
                IF field.ok THEN Parsed(<<"col", field.tree[2], t[2]>>, pos + 3) ELSE Failed
          [] t[1] = "ident" /\ ~CheckIn(toks, pos + 1, {"(", "."}) -> Parsed(<<"col", t[2]>>, pos + 1)
          [] OTHER -> Failed

Parse(l, toks, pos) ==
    CASE l \in DOMAIN Signs        -> ParseBinary(l, toks, pos)
      [] l = Levels.not            -> ParseNot(toks, pos)
      [] l = Levels.comparison     -> ParseComparison(toks, pos)
      [] l = Levels.sign           -> ParseUnary(toks, pos)
      [] l = Levels.primary        -> ParsePrimary(toks, pos)

-----------------------------------------------------------------------------
(* What expressions are meant to look like.                                *)

LevelOf(e) ==
    CASE e[1] = "bin" -> IF e[2] \in Comparisons THEN Levels.comparison
                         ELSE CHOOSE l \in DOMAIN Signs : e[2] \in Signs[l]
      [] e[1] = "not" -> Levels.not
      [] e[1] \in {"between", "in", "isnull", "LIKE", "GLOB"} -> Levels.comparison
      [] e[1] = "neg" -> Levels.sign
      [] OTHER -> Levels.primary

RECURSIVE Show(_, _)

Commas(list) == FlattenSeq([i \in DOMAIN list |->
                    (IF i = 1 THEN <<>> ELSE <<Kw(",")>>) \o Show(list[i], 1)])
No(e) == IF e[2] THEN <<Kw("NOT")>> ELSE <<>>
Bare(e) ==
    LET l == LevelOf(e)
    IN  CASE e[1] = "bin" -> Show(e[3], IF l = Levels.comparison THEN l + 1 ELSE l)
                             \o <<Kw(e[2])>> \o Show(e[4], l + 1)
          [] e[1] = "not" -> <<Kw("NOT")>> \o Show(e[2], Levels.comparison)
          [] e[1] = "neg" -> <<Kw("-")>> \o Show(e[2], Levels.primary)
          [] e[1] = "isnull" -> Show(e[3], Levels.sum) \o <<Kw("IS")>> \o No(e) \o <<Kw("NULL")>>
          [] e[1] = "between" -> Show(e[3], Levels.sum) \o No(e) \o <<Kw("BETWEEN")>>
                                 \o Show(e[4], Levels.sum) \o <<Kw("AND")>> \o Show(e[5], Levels.sum)
          [] e[1] = "in" -> Show(e[3], Levels.sum) \o No(e) \o <<Kw("IN"), Kw("(")>>
                            \o Commas(e[4]) \o <<Kw(")")>>
          [] e[1] \in {"LIKE", "GLOB"} ->
                Show(e[3], Levels.sum) \o No(e) \o <<Kw(e[1])>> \o Show(e[4], Levels.sum)
          [] e[1] = "lit" -> <<e[2]>>
          [] e[1] = "col" -> IF Len(e) = 2 THEN <<Ident(e[2])>>
                             ELSE <<Ident(e[3]), Kw("."), Ident(e[2])>>
          [] e[1] = "call" -> <<Ident(e[2]), Kw("(")>> \o (IF e[3] THEN <<Kw("DISTINCT")>> ELSE <<>>)
                              \o Commas(e[4]) \o <<Kw(")")>>
          [] e[1] = "cast" -> <<Kw("CAST"), Kw("(")>> \o Show(e[3], 1)
                              \o <<Kw("AS"), e[2], Kw(")")>>
Show(e, l) == IF LevelOf(e) >= l THEN Bare(e) ELSE <<Kw("(")>> \o Bare(e) \o <<Kw(")")>>

\* An expression is read back from its text as it was: precedence, the grouping
\* of operators to the left, and AND and NOT in their two meanings each
\* (parser.rs:873 to parser.rs:1105).
ExpressionReadsBack(e) ==
    LET toks == Show(e, 1) IN Parse(Levels.or, toks, 1) = Parsed(e, Len(toks) + 1)

\* Expressions of all kinds over some smaller ones.
Over(small) ==
    {<<"bin", op, l, r>> : op \in {"OR", "AND", "=", "<", "-", "||", "*"}, l \in small, r \in small}
    \cup {<<op, l>> : op \in {"not", "neg"}, l \in small}
    \cup {<<"isnull", no, l>> : no \in BOOLEAN, l \in small}
    \cup {<<op, no, l, r>> : op \in {"LIKE", "GLOB"}, no \in BOOLEAN, l \in small, r \in small}
    \cup {<<"in", no, l, <<l, r>>>> : no \in BOOLEAN, l \in small, r \in small}
    \cup {<<"between", no, l, r, l>> : no \in BOOLEAN, l \in small, r \in small}
    \cup {<<"call", "F", no, <<l>>>> : no \in BOOLEAN, l \in small}
    \cup {<<"cast", Kw("TEXT"), l>> : l \in small}

Leaves == {<<"col", "x">>, <<"lit", LitTok(1)>>}
Small  == LET c == <<"col", "x">>
          IN  {c, <<"not", c>>, <<"neg", c>>, <<"isnull", FALSE, c>>, <<"LIKE", FALSE, c, c>>,
               <<"in", TRUE, c, <<c, c>>>>, <<"between", FALSE, c, c, c>>}
              \cup {<<"bin", op, c, c>> : op \in {"OR", "AND", "=", "-", "*"}}
Expressions == Leaves \cup {<<"col", "x", "y">>, <<"call", "F", FALSE, <<>>>>, <<"lit", Kw("NULL")>>}
               \cup Over(Leaves) \cup Over(Small)

-----------------------------------------------------------------------------
(* What statements are meant to look like: everything the grammar derives  *)
(* with at most n choices of an optional part, of an alternative where the *)
(* last is the rule, of one more item of a list, or of an expression that  *)
(* is not a column.                                                        *)

Sentence(toks, tree, n) == [toks |-> toks, tree |-> tree, cost |-> n]
With1(mark, ss, n) == {[s EXCEPT !.tree = <<mark>> \o @, !.cost = @ + n] : s \in ss}

x == Ident("x")
Exprs == LET query == <<Kw("SELECT"), Kw("*")>>
         IN  {Sentence(ts, <<Mark("expr", 0)>> \o ts, Min({2, Len(ts) \div 2})) :
                 ts \in {<<x>>, <<x, Kw("="), LitTok(1)>>,
                         <<x, Kw("NOT"), Kw("IN"), Kw("(")>> \o query \o <<Kw(")")>>,
                         <<Kw("EXISTS"), Kw("(")>> \o query \o <<Kw(")")>>}}

RECURSIVE Sentences(_, _)
Sentences(g, n) ==
    LET within(ss) == {s \in ss : s.cost <= n}
        then(ss, h) == UNION {{Sentence(s.toks \o r.toks, s.tree \o r.tree, s.cost + r.cost) :
                                  r \in Sentences(h, n - s.cost)} : s \in ss}
        price(i) == IF Last(g[2])[1] = <<>> /\ i < Len(g[2]) THEN 1 ELSE 0
        options == UNION {With1(Mark(g[1], i), Sentences(g[2][i][2], n - price(i)), price(i)) :
                             i \in {i \in DOMAIN g[2] : price(i) <= n}}
    IN  CASE g[1] = "kw" -> {Sentence(<<Kw(g[2])>>, <<>>, 0)}
          [] g[1] = "plain name" -> {Sentence(<<x>>, <<x>>, 0)}
          [] g[1] = "name" -> within({Sentence(<<x>>, <<x>>, 0),
                                      Sentence(<<Kw("TEXT")>>, <<Ident("TEXT")>>, 2)})
          [] g[1] \in {"expr", "primary"} ->
                within(IF g[1] = "expr" THEN Exprs ELSE {s \in Exprs : s.cost = 0})
          [] g[1] = "type"   -> {Sentence(<<Kw("REAL")>>, <<Kw("REAL")>>, 0)}
          [] g[1] = "text"   -> {Sentence(<<LitTok(1)>>, <<LitTok(1)>>, 0)}
          [] g[1] = "select" -> Sentences(Select, IF n > 1 THEN 1 ELSE n)
          [] g[1] = "body"   -> {Sentence(ts, ts, 0) :
                                    ts \in {<<Kw("DELETE"), Kw("FROM"), x>>,
                                            <<Kw("BEGIN"), x, Kw("END")>>}}
          [] g[1] = "seq"    -> FoldLeft(then, {Sentence(<<>>, <<>>, 0)}, g[2])
          [] g[1] = "opt"    -> {Sentence(<<>>, <<Mark("opt", 0)>>, 0)}
                                \cup (IF n = 0 THEN {} ELSE With1(Mark("opt", 1), Sentences(g[3], n - 1), 1))
          [] g[1] = "alt"    -> options
          [] g[1] = "rep"    -> {Sentence(<<>>, <<Mark("rep", 0)>>, 0)}
                                \cup (IF n = 0 THEN {}
                                      ELSE then(UNION {With1(Mark("rep", i), Sentences(g[2][i][2], n - 1), 1) :
                                                          i \in DOMAIN g[2]}, g))
          [] g[1] = "list"   ->
                LET one == Sentences(g[2], n)
                    comma == {Sentence(Append(s.toks, Kw(",")), Append(s.tree, Mark("list", 1)), s.cost + 1) :
                                 s \in {s \in one : s.cost < n}}
                IN  one \cup then(comma, g)

\* A statement is read, to its end, by the choices that it was made by: no
\* optional part takes what belongs to another (parser.rs:103 to parser.rs:870,
\* parser.rs:1142).
StatementReadsBack(s) == Accept(Statement, s.toks, 1) = Parsed(s.tree, Len(s.toks) + 1)
=============================================================================
