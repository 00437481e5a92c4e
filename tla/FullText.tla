------------------------------ MODULE FullText ------------------------------
(***************************************************************************)
(* A full-text table: the rows as they were given, and an inverted index   *)
(* from every word, with and without its column's name, to the rows and    *)
(* positions it stands at.  One action per call.  A text is a sequence of  *)
(* words (what the tokenizer makes of it is not modelled), a query is the  *)
(* sequence of its words, signs and keywords.  Scores are left out; the    *)
(* numbers they are computed from are kept.                                *)
(***************************************************************************)
EXTENDS Naturals, Sequences, FiniteSets, SequencesExt, FiniteSetsExt

CONSTANTS
    Words,
    Columns,     \* the names of the columns, in order
    MaxWords,    \* a bound on the words of each column
    MaxRow       \* a bound on the row ids

VARIABLES
    storage,     \* row id -> the texts of its columns
    index,       \* lists: term -> [df, postings]; docLen; nDocs
    nextRowid

ftVars == <<storage, index, nextRowid>>

Texts == {row \in [DOMAIN Columns -> UNION {[1..k -> Words] : k \in 0..Max({MaxWords[i] : i \in DOMAIN MaxWords})}] :
             \A i \in DOMAIN Columns : Len(row[i]) <= MaxWords[i]}
RowIds == 1..MaxRow

-----------------------------------------------------------------------------
\* The index.  A term is a word, or a word after the name of its column.

Term(w) == <<w>>
ColumnTerm(c, w) == <<c, ":", w>>
Terms == {Term(w) : w \in Words}
         \cup {ColumnTerm(c, w) : c \in ToSet(Columns), w \in Words}

NoList == [df |-> 0, postings |-> {}]

\* Positions count on over the columns of a row.
Start(row, i) == FoldSeq(LAMBDA text, n : n + Len(text), 0, SubSeq(row, 1, i - 1))

Tokens(row) ==
    UNION {UNION {{[term |-> Term(row[i][j]), offset |-> Start(row, i) + j],
                   [term |-> ColumnTerm(Columns[i], row[i][j]), offset |-> Start(row, i) + j]} :
                  j \in DOMAIN row[i]} : i \in DOMAIN row}

\* A mutation, used only to confirm that SearchesAgree can fail: a document
\* that is removed goes on being counted by the terms it had.
RemoveDocumentCounted(ix, doc) ==
    IF doc \notin DOMAIN ix.docLen THEN ix
    ELSE [lists  |-> [t \in Terms |-> [ix.lists[t] EXCEPT !.postings = {p \in @ : p.doc # doc}]],
          docLen |-> [d \in DOMAIN ix.docLen \ {doc} |-> ix.docLen[d]],
          nDocs  |-> ix.nDocs - 1]

RemoveDocument(ix, doc) ==
    LET Kept(list) == {p \in list.postings : p.doc # doc}
        Without(list) == IF Kept(list) = list.postings THEN list
                         ELSE [df |-> Cardinality(Kept(list)), postings |-> Kept(list)]
    IN  IF doc \notin DOMAIN ix.docLen THEN ix
        ELSE [lists  |-> [t \in Terms |-> Without(ix.lists[t])],
              docLen |-> [d \in DOMAIN ix.docLen \ {doc} |-> ix.docLen[d]],
              nDocs  |-> IF ix.nDocs > 0 THEN ix.nDocs - 1 ELSE 0]

IndexDocument(given, doc, row) ==
    LET ix == RemoveDocument(given, doc)
        tokens == Tokens(row)
        At(t) == {tok.offset : tok \in {k \in tokens : k.term = t}}
        Added(t) == [df |-> ix.lists[t].df + 1,
                     postings |-> ix.lists[t].postings \cup {[doc |-> doc, positions |-> At(t)]}]
    IN  [lists  |-> [t \in Terms |-> IF At(t) = {} THEN ix.lists[t] ELSE Added(t)],
         docLen |-> [d \in DOMAIN ix.docLen \cup {doc} |->
                        IF d = doc THEN Cardinality(tokens) ELSE ix.docLen[d]],
         nDocs  |-> ix.nDocs + 1]

-----------------------------------------------------------------------------
\* The table's calls.

Put(rowid, row) == [r \in DOMAIN storage \cup {rowid} |-> IF r = rowid THEN row ELSE storage[r]]

Insert ==
    \E row \in Texts :
        /\ nextRowid <= MaxRow
        /\ index' = IndexDocument(index, nextRowid, row)
        /\ storage' = Put(nextRowid, row)
        /\ nextRowid' = nextRowid + 1

InsertWithId ==
    \E rowid \in RowIds, row \in Texts :
        /\ index' = IndexDocument(index, rowid, row)
        /\ storage' = Put(rowid, row)
        /\ nextRowid' = Max({nextRowid, rowid + 1})

\* A row that is not there is updated all the same, without taking its id.
Update ==
    \E rowid \in RowIds, row \in Texts :
        /\ index' = IndexDocument(RemoveDocument(index, rowid), rowid, row)
        /\ storage' = Put(rowid, row)
        /\ UNCHANGED nextRowid

Delete ==
    \E rowid \in RowIds :
        /\ index' = RemoveDocument(index, rowid)
        /\ storage' = [r \in DOMAIN storage \ {rowid} |-> storage[r]]
        /\ UNCHANGED nextRowid

Init ==
    /\ storage = <<>>
    /\ index = [lists |-> [t \in Terms |-> NoList], docLen |-> <<>>, nDocs |-> 0]
    /\ nextRowid = 1

Next == Insert \/ InsertWithId \/ Update \/ Delete

Spec == Init /\ [][Next]_ftVars

-----------------------------------------------------------------------------
\* A MATCH string.

Quote == "\""

\* The place of the first keyword that stands outside quotes, 0 if none.
FindKeyword(q, word) ==
    LET Quotes(i) == Cardinality({j \in 1..i : q[j] = Quote})
    IN  Min({i \in DOMAIN q : q[i] = word /\ Quotes(i) % 2 = 0} \cup {Len(q) + 1}) % (Len(q) + 1)

RECURSIVE ParseMatch(_)
ParseMatch(q) ==
    LET Split(kind, at) == <<kind, <<ParseMatch(SubSeq(q, 1, at - 1)), ParseMatch(SubSeq(q, at + 1, Len(q)))>>>>
        or == FindKeyword(q, "OR")
        and == FindKeyword(q, "AND")
        colon == SelectInSeq(q, LAMBDA s : s = ":")
    IN  CASE or > 0 -> Split("or", or)
          [] or = 0 /\ and > 0 -> Split("and", and)
          [] or = 0 /\ and = 0 /\ q[1] = Quote /\ q[Len(q)] = Quote ->
                 <<"phrase", [i \in 1..(Len(q) - 2) |-> Term(q[i + 1])]>>
          [] OTHER ->
                 IF colon > 0
                 THEN <<"column", SubSeq(q, 1, colon - 1), ParseMatch(SubSeq(q, colon + 1, Len(q)))>>
                 ELSE <<"term", q>>

RECURSIVE PrefixQuery(_, _)
PrefixQuery(q, col) ==
    LET Prefixed(term) == col \o <<":">> \o term
    IN  CASE q[1] = "term" -> <<"term", Prefixed(q[2])>>
          [] q[1] = "phrase" -> <<"phrase", [i \in DOMAIN q[2] |-> Prefixed(q[2][i])]>>
          [] q[1] \in {"and", "or"} -> <<q[1], [i \in DOMAIN q[2] |-> PrefixQuery(q[2][i], col)]>>
          [] q[1] = "column" -> <<"column", q[2], PrefixQuery(q[3], col)>>

Postings(term) == IF term \in Terms THEN index.lists[term].postings ELSE {}

SearchTerm(term) == {p.doc : p \in Postings(term)}

SearchPhrase(terms) ==
    IF terms = <<>> THEN {}
    ELSE {p.doc : p \in {p0 \in Postings(terms[1]) :
             \E start \in p0.positions : \A i \in 2..Len(terms) :
                 \E p \in Postings(terms[i]) : p.doc = p0.doc /\ start + i - 1 \in p.positions}}

RECURSIVE ExecuteQuery(_)
ExecuteQuery(q) ==
    CASE q[1] = "term" -> SearchTerm(q[2])
      [] q[1] = "phrase" -> SearchPhrase(q[2])
      [] q[1] = "and" -> ExecuteQuery(q[2][1]) \cap ExecuteQuery(q[2][2])
      [] q[1] = "or" -> ExecuteQuery(q[2][1]) \cup ExecuteQuery(q[2][2])
      [] q[1] = "column" -> ExecuteQuery(PrefixQuery(q[3], q[2]))

Search(q) == ExecuteQuery(ParseMatch(q)) \cap DOMAIN storage

-----------------------------------------------------------------------------
\* What a query asks of a row's texts, without an index: queries are built
\* from words and phrases, of any column or of one.

Holds(text, ws) == ws # <<>> /\ \E i \in 0..(Len(text) - Len(ws)) : SubSeq(text, i + 1, i + Len(ws)) = ws
Said(row, c) == FlattenSeq([i \in DOMAIN row |-> IF c \in {"any", Columns[i]} THEN row[i] ELSE <<>>])

Ask(c, quoted, ws) ==
    [written |-> (IF c = "any" THEN <<>> ELSE <<c, ":">>)
                 \o (IF quoted THEN <<Quote>> \o ws \o <<Quote>> ELSE ws),
     rows    |-> {r \in DOMAIN storage : Holds(Said(storage[r], c), ws)}]
Both(a, b)   == [written |-> a.written \o <<"AND">> \o b.written, rows |-> a.rows \cap b.rows]
Either(a, b) == [written |-> a.written \o <<"OR">> \o b.written, rows |-> a.rows \cup b.rows]

Simple ==
    {Ask(c, FALSE, <<w>>) : c \in {"any"} \cup ToSet(Columns), w \in Words}
    \cup {Ask(c, TRUE, ws) : c \in {"any"} \cup ToSet(Columns),
                             ws \in UNION {[1..k -> Words] : k \in 0..2}}
Few   == {Ask(c, FALSE, <<w>>) : c \in {"any", Columns[1]}, w \in Words}
         \cup {Ask("any", TRUE, ws) : ws \in {vw \in Words \X Words : vw[1] # vw[2]}}
Asked == Simple \cup {Both(a, b) : a, b \in Few} \cup {Either(a, b) : a, b \in Few}
         \cup {Either(a, Both(b, c)) : a, b, c \in {s \in Simple : Len(s.written) = 1}}

TypeOK ==
    /\ DOMAIN storage \subseteq RowIds
    /\ \A r \in DOMAIN storage : storage[r] \in Texts
    /\ nextRowid \in 1..(MaxRow + 1)
    /\ \A t \in Terms : index.lists[t].df \in Nat

\* Every MATCH finds the rows whose texts say so, whatever rows were replaced,
\* updated or deleted before, and ranks them by the numbers of documents and
\* words that are stored now (index.rs:137, remove_document; fts_table.rs:151).
SearchesAgree ==
    /\ \A a \in Asked : Search(a.written) = a.rows
    /\ index.nDocs = Cardinality(DOMAIN storage)
    /\ \A r \in DOMAIN storage : index.docLen[r] = 2 * Len(Said(storage[r], "any"))
    /\ \A t \in Terms : index.lists[t].df = Cardinality(SearchTerm(t))
=============================================================================
