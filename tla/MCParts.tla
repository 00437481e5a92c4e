------------------------------ MODULE MCParts ------------------------------
(***************************************************************************)
(* Parts that share nothing in the program, checked in one run with the    *)
(* directory store: the node cache, the LSM store, full-text tables, the   *)
(* executor's patterns and queries, dates, the lexer, the parser and the   *)
(* encodings.  The subject is picked at first and the variables of the     *)
(* others stay as they are.  Those that change no state take one input,    *)
(* and no step.                                                            *)
(***************************************************************************)
EXTENDS DirStore, LruCache, LsmStore, Integers, Sequences

CONSTANTS Words, MaxRow                                           \* FullText
CONSTANTS MaxText, MaxPattern, MaxChoices                         \* the inputs' bounds

VARIABLES subject, input, storage, index, nextRowid

fullTextVars == <<storage, index, nextRowid>>
allVars      == <<subject, input, lruVars, lsmVars, vars, fullTextVars>>

Fts     == INSTANCE FullText WITH Columns <- <<"title", "body">>, MaxWords <- <<1, 2>>
Qs      == INSTANCE QueryCases
Dates   == INSTANCE DateFunctions
Tokens  == INSTANCE Lexer
Grammar == INSTANCE Parser
Records == INSTANCE Codec WITH Base <- 5, PageSize <- 36, Missing <- None

UpTo(set, max) == UNION {[1..k -> set] : k \in 0..max}

Stores == {"node cache", "lsm", "directory", "full text"}

PartsInit ==
    /\ \/ subject \in Stores /\ input = <<>>
       \/ subject = "patterns" /\ input \in UpTo({"a", "A", "b"}, MaxText)
                                            \X UpTo({"a", "b", "%", "_", "*", "?"}, MaxPattern)
       \/ subject = "queries" /\ input \in Qs!Cases
       \/ subject = "dates" /\ input \in Dates!Cases
       \/ subject = "texts" /\ input \in Tokens!Texts
       \/ subject = "expressions" /\ input \in Grammar!Expressions
       \/ subject = "records" /\ input \in Records!Cases
       \/ subject = "statements" /\ input \in Grammar!Sentences(Grammar!Statement, MaxChoices)
    /\ LruInit /\ LsmInit /\ Init
    /\ IF subject = "full text" THEN Fts!Init ELSE storage = <<>> /\ index = <<>> /\ nextRowid = 1
    /\ subject # "node cache" => \A p \in NodePages : store[p] = FreshNode

Only(who, rest) == subject = who /\ UNCHANGED <<subject, input, rest>>

PartsNext ==
    \/ Only("node cache", <<lsmVars, vars, fullTextVars>>) /\ LruNext
    \/ Only("lsm", <<lruVars, vars, fullTextVars>>) /\ LsmNext
    \/ Only("directory", <<lruVars, lsmVars, fullTextVars>>) /\ Next
    \/ Only("full text", <<lruVars, lsmVars, vars>>) /\ Fts!Next

\* Only the subject's variables ever differ from their first values.
Changing == CASE subject = "node cache" -> lruVars
          [] subject = "lsm" -> lsmVars
          [] subject = "directory" -> vars
          [] subject = "full text" -> fullTextVars
          [] OTHER -> <<subject, input>>

PartsSpec == PartsInit /\ [][PartsNext]_allVars

\* The types of the parts.
TypesOK ==
    /\ subject = "node cache" => LruTypeOK
    /\ subject = "lsm" => LsmTypeOK
    /\ subject = "directory" => TypeOK
    /\ subject = "full text" => Fts!TypeOK

\* LIKE and GLOB accept what a cut of the text into pieces does (executor.rs:1839).
PatternsMatch == subject = "patterns" => Qs!PatternsMatch(input[1], input[2])

\* The planned query returns what the statement means (planner.rs:52).
QueriesAgree == subject = "queries" => Qs!QueriesAgree(input.db, input.s, input.plain)

\* Dates and modifiers lead to the day the calendar has (datetime.rs:122).
DatesAgree == subject = "dates" => Dates!DatesAgree(input[1], input[2])

\* The lexer reads a written text back as its tokens, the parser a written tree
\* as that tree, the codecs what was encoded, a node that does not fit its page
\* as no node and a row with a new column as no row (lexer.rs:206, parser.rs:883,
\* parser.rs:116, codec.rs:63).
ReadsBack ==
    /\ subject = "texts" => Tokens!TextReadsBack(input[1], input[2])
    /\ subject = "expressions" => Grammar!ExpressionReadsBack(input)
    /\ subject = "statements" => Grammar!StatementReadsBack(input)
    /\ subject = "records" => Records!RecordReadsBack(input[1], input[2])

\* A MATCH finds the rows whose texts say so (index.rs:137).
SearchesAgree == subject = "full text" => Fts!SearchesAgree
=============================================================================
