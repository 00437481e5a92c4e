------------------------------- MODULE Lexer -------------------------------
(***************************************************************************)
(* The lexer of src/src/parser/lexer.rs over a small alphabet: it skips    *)
(* white space and comments, decides by one or two characters what comes,  *)
(* and takes as many characters as belong to it.  A token is a tuple of    *)
(* its kind and its content; a position of 0 is an error.  The quotes      *)
(* around an identifier are spelled out.                                   *)
(***************************************************************************)
EXTENDS Integers, Sequences, FiniteSets, SequencesExt, FiniteSetsExt

White   == {" ", "\n"}
Digits  == {"1", "2"}
Letters == {"a", "A", "s", "_"}
OneCharacter == {"(", ")", ",", ";", ".", "+", "-", "*", "/", "%", "="}
TwoCharacters == [a \in {"<", ">", "!", "|"} |->
                     CASE a = "<" -> {"=", ">"} [] a = "|" -> {"|"} [] OTHER -> {"="}]

Sign(s) == <<"sign", IF s = <<"!", "=">> THEN <<"<", ">">> ELSE s>>
Keyword(word) ==
    LET upper == [i \in DOMAIN word |-> IF word[i] = "a" THEN "A" ELSE IF word[i] = "s" THEN "S" ELSE word[i]]
    IN  IF upper = <<"A", "S">> THEN <<"keyword", upper>> ELSE <<"ident", word>>
Eof  == <<"eof", <<>>>>
Wrong == [tok |-> Eof, pos |-> 0]
Token(kind, content, pos) == [tok |-> <<kind, content>>, pos |-> pos]

At(text, pos) == IF pos <= Len(text) THEN text[pos] ELSE "end"

\* The first position from pos on that is not in the set, or that is.
After(text, pos, set) == Min({i \in pos..Len(text) : text[i] \notin set} \cup {Len(text) + 1})
Nearest(text, pos, set)  == Min({i \in pos..Len(text) : text[i] \in set} \cup {Len(text) + 1})

RECURSIVE Skip(_, _)
Skip(text, pos) ==
    CASE At(text, pos) \in White -> Skip(text, pos + 1)
      [] At(text, pos) = "-" /\ At(text, pos + 1) = "-" -> Skip(text, Nearest(text, pos, {"\n"}))
      [] OTHER -> pos

\* The rest of a string; a quote that another follows belongs to it.
RECURSIVE LexString(_, _, _)
LexString(text, pos, s) ==
    LET q == Nearest(text, pos, {"'"})
        content == s \o SubSeq(text, pos, q - 1)
    IN  IF q > Len(text) THEN Wrong
        ELSE IF At(text, q + 1) = "'" THEN LexString(text, q + 2, Append(content, "'"))
        ELSE Token("text", content, q + 1)

LexQuotedIdent(text, pos) ==
    LET q == Nearest(text, pos + 1, {text[pos]})
    IN  IF q > Len(text) THEN Wrong ELSE Token("ident", SubSeq(text, pos + 1, q - 1), q + 1)

LexNumber(text, pos) ==
    LET dot == After(text, pos, Digits)
        end == After(text, dot + 1, Digits)
    IN  IF At(text, dot) = "." /\ At(text, dot + 1) \in Digits
        THEN Token("real", SubSeq(text, pos, end - 1), end)
        ELSE Token("int", SubSeq(text, pos, dot - 1), dot)

LexIdent(text, pos) ==
    LET end == After(text, pos, Letters \cup Digits)
    IN  [tok |-> Keyword(SubSeq(text, pos, end - 1)), pos |-> end]

NextToken(text, start) ==
    LET pos == Skip(text, start)
        c   == At(text, pos)
        two == c \in DOMAIN TwoCharacters /\ At(text, pos + 1) \in TwoCharacters[c]
    IN  CASE c = "end" -> [tok |-> Eof, pos |-> pos]
          [] c \in OneCharacter -> [tok |-> Sign(<<c>>), pos |-> pos + 1]
          [] c \in DOMAIN TwoCharacters ->
                IF two THEN [tok |-> Sign(<<c, text[pos + 1]>>), pos |-> pos + 2]
                ELSE IF c \in {"<", ">"} THEN [tok |-> Sign(<<c>>), pos |-> pos + 1] ELSE Wrong
          [] c = "'" -> LexString(text, pos + 1, <<>>)
          [] c \in {"backquote", "double quote"} -> LexQuotedIdent(text, pos)
          [] c \in Digits  -> LexNumber(text, pos)
          [] c \in Letters -> LexIdent(text, pos)
          [] OTHER -> Wrong

RECURSIVE Tokenize(_, _, _)
Tokenize(text, pos, toks) ==
    LET t == NextToken(text, pos)
    IN  IF t.pos = 0 THEN <<>>                 \* an error leaves no tokens
        ELSE IF t.tok = Eof THEN Append(toks, Eof) ELSE Tokenize(text, t.pos, Append(toks, t.tok))

-----------------------------------------------------------------------------
(* What a text is meant to say: lexemes, each a token with the characters  *)
(* it is written with, with something between those that would be read as  *)
(* one.                                                                    *)

Doubled(s) == FlattenSeq([i \in DOMAIN s |-> IF s[i] = "'" THEN <<"'", "'">> ELSE <<s[i]>>])
Quoted(q, s) == <<q>> \o s \o <<q>>

Plain == {<<<<"sign", <<c>>>>, <<c>>>> : c \in {"(", ".", "-", "=", "<", ">"}}
         \cup {<<<<"sign", s>>, s>> : s \in {<<"<", "=">>, <<">", "=">>, <<"|", "|">>}}
         \cup {<<<<"int", d>>, d>> : d \in {<<"1">>, <<"2", "1">>}}
         \cup {<<<<"ident", w>>, w>> : w \in {<<"a">>, <<"_", "1">>, <<"a", "s", "s">>}}
         \cup {<<<<"text", s>>, Quoted("'", Doubled(s))>> : s \in {<<>>, <<"'">>, <<"-", "-">>}}
Lexemes == Plain
    \cup {<<<<"sign", <<"<", ">">>>>, s>> : s \in {<<"<", ">">>, <<"!", "=">>}}
    \cup {<<<<"real", <<"1", ".", "2">>>>, <<"1", ".", "2">>>>}
    \cup {<<<<"keyword", <<"A", "S">>>>, w>> : w \in {<<"a", "s">>, <<"A", "s">>}}
    \cup {<<<<"ident", s>>, Quoted(q, s)>> : q \in {"backquote", "double quote"}, s \in {<<"'">>, <<"a", "s">>, <<"-", "-">>}}
    \cup {<<<<"text", s>>, Quoted("'", Doubled(s))>> : s \in {<<"a", "'", "\n">>, <<"'", "'">>, <<"double quote">>}}

\* Two lexemes the longest reading would join, or read as a comment.
Joined(a, b) ==
    LET c == Last(a[2])  d == Head(b[2])
    IN  \/ a[1][1] \in {"ident", "keyword"} /\ c \in Letters \cup Digits /\ d \in Letters \cup Digits
        \/ a[1][1] \in {"int", "real"} /\ d \in Digits
        \/ c \in Digits /\ d = "."
        \/ c \in {"<", ">"} /\ d \in {"=", ">"} /\ Len(a[2]) = 1
        \/ c = "-" /\ d = "-"
        \/ a[1][1] = "text" /\ b[1][1] = "text"

Text(ls, gap) ==
    FlattenSeq([i \in DOMAIN ls |->
        ls[i][2] \o (IF i < Len(ls) /\ gap = <<>> /\ Joined(ls[i], ls[i + 1]) THEN <<" ">> ELSE gap)])

Texts == ([1..2 -> Lexemes] \X {<<>>, <<"\n">>, <<" ", "-", "-", "'", "\n">>})
         \cup ([1..3 -> Plain] \X {<<>>})

\* A text is read as the tokens it was written from, however close they stand
\* and however they are separated (lexer.rs:206).
TextReadsBack(ls, gap) ==
    Tokenize(Text(ls, gap), 1, <<>>) = Append([i \in DOMAIN ls |-> ls[i][1]], Eof)
=============================================================================
