---------------------------- MODULE Expressions ----------------------------
(***************************************************************************)
(* The value of an expression in a row, as the executor computes it        *)
(* (src/src/planner/executor.rs, eval_expr and the functions under it).    *)
(* A value is a tuple of its kind and its content; a text is a sequence of *)
(* characters; a real number is one of the integers (only comparison and   *)
(* exact arithmetic are looked at).  An expression is a record whose field *)
(* op says which it is, a row a function from the names of its columns.    *)
(***************************************************************************)
EXTENDS Integers, Sequences, FiniteSets, SequencesExt, FiniteSetsExt

Null    == <<"null">>
Integer(n) == <<"int", n>>
Float(n) == <<"real", n>>
Text(s) == <<"text", s>>
Bool(b) == <<"bool", b>>
Error   == <<"error">>          \* eval_expr returns Err
Panic   == <<"panic">>          \* the thread panics

Failed(v) == v[1] \in {"error", "panic"}
Number(v) == v[1] \in {"int", "real"}

\* The characters the instances use, in the order of their bytes, and the
\* letter that upper and lower case share.
Alphabet == <<"%", "*", "?", "A", "_", "a", "b">>
CharRank == [c \in Range(Alphabet) |-> CHOOSE i \in DOMAIN Alphabet : Alphabet[i] = c]
Folded(c) == IF c = "a" THEN "A" ELSE IF c = "b" THEN "B" ELSE c

-----------------------------------------------------------------------------
(* Comparison: -1, 0 or 1.  Values of kinds that do not compare are equal. *)

Abs(n)  == IF n < 0 THEN -n ELSE n
Sign(n) == IF n < 0 THEN -1 ELSE IF n > 0 THEN 1 ELSE 0

TextBefore(s, t) ==
    \E i \in 1..Len(t) :
        /\ \A j \in 1..(i - 1) : j <= Len(s) /\ s[j] = t[j]
        /\ i <= Len(s) => CharRank[s[i]] < CharRank[t[i]]

CmpVal(v, w) ==
    CASE v = Null \/ w = Null -> (IF w = Null THEN 0 ELSE -1) + (IF v = Null THEN 0 ELSE 1)
      [] Number(v) /\ Number(w) -> Sign(v[2] - w[2])
      [] v[1] = "text" /\ w[1] = "text" ->
            IF TextBefore(v[2], w[2]) THEN -1 ELSE IF v = w THEN 0 ELSE 1
      [] v[1] = "bool" /\ w[1] = "bool" ->
            (IF v[2] THEN 1 ELSE 0) - (IF w[2] THEN 1 ELSE 0)
      [] OTHER -> 0

IsTruthy(v) ==
    CASE v[1] = "bool" -> v[2]
      [] Number(v) -> v[2] # 0
      [] v[1] = "text" -> v[2] # <<>>
      [] OTHER -> FALSE

-----------------------------------------------------------------------------
(* LIKE recurses over what is left of the text and of the pattern; GLOB    *)
(* fills a table of prefixes.                                              *)

RECURSIVE LikeMatch(_, _)

\* A mutation, used only to confirm that PatternsMatch can fail: a text that is
\* used up matches no more, not even %.
LikeMatchUsedUp(s, p) ==
    IF p = <<>> THEN s = <<>>
    ELSE /\ s # <<>>
         /\ IF Head(p) = "%" THEN LikeMatch(Tail(s), p) \/ LikeMatch(s, Tail(p))
            ELSE (Head(p) = "_" \/ Folded(Head(p)) = Folded(Head(s))) /\ LikeMatch(Tail(s), Tail(p))

LikeMatch(s, p) ==
    CASE p = <<>> -> s = <<>>
      [] p # <<>> /\ Head(p) = "%" ->
            \/ Tail(p) = <<>>
            \/ \E i \in 0..Len(s) : LikeMatch(SubSeq(s, i + 1, Len(s)), Tail(p))
      [] OTHER ->
            /\ s # <<>>
            /\ Head(p) = "_" \/ Folded(Head(p)) = Folded(Head(s))
            /\ LikeMatch(Tail(s), Tail(p))

GlobMatch(s, p) ==
    LET dp[i \in 0..Len(s), j \in 0..Len(p)] ==
            CASE j = 0 -> i = 0
              [] j > 0 /\ i = 0 -> p[j] = "*" /\ dp[0, j - 1]
              [] OTHER -> IF p[j] = "*" THEN dp[i - 1, j] \/ dp[i, j - 1]
                          ELSE (p[j] = "?" \/ s[i] = p[j]) /\ dp[i - 1, j - 1]
    IN  dp[Len(s), Len(p)]

\* A pattern matches a text that can be cut into one piece for each character
\* of the pattern: any piece for the star, one character for the others.
Cuts(s, p) == {cut \in [0..Len(p) -> 0..Len(s)] :
                  /\ cut[0] = 0 /\ cut[Len(p)] = Len(s)
                  /\ \A j \in 1..Len(p) : cut[j - 1] <= cut[j]}
Matches(s, p, star, one, Same(_, _)) ==
    \E cut \in Cuts(s, p) : \A j \in 1..Len(p) :
        p[j] # star => /\ cut[j] = cut[j - 1] + 1
                       /\ p[j] = one \/ Same(p[j], s[cut[j]])

SameFolded(c, d) == Folded(c) = Folded(d)
SameChar(c, d)   == c = d

\* The pattern matchers agree with the definition of matching: LIKE with % and
\* _ and no difference of case, GLOB with * and ? and the case that is written
\* (executor.rs:1839, executor.rs:1857).
PatternsMatch(s, p) ==
    /\ LikeMatch(s, p) <=> Matches(s, p, "%", "_", SameFolded)
    /\ GlobMatch(s, p) <=> Matches(s, p, "*", "?", SameChar)

-----------------------------------------------------------------------------
(* Arithmetic fails for what is not a number and panics when it divides by *)
(* the integer zero; quotients of real numbers are not looked at.          *)

Quotient(a, b)  == Sign(a) * Sign(b) * (Abs(a) \div Abs(b))
NumOp(op, v, w) ==
    IF ~(Number(v) /\ Number(w)) THEN Error
    ELSE LET kind == IF v[1] = "int" /\ w[1] = "int" THEN "int" ELSE "real"
         IN  CASE op = "+" -> <<kind, v[2] + w[2]>>
               [] op = "-" -> <<kind, v[2] - w[2]>>
               [] op = "*" -> <<kind, v[2] * w[2]>>
               [] op \in {"/", "%"} /\ kind = "int" ->
                     IF w[2] = 0 THEN Panic
                     ELSE LET q == Quotient(v[2], w[2])
                          IN  Integer(IF op = "/" THEN q ELSE v[2] - w[2] * q)

Comparing == [op \in {"=", "<>", "<", "<=", ">", ">="} |->
                 CASE op = "=" -> {0} [] op = "<>" -> {-1, 1} [] op = "<" -> {-1}
                   [] op = "<=" -> {-1, 0} [] op = ">" -> {1} [] op = ">=" -> {0, 1}]
EvalBinOp(op, v, w) ==
    CASE op = "AND" -> Bool(IsTruthy(v) /\ IsTruthy(w))
      [] op = "OR"  -> Bool(IsTruthy(v) \/ IsTruthy(w))
      [] op \in DOMAIN Comparing -> Bool(CmpVal(v, w) \in Comparing[op])
      [] op = "||"  -> IF v[1] = "text" /\ w[1] = "text" THEN Text(v[2] \o w[2]) ELSE Error
      [] OTHER      -> NumOp(op, v, w)

EvalUnOp(op, v) ==
    CASE op = "NOT" -> Bool(~IsTruthy(v))
      [] op = "-" /\ Number(v) -> <<v[1], -v[2]>>
      [] OTHER -> Error

Pattern(op, v, p, negated) ==
    Bool(/\ v[1] = "text" /\ p[1] = "text"
         /\ (IF op = "LIKE" THEN LikeMatch(v[2], p[2]) ELSE GlobMatch(v[2], p[2])) # negated)

-----------------------------------------------------------------------------
(* Expressions.  The parts of an expression are its field args; the first  *)
(* part that fails is the outcome of the whole, but an item of a list that *)
(* fails is only not found, IFNULL and COALESCE do not look beyond the     *)
(* first value, and a call of a function that is not there at none.        *)

Lit(v)        == [op |-> "lit", value |-> v]
Col(c)        == [op |-> "col", name |-> c]
BinOp(o, l, r) == [op |-> "bin", sign |-> o, args |-> <<l, r>>]
UnOp(o, e)    == [op |-> "un", sign |-> o, args |-> <<e>>]
IsNull(e, n)  == [op |-> "isnull", args |-> <<e>>, negated |-> n]
Between(e, l, h, n) == [op |-> "between", args |-> <<e, l, h>>, negated |-> n]
InList(e, list, n) == [op |-> "in", args |-> <<e>>, list |-> list, negated |-> n]
Like(o, e, p, n) == [op |-> "like", sign |-> o, args |-> <<e, p>>, negated |-> n]
Call(f, as)   == [op |-> "call", sign |-> f, args |-> as]

EvalCall(f, v) ==
    CASE f \in {"IFNULL", "COALESCE"} ->
            LET some == SelectSeq(v, LAMBDA w : w # Null) IN IF some = <<>> THEN Null ELSE Head(some)
      [] f = "NULLIF" -> IF CmpVal(v[1], v[2]) = 0 THEN Null ELSE v[1]
      [] f = "ABS"    -> IF Number(v[1]) THEN <<v[1][1], Abs(v[1][2])>> ELSE v[1]
      [] f = "LENGTH" -> IF v[1][1] = "text" THEN Integer(Len(v[1][2])) ELSE Null
      [] f = "SUBSTR" ->
            IF v[1][1] # "text" THEN Null
            ELSE LET s     == v[1][2]
                     start == IF v[2][1] = "int" THEN Max({v[2][2] - 1, 0}) ELSE 0
                     len   == IF v[3][1] # "int" THEN 0        \* a negative one is huge
                              ELSE IF v[3][2] < 0 THEN Len(s) ELSE v[3][2]
                 IN  Text(SubSeq(s, start + 1, Min({start + len, Len(s)})))
      [] OTHER -> Null

\* The parts whose values an expression needs.
Needed(e, v) ==
    CASE e.op = "call" /\ e.sign \in {"IFNULL", "COALESCE"} ->
            {i \in DOMAIN v : \A j \in 1..(i - 1) : v[j] = Null}
      [] e.op = "call" /\ e.sign \notin {"IFNULL", "COALESCE", "NULLIF", "ABS", "LENGTH", "SUBSTR"} -> {}
      [] OTHER -> DOMAIN v

RECURSIVE Eval(_, _)
Eval(e, row) ==
    CASE e.op = "lit" -> e.value
      [] e.op = "col" -> IF e.name \in DOMAIN row THEN row[e.name] ELSE Error
      [] OTHER ->
            LET v == [i \in DOMAIN e.args |-> Eval(e.args[i], row)]
                bad == {i \in Needed(e, v) : Failed(v[i])}
            IN  IF bad # {} THEN v[Min(bad)]
                ELSE CASE e.op = "bin"    -> EvalBinOp(e.sign, v[1], v[2])
                       [] e.op = "un"     -> EvalUnOp(e.sign, v[1])
                       [] e.op = "isnull" -> Bool((v[1] = Null) # e.negated)
                       [] e.op = "between" ->
                             Bool((CmpVal(v[1], v[2]) >= 0 /\ CmpVal(v[1], v[3]) <= 0) # e.negated)
                       [] e.op = "in" ->
                             Bool((\E i \in DOMAIN e.list :
                                     LET w == Eval(e.list[i], row)
                                     IN  ~Failed(w) /\ CmpVal(v[1], w) = 0) # e.negated)
                       [] e.op = "like"   -> Pattern(e.sign, v[1], v[2], e.negated)
                       [] e.op = "call"   -> EvalCall(e.sign, v)

\* A filter keeps a row if the expression is true in it, not if it fails.
Passes(e, row) == IsTruthy(Eval(e, row))

-----------------------------------------------------------------------------
(* Aggregates, over the values of one group.                               *)

Sum(ns) == FoldSeq(LAMBDA n, acc : n + acc, 0, ns)

\* The last of the greatest, the first of the least.
MaxBy(vs) == vs[Max({i \in DOMAIN vs : \A j \in DOMAIN vs : CmpVal(vs[i], vs[j]) >= 0})]
MinBy(vs) == vs[Min({i \in DOMAIN vs : \A j \in DOMAIN vs : CmpVal(vs[i], vs[j]) <= 0})]

EvalAggregate(f, values) ==
    LET some    == SelectSeq(values, LAMBDA v : v # Null)
        numbers == LET ns == SelectSeq(values, Number) IN [i \in DOMAIN ns |-> ns[i][2]]
    IN  CASE f = "COUNT" -> Integer(Len(some))
          [] f = "COUNT DISTINCT" -> Integer(Cardinality(Range(some)))
          [] f = "SUM"   -> Float(Sum(numbers))
          [] f = "MAX"   -> IF some = <<>> THEN Null ELSE MaxBy(some)
          [] f = "MIN"   -> IF some = <<>> THEN Null ELSE MinBy(some)
=============================================================================
