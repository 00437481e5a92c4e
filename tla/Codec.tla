-------------------------------- MODULE Codec --------------------------------
(***************************************************************************)
(* The bytes of nodes (pager/codec.rs), rows (table/serialize.rs) and      *)
(* catalog records (catalog/meta.rs), and what is read back from them.     *)
(*                                                                         *)
(* A reader takes bytes and either fails, which in the program is the      *)
(* panic of a slice out of range, or gives an item and the bytes behind    *)
(* it.  Numbers have the widths of the code, in bytes of Base values.      *)
(***************************************************************************)
EXTENDS Integers, Sequences, SequencesExt

CONSTANTS
    Base,      \* values of a byte, scaled down
    PageSize,  \* bytes of a page, scaled down
    Missing    \* no next leaf, no WHEN, no columns of an UPDATE trigger, no default

---------------------------------------------------------------------------
(***************************************************************************)
(* Writing.                                                                *)
(***************************************************************************)
\* to_le_bytes, of a number taken modulo the width (`as u32', two's complement).
Number(n, width) == [i \in 1..width |-> (n \div Base^(i - 1)) % Base]

U8(n)  == Number(n, 1)
U32(n) == Number(n, 4)
U64(n) == Number(n, 8)
MaxU32 == Base^4 - 1

\* encode_str, encode_bytes: the length, then the bytes.
Sized(bytes) == U32(Len(bytes)) \o bytes

Integer(n) == [kind |-> "integer", n |-> n, s |-> << >>]
Text(s)    == [kind |-> "text", n |-> 0, s |-> s]
Scalar(kind, n) == [kind |-> kind, n |-> n, s |-> << >>]

EncodeKey(k) == IF k.kind = "integer" THEN U8(0) \o U64(k.n) ELSE U8(1) \o Sized(k.s)

EncodeValue(v) ==
    CASE v.kind = "null"    -> U8(0)
      [] v.kind = "integer" -> U8(1) \o U64(v.n)
      [] v.kind = "text"    -> U8(2) \o Sized(v.s)
      [] v.kind = "boolean" -> U8(3) \o U8(v.n)
      [] v.kind = "float"   -> U8(4) \o U64(v.n)

Each(Op(_), s) == FlattenSeq([i \in DOMAIN s |-> Op(s[i])])

NodeBytes(node) ==
    U8(IF node.leaf THEN 1 ELSE 0) \o U32(Len(node.keys))
        \o U32(IF node.next = Missing THEN MaxU32 ELSE node.next)
        \o Each(EncodeKey, node.keys)
        \o (IF node.leaf THEN Each(Sized, node.records) ELSE Each(U32, node.children))

\* buf.resize: zeroes after a short node; the end of a long one is cut off.
EncodeNode(node) ==
    LET bytes == NodeBytes(node)
    IN  [i \in 1..PageSize |-> IF i <= Len(bytes) THEN bytes[i] ELSE 0]

EncodeColumn(c) == Sized(c.name) \o U8(c.type) \o U8(c.nullable) \o U8(c.autoinc)

EncodeMeta(m) ==
    Sized(m.name) \o U32(Len(m.columns)) \o Each(EncodeColumn, m.columns)
        \o U32(m.root) \o U32(m.count) \o U64(m.autoincLast)

EncodeEvent(g) ==
    U8(g.event) \o (IF g.event # 2 THEN << >>
                    ELSE IF g.columns = Missing THEN U32(MaxU32)
                    ELSE U32(Len(g.columns)) \o Each(Sized, g.columns))

EncodeTrigger(g) ==
    Sized(g.name) \o Sized(g.table) \o U8(g.timing) \o EncodeEvent(g) \o U8(g.forEachRow)
        \o (IF g.when = Missing THEN U32(MaxU32) ELSE Sized(g.when)) \o Sized(g.body)

---------------------------------------------------------------------------
(***************************************************************************)
(* Reading.                                                                *)
(***************************************************************************)
Panic == [ok |-> FALSE]
Got(item, rest) == [ok |-> TRUE, item |-> item, rest |-> rest]

\* serialize asserts that a row has a value for every column of its table.
Serialize(columns, row) ==
    IF Len(row) = columns THEN Got(Each(EncodeValue, row), << >>) ELSE Panic

\* One reader after another.
Then(read, Next(_, _)) == IF read.ok THEN Next(read.item, read.rest) ELSE Panic

ReadBytes(b, n) == IF Len(b) < n THEN Panic ELSE Got(SubSeq(b, 1, n), SubSeq(b, n + 1, Len(b)))

Unsigned(b) == FoldLeft(LAMBDA sum, i : sum + b[i] * Base^(i - 1), 0, [i \in DOMAIN b |-> i])
Signed(n)   == IF 2 * n >= Base^8 THEN n - Base^8 ELSE n

ReadNumber(b, width) == Then(ReadBytes(b, width), LAMBDA s, rest : Got(Unsigned(s), rest))
ReadU8(b)  == ReadNumber(b, 1)
ReadU32(b) == ReadNumber(b, 4)
ReadU64(b) == ReadNumber(b, 8)
ReadI64(b) == Then(ReadU64(b), LAMBDA n, rest : Got(Signed(n), rest))

\* decode_str, decode_bytes
ReadSized(b) == Then(ReadU32(b), LAMBDA n, rest : ReadBytes(rest, n))

\* n items, one after another.
Many(Read(_), n, b) ==
    LET after[i \in 0..n] ==
            IF i = 0 THEN Got(<< >>, b)
            ELSE Then(after[i - 1], LAMBDA items, left :
                     Then(Read(left), LAMBDA item, rest : Got(Append(items, item), rest)))
    IN  after[n]

ReadKey(b) ==
    Then(ReadU8(b), LAMBDA tag, rest :
        IF tag = 0 THEN Then(ReadI64(rest), LAMBDA n, more : Got(Integer(n), more))
        ELSE Then(ReadSized(rest), LAMBDA s, more : Got(Text(s), more)))

ReadValue(b) ==
    Then(ReadU8(b), LAMBDA tag, rest :
        CASE tag = 0 -> Got(Scalar("null", 0), rest)
          [] tag = 1 -> Then(ReadI64(rest), LAMBDA n, more : Got(Integer(n), more))
          [] tag = 2 -> Then(ReadSized(rest), LAMBDA s, more : Got(Text(s), more))
          [] tag = 3 -> Then(ReadU8(rest), LAMBDA n, more :
                             Got(Scalar("boolean", IF n = 0 THEN 0 ELSE 1), more))
          [] tag = 4 -> Then(ReadU64(rest), LAMBDA n, more : Got(Scalar("float", n), more))
          [] OTHER   -> Panic)

DecodeNode(page) ==
    Then(ReadU8(page), LAMBDA tag, b1 :
    Then(ReadU32(b1), LAMBDA count, b2 :
    Then(ReadU32(b2), LAMBDA next, b3 :
    Then(Many(ReadKey, count, b3), LAMBDA keys, b4 :
    Then(IF tag = 0 THEN Many(ReadU32, count + 1, b4) ELSE Many(ReadSized, count, b4),
         LAMBDA items, b5 :
            Got([leaf     |-> tag # 0,
                 keys     |-> keys,
                 next     |-> IF next = MaxU32 THEN Missing ELSE next,
                 records  |-> IF tag = 0 THEN << >> ELSE items,
                 children |-> IF tag = 0 THEN items ELSE << >>], b5))))))

\* A row has as many values as its table has columns, now.
Deserialize(columns, bytes) == Many(ReadValue, columns, bytes)

\* A default is not written, and read as none.
ReadColumn(b) ==
    Then(ReadSized(b), LAMBDA name, b1 :
    Then(ReadU8(b1), LAMBDA type, b2 :
    Then(ReadU8(b2), LAMBDA nullable, b3 :
    Then(ReadU8(b3), LAMBDA autoinc, b4 :
        IF type > 3 THEN Panic
        ELSE Got([name |-> name, type |-> type, nullable |-> nullable, autoinc |-> autoinc,
                  default |-> Missing], b4)))))

DecodeMeta(bytes) ==
    Then(ReadSized(bytes), LAMBDA name, b1 :
    Then(ReadU32(b1), LAMBDA count, b2 :
    Then(Many(ReadColumn, count, b2), LAMBDA columns, b3 :
    Then(ReadU32(b3), LAMBDA root, b4 :
    Then(ReadU32(b4), LAMBDA rows, b5 :
    Then(ReadU64(b5), LAMBDA last, b6 :
        Got([name |-> name, columns |-> columns, root |-> root, count |-> rows,
             autoincLast |-> last], b6)))))))

ReadEvent(b) ==
    Then(ReadU8(b), LAMBDA event, b1 :
        IF event < 2 THEN Got(<<event, Missing>>, b1)
        ELSE Then(ReadU32(b1), LAMBDA n, b2 :
                 IF n = MaxU32 THEN Got(<<2, Missing>>, b2)
                 ELSE Then(Many(ReadSized, n, b2), LAMBDA columns, b3 : Got(<<2, columns>>, b3))))

ReadWhen(b) ==
    Then(ReadU32(b), LAMBDA n, b1 : IF n = MaxU32 THEN Got(Missing, b1) ELSE ReadBytes(b1, n))

DecodeTrigger(bytes) ==
    Then(ReadSized(bytes), LAMBDA name, b1 :
    Then(ReadSized(b1), LAMBDA table, b2 :
    Then(ReadU8(b2), LAMBDA timing, b3 :
    Then(ReadEvent(b3), LAMBDA event, b4 :
    Then(ReadU8(b4), LAMBDA forEachRow, b5 :
    Then(ReadWhen(b5), LAMBDA when, b6 :
    Then(ReadSized(b6), LAMBDA body, b7 :
        Got([name |-> name, table |-> table, timing |-> timing, event |-> event[1],
             columns |-> event[2], forEachRow |-> forEachRow, when |-> when, body |-> body],
            b7))))))))

---------------------------------------------------------------------------
(***************************************************************************)
(* The inputs: nodes below and above a page, rows, tables, triggers.       *)
(***************************************************************************)
Texts == {<< >>, <<0>>, <<1, 4>>}
Keys  == {Integer(0), Integer(-2), Text(<< >>), Text(<<1>>)}

Nodes ==
    [leaf : {TRUE}, keys : BoundedSeq(Keys, 2), next : {Missing, 0, 7},
     records : BoundedSeq({<< >>, <<3>>, <<1, 0, 0, 0, 2, 2, 0, 0, 0>>}, 2), children : {<< >>}]
    \union
    [leaf : {FALSE}, keys : BoundedSeq(Keys, 3), next : {Missing}, records : {<< >>},
     children : BoundedSeq({0, 6}, 4)]

WellFormed(node) == IF node.leaf THEN Len(node.records) = Len(node.keys)
                    ELSE Len(node.children) = Len(node.keys) + 1

Rows == BoundedSeq({Integer(3), Integer(-1), Scalar("null", 0), Scalar("boolean", 1),
                    Scalar("float", 9)} \union {Text(s) : s \in Texts}, 3)

Columns == [name : {<< >>, <<2>>}, type : {0, 3}, nullable : {1}, autoinc : {0, 1},
            default : {Missing, <<1>>}]

Metas == [name : Texts, columns : BoundedSeq(Columns, 2), root : {1, 2 * MaxU32 + 1},
          count : {0, MaxU32 + 2}, autoincLast : {0, 6}]

Triggers ==
    {g \in [name : {<<1>>}, table : Texts, timing : {0, 1, 2}, event : {0, 1, 2},
            columns : {Missing} \union BoundedSeq(Texts, 2), forEachRow : {0, 1},
            when : {Missing, << >>, <<0, 1>>}, body : {<<2, 2>>}] :
        g.event # 2 => g.columns = Missing}

Cases == ({"node"} \X {n \in Nodes : WellFormed(n)}) \union ({"row"} \X Rows)
         \union ({"table"} \X Metas) \union ({"trigger"} \X Triggers)

(***************************************************************************)
(* What should be read back.                                               *)
(***************************************************************************)
\* A node that fits its page is read back; one that does not cannot be read at
\* all, and is never taken for another node (codec.rs:63 cuts it without a word).
NodeReadsBack(node) ==
    LET back == DecodeNode(EncodeNode(node))
    IN  IF Len(NodeBytes(node)) <= PageSize THEN back.ok /\ back.item = node ELSE ~back.ok

\* A row is read back with the columns it was written with; with a column that
\* was added since (catalog.rs:279) it cannot be read.
RowReadsBack(row) ==
    LET bytes == Serialize(Len(row), row).item
        back  == Deserialize(Len(row), bytes)
    IN  back.ok /\ back.item = row /\ ~Deserialize(Len(row) + 1, bytes).ok

\* A table is read back with page and count in the width of a record, and
\* without the defaults of its columns (meta.rs:113).
TableReadsBack(m) ==
    LET back == DecodeMeta(EncodeMeta(m))
    IN  /\ back.ok
        /\ back.item = [m EXCEPT !.root = @ % Base^4, !.count = @ % Base^4,
                          !.columns = [i \in DOMAIN @ |-> [@[i] EXCEPT !.default = Missing]]]

TriggerReadsBack(g) ==
    LET back == DecodeTrigger(EncodeTrigger(g)) IN back.ok /\ back.item = g

\* What is written is read back, a node that does not fit its page not as
\* another, a row not with other columns (codec.rs:63, serialize.rs:69, meta.rs:127).
RecordReadsBack(kind, item) ==
    CASE kind = "node"    -> NodeReadsBack(item)
      [] kind = "row"     -> RowReadsBack(item)
      [] kind = "table"   -> TableReadsBack(item)
      [] kind = "trigger" -> TriggerReadsBack(item)
=============================================================================
