---------------------------- MODULE MCBPlusTree ----------------------------
(***************************************************************************)
(* BPlusTree for model checking.  Pages are told apart only by who points  *)
(* to them: the view names the pages a call can still reach by the order   *)
(* it would meet them in and forgets the others (a merge leaves its right  *)
(* node behind, and no page is handed out twice).                          *)
(***************************************************************************)
EXTENDS BPlusTree

\* A record for each of six keys, all different, and a second one for a key in
\* the middle, with which a record is replaced.
MCRecords == {[key |-> k, val |-> k] : k \in 1 .. 6} \union {[key |-> 3, val |-> 0]}

Pointers(n) == n.kids \o (IF n.next = None THEN << >> ELSE <<n.next>>)

\* The pages a call starts from.
Starts ==
    <<root, at>> \o [i \in DOMAIN path |-> path[i].page]
                 \o [i \in DOMAIN writes |-> writes[i].page]
                 \o FlattenSeq([i \in DOMAIN writes |-> Pointers(writes[i].node)])
                 \o (IF carry = NoCarry THEN << >> ELSE <<carry.page>>)

\* s, then what t has and s has not, each page once.
Adding(s, t) ==
    FoldLeft(LAMBDA seen, p : IF p \in Range(seen) THEN seen ELSE Append(seen, p), s, t)

Met ==
    LET met[h \in 0 .. NumPages] ==
          IF h = 0 THEN Adding(<< >>, Starts)
          ELSE LET s == met[h - 1]
               IN  Adding(s, FlattenSeq([i \in DOMAIN s |-> Pointers(nodes[s[i]])]))
    IN  met[NumPages]

View ==
    LET met == Met
        Name(p) == IF p = None THEN 0 ELSE CHOOSE i \in DOMAIN met : met[i] = p
        Named(n) == <<n.leaf, n.keys, n.recs, Name(n.next),
                      [i \in DOMAIN n.kids |-> Name(n.kids[i])]>>
    IN  <<[i \in DOMAIN met |-> Named(nodes[met[i]])], pageCount, size, pc, Name(at), dict,
          [i \in DOMAIN path |-> <<Name(path[i].page), path[i].pos>>],
          [i \in DOMAIN writes |-> <<Name(writes[i].page), Named(writes[i].node)>>],
          IF carry = NoCarry THEN << >> ELSE <<carry.key, Name(carry.page)>>>>
=============================================================================
