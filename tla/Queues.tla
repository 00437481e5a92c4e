------------------------------- MODULE Queues -------------------------------
(***************************************************************************)
(* The queues of ids both page caches keep, least recently used first:     *)
(* Vec<usize> in pager/cache.rs, VecDeque<usize> in pager/storage.rs.      *)
(***************************************************************************)
EXTENDS Naturals, Sequences, SequencesExt

\* retain(|id| id != p): the queue without an id.  A function of the length
\* rather than SelectSeq, which takes an operator.
Without(s, p) ==
    LET kept[i \in 0 .. Len(s)] == IF i = 0 THEN << >>
                                   ELSE IF s[i] = p THEN kept[i - 1]
                                   ELSE Append(kept[i - 1], s[i])
    IN  kept[Len(s)]

\* position and remove: the queue without the first copy of an id.
WithoutFirst(s, p) ==
    IF p \notin ToSet(s) THEN s
    ELSE LET first == CHOOSE i \in DOMAIN s : s[i] = p /\ \A j \in 1 .. i - 1 : s[j] # p
         IN  [i \in 1 .. Len(s) - 1 |-> IF i < first THEN s[i] ELSE s[i + 1]]
=============================================================================
