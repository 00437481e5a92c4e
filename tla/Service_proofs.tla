--------------------------- MODULE Service_proofs ---------------------------
(***************************************************************************)
(* What the clients of the WebSocket server and the users of the           *)
(* connection pool can rely on, for any number of them.  Both share more   *)
(* than they lock: the executor's mutex is given back between the          *)
(* statements of a transaction and between the look-up and the creation of *)
(* a table, and the pool's lock does not cover its queue.  The invariants  *)
(* say what is true in those gaps.  The last section puts them, the page   *)
(* locks and the page cache side by side, as MCSessions runs them.         *)
(***************************************************************************)
EXTENDS MCSessions, Locks_proofs

(***************************************************************************)
(*                       The clients of the server                         *)
(***************************************************************************)

\* What can be left to do of a request.
Texts == {<<s>> : s \in Statements \ {"write"}}
            \union {<< >>, <<"write", "commit">>, <<"begin", "write", "commit">>}

CreatesFts(c) == checked[c] /\ text[c] = <<"create fts">>

\* The shared transaction: its start is what was kept, and it only adds rows.
SharedTransaction ==
    /\ begun = NoTxn => rows = kept
    /\ begun # NoTxn => kept = begun /\ begun <= rows

\* A client between the look-up and the creation is at work on that and nothing
\* else; unless two raced there is one of them for the full-text table, and the
\* table is not there yet.
OneCreator ==
    /\ \A c \in Clients : text[c] \in Texts
    /\ \A c \in Clients : checked[c] => /\ link[c] = "working"
                                        /\ text[c] \in {<<"create fts">>, <<"create vec">>}
    /\ ~raced => \A c \in Clients : CreatesFts(c) => /\ fts = NoTable
                                                     /\ \A d \in Clients : CreatesFts(d) => d = c

\* Rows of the full-text table are those that were answered for.
FtsRows ==
    /\ fts = NoTable => ftsKept = 0
    /\ fts # NoTable /\ ~raced => fts = ftsKept

SessionsInv == SessionsTypeOK /\ SharedTransaction /\ OneCreator /\ FtsRows

\* Short sequences and their parts.
LEMMA OneStatement ==
    \A x \in Statements : Head(<<x>>) = x /\ Len(<<x>>) = 1 /\ <<x>> \in Seq(Statements)
OBVIOUS

LEMMA TwoStatements ==
    \A x, y : Head(<<x, y>>) = x /\ Len(<<x, y>>) = 2 /\ Tail(<<x, y>>) = <<y>>
OBVIOUS

LEMMA ThreeStatements ==
    \A x, y, z : Head(<<x, y, z>>) = x /\ Len(<<x, y, z>>) = 3 /\ Tail(<<x, y, z>>) = <<y, z>>
OBVIOUS

LEMMA RequestsAreTexts == Requests \subseteq Texts
BY DEF Texts, Requests, Statements

LEMMA TextsAreSequences == Texts \subseteq Seq(Statements)
<1>1. /\ <<"write", "commit">> \in Seq(Statements)
      /\ <<"begin", "write", "commit">> \in Seq(Statements)
  BY DEF Statements
<1>2. << >> \in Seq(Statements)
  OBVIOUS
<1> QED
  BY <1>1, <1>2, OneStatement DEF Texts

\* After a statement of a text of several a shorter text is left.
LEMMA TextsShorten ==
    ASSUME NEW s \in Texts, s # << >>, Len(s) # 1
    PROVE  Tail(s) \in Texts
<1>1. s \in {<<"begin", "write", "commit">>, <<"write", "commit">>}
  BY OneStatement DEF Texts
<1>2. Tail(<<"begin", "write", "commit">>) = <<"write", "commit">>
  OBVIOUS
<1>3. Tail(<<"write", "commit">>) = <<"commit">>
  OBVIOUS
<1> QED
  BY <1>1, <1>2, <1>3 DEF Texts, Statements

\* The creation of a table is a request of its own.
LEMMA CreationIsAlone ==
    ASSUME NEW s \in Texts, s # << >>, Head(s) \in {"create fts", "create vec"}
    PROVE  s = <<Head(s)>>
<1>1. Head(<<"begin", "write", "commit">>) = "begin" /\ Head(<<"write", "commit">>) = "write"
  BY TwoStatements, ThreeStatements, Zenon
<1> QED
  BY <1>1, OneStatement DEF Texts

LEMMA SessionsStart == SessionsInit => SessionsInv
<1> SUFFICES ASSUME SessionsInit PROVE SessionsInv
  OBVIOUS
<1>1. << >> \in Texts
  BY DEF Texts
<1>2. << >> \in Seq(Statements)
  BY <1>1, TextsAreSequences
<1>3. SessionsTypeOK
  <2> USE DEF SessionsInit, SessionsTypeOK
  <2>1. link \in [Clients -> {"away", "ready", "working"}] /\ checked \in [Clients -> BOOLEAN]
    OBVIOUS
  <2>2. sent \in [Clients -> 0 .. MaxSent]
    BY MaxSentAssumption
  <2>3. text \in [Clients -> Seq(Statements)]
    BY <1>2
  <2>4. poisoned \in BOOLEAN /\ raced \in BOOLEAN
    OBVIOUS
  <2>5. /\ rows \in Nat /\ kept \in Nat /\ ftsKept \in Nat /\ begun \in Nat \union {NoTxn}
        /\ fts \in Nat \union {NoTable} /\ vec \in Nat \union {NoTable}
    OBVIOUS
  <2> QED
    BY <2>1, <2>2, <2>3, <2>4, <2>5
<1> QED
  BY <1>1, <1>3, NoAssumption
  DEF SessionsInit, SessionsInv, SharedTransaction, OneCreator, FtsRows, CreatesFts

\* A step of the client is about its own link and text.
Moved(c) ==
    /\ link' \in [Clients -> {"away", "ready", "working"}]
    /\ text' \in [Clients -> Seq(Statements)]
    /\ text'[c] \in Texts
    /\ \A d \in Clients \ {c} : link'[d] = link[d] /\ text'[d] = text[d]

LEMMA AnswerMoves ==
    ASSUME SessionsInv, NEW c \in Clients, NEW a, Answer(c, a)
    PROVE  Moved(c)
<1>1. << >> \in Texts /\ << >> \in Seq(Statements)
  BY TextsAreSequences DEF Texts
<1> QED
  BY <1>1 DEF SessionsInv, SessionsTypeOK, Answer, Moved

LEMMA DoneMoves ==
    ASSUME SessionsInv, NEW c \in Clients, text[c] # << >>, Done(c)
    PROVE  Moved(c)
<1>1. CASE Len(text[c]) = 1
  BY <1>1, AnswerMoves DEF Done
<1>2. CASE Len(text[c]) # 1
  <2>1. Tail(text[c]) \in Texts
    BY <1>2, TextsShorten DEF SessionsInv, OneCreator
  <2>2. Tail(text[c]) \in Seq(Statements)
    BY <2>1, TextsAreSequences
  <2> QED
    BY <1>2, <2>1, <2>2 DEF SessionsInv, SessionsTypeOK, Done, Moved
<1> QED
  BY <1>1, <1>2

\* A client whose statement is another one has looked nothing up.
LEMMA NotCreating ==
    ASSUME SessionsInv, NEW c \in Clients, NEW s, Working(c, s),
           s \notin {"create fts", "create vec"}
    PROVE  ~checked[c]
<1>1. "create fts" \in Statements /\ "create vec" \in Statements
  BY DEF Statements
<1> QED
  BY <1>1, OneStatement DEF SessionsInv, OneCreator, Working

\* A client that has looked nothing up disturbs no creator.
LEMMA StillOneCreator ==
    ASSUME SessionsInv, NEW c \in Clients, ~checked[c], Moved(c),
           checked' = checked, raced' = raced, fts' = NoTable <=> fts = NoTable
    PROVE  OneCreator'
<1>1. \A d \in Clients : text'[d] \in Texts
  BY DEF SessionsInv, OneCreator, Moved
<1>2. \A d \in Clients : checked'[d] => d # c
  OBVIOUS
<1>3. \A d \in Clients : checked'[d] => /\ link'[d] = "working"
                                      /\ text'[d] \in {<<"create fts">>, <<"create vec">>}
  BY <1>2 DEF SessionsInv, OneCreator, Moved
<1>4. \A d \in Clients : CreatesFts(d)' <=> CreatesFts(d)
  BY <1>2 DEF CreatesFts, Moved
<1> QED
  BY <1>1, <1>3, <1>4 DEF SessionsInv, OneCreator

\* A step that leaves the tables to the others keeps their invariants.
LEMMA SameTables ==
    ASSUME SessionsInv, UNCHANGED Tables
    PROVE  SharedTransaction'
BY DEF SessionsInv, SharedTransaction, Tables

LEMMA SameRows ==
    ASSUME SessionsInv, UNCHANGED Virtual
    PROVE  FtsRows' /\ (fts' = NoTable <=> fts = NoTable)
BY DEF SessionsInv, FtsRows, Virtual

\* A number is none of the marks for nothing.
LEMMA NumbersAreNotMarks ==
    \A n \in Nat : n # NoTable /\ n # NoTxn /\ n + 1 \in Nat /\ n + 1 # NoTable /\ n + 1 # NoTxn
BY NoAssumption

\* A row more in the table is one more that was answered for.
LEMMA RowAnswered ==
    ASSUME SessionsInv, fts # NoTable, fts' = fts + 1, ftsKept' = ftsKept + 1, raced' = raced
    PROVE  /\ fts' \in Nat \union {NoTable} /\ ftsKept' \in Nat
           /\ fts' = NoTable <=> fts = NoTable
           /\ FtsRows'
BY NumbersAreNotMarks DEF SessionsInv, SessionsTypeOK, FtsRows

\* A write is kept at once where no transaction is open.
LEMMA WriteKept ==
    ASSUME SessionsInv, rows' = rows + 1, begun' = begun,
           kept' = IF begun = NoTxn THEN kept + 1 ELSE kept
    PROVE  /\ rows' \in Nat /\ kept' \in Nat /\ begun' \in Nat \union {NoTxn}
           /\ SharedTransaction'
<1> USE DEF SessionsInv, SessionsTypeOK, SharedTransaction
<1>1. CASE begun = NoTxn
  BY <1>1
<1>2. CASE begun # NoTxn
  BY <1>2
<1> QED
  BY <1>1, <1>2

\* A transaction starts at the rows that are kept.
LEMMA BegunAtRows ==
    ASSUME SessionsInv, rows' = rows, kept' = kept,
           begun' = IF begun = NoTxn THEN rows ELSE begun
    PROVE  /\ rows' \in Nat /\ kept' \in Nat /\ begun' \in Nat \union {NoTxn}
           /\ SharedTransaction'
BY NumbersAreNotMarks DEF SessionsInv, SessionsTypeOK, SharedTransaction

LEMMA LookUpKeeps ==
    ASSUME SessionsInv, NEW c \in Clients,
           LookUp(c, "create fts", fts) \/ LookUp(c, "create vec", vec)
    PROVE  SessionsInv'
<1> USE DEF LookUp
<1>1. SharedTransaction'
  BY SameTables
<1>2. FtsRows'
  BY DEF SessionsInv, SessionsTypeOK, FtsRows
<1>3. text[c] \in {<<"create fts">>, <<"create vec">>} /\ link[c] = "working"
  BY CreationIsAlone DEF Working, SessionsInv, OneCreator
<1>4. CASE UNCHANGED <<checked, raced>> /\ Answer(c, "exists")
  <2>1. Moved(c)
    BY <1>4, AnswerMoves
  <2>2. OneCreator'
    BY <1>4, <2>1, StillOneCreator
  <2>3. SessionsTypeOK'
    BY <1>4, <2>1 DEF SessionsInv, SessionsTypeOK, Moved, Tables
  <2> QED
    BY <1>1, <1>2, <2>2, <2>3 DEF SessionsInv
<1>5. CASE /\ checked' = [checked EXCEPT ![c] = TRUE]
           /\ raced' = (raced \/ \E d \in Clients : checked[d] /\ text[d] = text[c])
           /\ UNCHANGED <<link, text, answer>>
           /\ text[c] = <<"create fts">> => fts = NoTable
  <2>1. SessionsTypeOK'
    <3>1. raced' \in BOOLEAN
      BY <1>5
    <3>2. checked' \in [Clients -> BOOLEAN]
      BY <1>5 DEF SessionsInv, SessionsTypeOK
    <3> QED
      BY <1>5, <3>1, <3>2 DEF SessionsInv, SessionsTypeOK, Tables
  <2>2. \A d \in Clients : d # c => (CreatesFts(d)' <=> CreatesFts(d))
    BY <1>5 DEF CreatesFts, SessionsInv, SessionsTypeOK
  <2>3. ASSUME ~raced', NEW d \in Clients, CreatesFts(d)', NEW e \in Clients, CreatesFts(e)'
        PROVE  fts = NoTable /\ e = d
    <3>1. ~raced /\ ~\E b \in Clients : checked[b] /\ text[b] = text[c]
      BY <1>5, <2>3
    <3>2. text[d] = <<"create fts">> /\ text[e] = <<"create fts">>
      BY <1>5, <2>3 DEF CreatesFts
    <3>3. CASE d = c \/ e = c
      BY <1>5, <2>2, <2>3, <3>1, <3>2, <3>3 DEF CreatesFts
    <3>4. CASE d # c /\ e # c
      BY <2>2, <2>3, <3>1, <3>4 DEF SessionsInv, OneCreator
    <3> QED
      BY <3>3, <3>4
  <2>4. OneCreator'
    BY <1>3, <1>5, <2>3 DEF SessionsInv, SessionsTypeOK, OneCreator
  <2> QED
    BY <1>1, <1>2, <2>1, <2>4 DEF SessionsInv
<1>6. text[c] = <<"create fts">> => ~LookUp(c, "create vec", vec)
  BY OneStatement DEF Working, Statements
<1> QED
  BY <1>4, <1>5, <1>6 DEF Unused

LEMMA CreateKeeps ==
    ASSUME SessionsInv, NEW c \in Clients, FtsCreate(c) \/ VecCreate(c)
    PROVE  SessionsInv'
<1> USE DEF FtsCreate, VecCreate
<1>1. SharedTransaction'
  BY SameTables
<1>2. Moved(c)
  BY AnswerMoves
<1>3. \A d \in Clients : checked'[d] <=> checked[d] /\ d # c
  BY DEF SessionsInv, SessionsTypeOK
<1>4. \A d \in Clients : CreatesFts(d)' <=> CreatesFts(d) /\ d # c
  BY <1>2, <1>3 DEF CreatesFts, Moved
<1>5. text[c] # << >> /\ text[c] \in Texts
  BY DEF SessionsInv, OneCreator, Working
<1>6. CASE FtsCreate(c)
  <2>1. CreatesFts(c)
    BY <1>5, <1>6, CreationIsAlone DEF Working, CreatesFts
  <2>2. FtsRows'
    <3>1. fts' = 0 /\ ftsKept' = ftsKept /\ (raced' <=> raced)
      BY <1>6
    <3> QED
      BY <2>1, <3>1, NumbersAreNotMarks DEF SessionsInv, OneCreator, FtsRows
  <2>3. ~raced' => \A d \in Clients : ~CreatesFts(d)'
    BY <1>4, <1>6, <2>1 DEF SessionsInv, OneCreator
  <2>4. OneCreator'
    BY <1>2, <1>3, <2>3 DEF SessionsInv, OneCreator, Moved
  <2>5. SessionsTypeOK'
    BY <1>2, <1>6 DEF SessionsInv, SessionsTypeOK, Moved, Tables
  <2> QED
    BY <1>1, <2>2, <2>4, <2>5 DEF SessionsInv
<1>7. CASE VecCreate(c)
  <2>1. FtsRows'
    <3>1. UNCHANGED <<fts, ftsKept, raced>>
      BY <1>7
    <3> QED
      BY <3>1 DEF SessionsInv, FtsRows
  <2>2. OneCreator'
    BY <1>2, <1>3, <1>4, <1>7 DEF SessionsInv, OneCreator, Moved
  <2>3. SessionsTypeOK'
    BY <1>2, <1>7 DEF SessionsInv, SessionsTypeOK, Moved, Tables
  <2> QED
    BY <1>1, <2>1, <2>2, <2>3 DEF SessionsInv
<1> QED
  BY <1>6, <1>7

LEMMA RowsKeep ==
    ASSUME SessionsInv, NEW c \in Clients, VecInsert(c) \/ FtsInsert(c) \/ Match(c)
    PROVE  SessionsInv'
<1> USE DEF VecInsert, FtsInsert, Match, Virtual
<1>1. SharedTransaction'
  BY SameTables
<1>2. Moved(c)
  BY AnswerMoves
<1>3. ~checked[c]
  BY NotCreating
<1>4. /\ checked' = checked /\ raced' = raced /\ sent' = sent /\ poisoned' = poisoned
      /\ UNCHANGED Tables
  OBVIOUS
<1>5. /\ fts' \in Nat \union {NoTable} /\ vec' \in Nat \union {NoTable} /\ ftsKept' \in Nat
      /\ fts' = NoTable <=> fts = NoTable
      /\ FtsRows'
  <2>1. CASE FtsInsert(c)
    <3>1. fts # NoTable /\ fts' = fts + 1 /\ ftsKept' = ftsKept + 1 /\ vec' = vec /\ raced' = raced
      BY <2>1
    <3> QED
      BY <3>1, RowAnswered DEF SessionsInv, SessionsTypeOK
  <2>2. CASE VecInsert(c) \/ Match(c)
    <3>1. fts' = fts /\ ftsKept' = ftsKept /\ raced' = raced
      BY <2>2
    <3>2. vec' = vec \/ (vec # NoTable /\ vec' = vec + 1)
      BY <2>2
    <3>3. vec' \in Nat \union {NoTable}
      BY <3>2, NumbersAreNotMarks DEF SessionsInv, SessionsTypeOK
    <3>4. FtsRows'
      BY <3>1 DEF SessionsInv, FtsRows
    <3> QED
      BY <3>1, <3>3, <3>4 DEF SessionsInv, SessionsTypeOK
  <2> QED
    BY <2>1, <2>2
<1>7. OneCreator'
  BY <1>2, <1>3, <1>4, <1>5, StillOneCreator
<1>8. SessionsTypeOK'
  BY <1>2, <1>4, <1>5 DEF SessionsInv, SessionsTypeOK, Moved, Tables
<1> QED
  BY <1>1, <1>5, <1>7, <1>8 DEF SessionsInv

\* The executor's part of a statement: the tables it leaves are well typed.
LEMMA ExecutorKeeps ==
    ASSUME SessionsInv, NEW c \in Clients,
           Poisoned(c) \/ Panic(c) \/ Write(c) \/ Begin(c) \/ Commit(c) \/ Rollback(c)
    PROVE  SessionsInv'
<1> USE DEF Poisoned, Panic, Write, Begin, Commit, Rollback, Locked
<1>1. text[c] # << >> /\ ~checked[c]
  BY NotCreating DEF Working
<1>2. Moved(c)
  BY <1>1, AnswerMoves, DoneMoves
<1>3. checked' = checked /\ sent' = sent /\ UNCHANGED Virtual /\ poisoned' \in BOOLEAN
  BY DEF SessionsInv, SessionsTypeOK
<1>4. /\ rows' \in Nat /\ kept' \in Nat /\ begun' \in Nat \union {NoTxn}
      /\ SharedTransaction'
  <2> USE NoAssumption DEF SessionsInv, SessionsTypeOK, SharedTransaction
  <2>1. CASE Poisoned(c) \/ Panic(c)
    BY <2>1 DEF Tables
  <2>2. CASE Write(c)
    <3>1. /\ rows' = rows + 1 /\ begun' = begun
          /\ kept' = IF begun = NoTxn THEN kept + 1 ELSE kept
      BY <2>2
    <3> QED
      BY <3>1, WriteKept
  <2>3. CASE Begin(c)
    <3>1. rows' = rows /\ kept' = kept /\ begun' = IF begun = NoTxn THEN rows ELSE begun
      BY <2>3
    <3> QED
      BY <3>1, BegunAtRows
  <2>4. CASE Commit(c)
    BY <2>4
  <2>5. CASE Rollback(c)
    BY <2>5
  <2> QED
    BY <2>1, <2>2, <2>3, <2>4, <2>5
<1>5. FtsRows' /\ OneCreator'
  BY <1>1, <1>2, <1>3, SameRows, StillOneCreator DEF Virtual
<1>6. SessionsTypeOK'
  BY <1>2, <1>3, <1>4 DEF SessionsInv, SessionsTypeOK, Moved, Virtual
<1> QED
  BY <1>4, <1>5, <1>6 DEF SessionsInv

\* What a client does by itself.
LEMMA ClientKeeps ==
    ASSUME SessionsInv, NEW c \in Clients,
           Connect(c) \/ Disconnect(c) \/ \E r \in Requests : Send(c, r)
    PROVE  SessionsInv'
<1> USE DEF Connect, Disconnect, Send
<1>1. ~checked[c]
  BY DEF SessionsInv, OneCreator
<1>2. Moved(c)
  BY RequestsAreTexts, TextsAreSequences DEF SessionsInv, SessionsTypeOK, OneCreator, Moved
<1>3. checked' = checked /\ UNCHANGED <<Tables, Virtual, poisoned>>
  OBVIOUS
<1>4. sent' \in [Clients -> 0 .. MaxSent]
  <2>1. CASE \E r \in Requests : Send(c, r)
    <3>1. sent' = [sent EXCEPT ![c] = @ + 1] /\ sent[c] + 1 \in 0 .. MaxSent
      BY <2>1, MaxSentAssumption DEF SessionsInv, SessionsTypeOK
    <3> QED
      BY <3>1 DEF SessionsInv, SessionsTypeOK
  <2>2. CASE Connect(c) \/ Disconnect(c)
    BY <2>2 DEF SessionsInv, SessionsTypeOK
  <2> QED
    BY <2>1, <2>2
<1>5. FtsRows' /\ OneCreator' /\ SharedTransaction'
  BY <1>1, <1>2, <1>3, SameRows, SameTables, StillOneCreator DEF Virtual
<1>6. SessionsTypeOK'
  BY <1>2, <1>3, <1>4 DEF SessionsInv, SessionsTypeOK, Moved, Virtual, Tables
<1> QED
  BY <1>5, <1>6 DEF SessionsInv

LEMMA SessionsStep == SessionsInv /\ [SessionsNext]_sessionVars => SessionsInv'
<1> SUFFICES ASSUME SessionsInv, [SessionsNext]_sessionVars
             PROVE  SessionsInv'
  OBVIOUS
<1>1. CASE SessionsNext
  BY <1>1, ClientKeeps, LookUpKeeps, CreateKeeps, RowsKeep, ExecutorKeeps DEF SessionsNext, Work
<1>2. CASE UNCHANGED sessionVars
  BY <1>2 DEF sessionVars, SessionsInv, SessionsTypeOK, SharedTransaction, OneCreator, FtsRows,
              CreatesFts
<1> QED
  BY <1>1, <1>2

LEMMA SessionsInvariant == SessionsSpec => []SessionsInv
BY SessionsStart, SessionsStep, PTL DEF SessionsSpec

\* Whichever clients' statements meet in the one transaction, the rows outside it
\* are those that were kept (websocket.rs:280).
THEOREM RollbacksAreExact == SessionsSpec => []RollbackExact
<1>1. SessionsInv => RollbackExact
  BY DEF SessionsInv, SessionsTypeOK, SharedTransaction, RollbackExact
<1> QED
  BY <1>1, SessionsInvariant, PTL

\* Full-text rows that were answered for stay, unless two creators raced
\* (websocket.rs:354).
THEOREM FullTextRowsStay == SessionsSpec => []FtsRowsKept
<1>1. SessionsInv => FtsRowsKept
  BY DEF SessionsInv, FtsRows, FtsRowsKept
<1> QED
  BY <1>1, SessionsInvariant, PTL

(***************************************************************************)
(*                       The users of the pool                             *)
(***************************************************************************)

Making == {u \in Users : step[u] \in {"creating", "replacing"}}

\* The threads that have a connection in hand, to use it or to close it.
Having == {u \in Users : step[u] \in {"holding", "stale", "shutting"}}
hand   == [u \in Users |-> IF step[u] = "holding" THEN conn[u] ELSE taken[u]]

Queued == {queue[i] : i \in 1 .. Len(queue)}
InHand == {hand[u] : u \in Having}

\* The lock is held exactly while a connection is made that was counted first.
LockHeld == \A u \in Users : step[u] = "creating" <=> busy = u

\* An open connection is queued once, or in one thread's hand, and not both.
Apart ==
    /\ \A i, j \in 1 .. Len(queue) : queue[i] = queue[j] => i = j
    /\ \A u, v \in Having : hand[u] = hand[v] => u = v
    /\ Queued \intersect InHand = {}
    /\ open = Queued \union InHand

\* The count covers the open connections and those that are being made, but for
\* those that were there when it was set to 0.
Counted == Cardinality(open \ uncounted) + Cardinality(Making \ uncounted) <= created

Limit == created <= MaxConnections \/ created <= MinIdle

PoolInv == /\ PoolTypeOK /\ LockHeld /\ Limit /\ IsFiniteSet(Making) /\ InHand \subseteq Conns
           /\ ~twice => Apart /\ Counted

LEMMA LimitsAreNumbers ==
    MinIdle \in Nat /\ MaxConnections \in Nat /\ IsFiniteSet(Conns)
BY ConnsAssumption, LimitsAssumption, FS_Subset, FS_CardinalityType

\* The first connection of a queue goes, the others stay.
LEMMA TailApart ==
    ASSUME NEW s \in Seq(Conns), s # << >>,
           \A i, j \in 1 .. Len(s) : s[i] = s[j] => i = j
    PROVE  /\ Tail(s) \in Seq(Conns)
           /\ \A i, j \in 1 .. Len(Tail(s)) : Tail(s)[i] = Tail(s)[j] => i = j
           /\ {Tail(s)[i] : i \in 1 .. Len(Tail(s))} = {s[i] : i \in 1 .. Len(s)} \ {Head(s)}
           /\ Head(s) \in {s[i] : i \in 1 .. Len(s)}
<1>1. Len(s) \in Nat \ {0} /\ Head(s) = s[1] /\ 1 \in 1 .. Len(s)
  OBVIOUS
<1>2. /\ Tail(s) \in Seq(Conns) /\ Len(Tail(s)) = Len(s) - 1
      /\ \A i \in 1 .. Len(Tail(s)) : Tail(s)[i] = s[i + 1]
  OBVIOUS
<1>3. \A i \in 1 .. Len(Tail(s)) : i + 1 \in 1 .. Len(s) /\ i + 1 # 1
  BY <1>1, <1>2
<1>4. \A i \in 1 .. Len(s) : i # 1 => i - 1 \in 1 .. Len(Tail(s)) /\ (i - 1) + 1 = i
  BY <1>1, <1>2
<1>5. \A i, j \in 1 .. Len(Tail(s)) : Tail(s)[i] = Tail(s)[j] => i = j
  BY <1>2, <1>3
<1>6. ASSUME NEW c \in {s[i] : i \in 1 .. Len(s)}, c # Head(s)
      PROVE  c \in {Tail(s)[i] : i \in 1 .. Len(Tail(s))}
  <2>1. PICK i \in 1 .. Len(s) : c = s[i]
    BY <1>6
  <2>2. Tail(s)[i - 1] = c /\ i - 1 \in 1 .. Len(Tail(s))
    BY <1>1, <1>2, <1>4, <1>6, <2>1
  <2> QED
    BY <2>2
<1>7. ASSUME NEW c \in {Tail(s)[i] : i \in 1 .. Len(Tail(s))}
      PROVE  c \in {s[i] : i \in 1 .. Len(s)} /\ c # Head(s)
  <2>1. PICK i \in 1 .. Len(Tail(s)) : c = s[i + 1]
    BY <1>2, <1>7
  <2> QED
    BY <1>1, <1>3, <2>1
<1> QED
  BY <1>1, <1>2, <1>5, <1>6, <1>7

\* One that comes back is the last.
LEMMA AppendApart ==
    ASSUME NEW s \in Seq(Conns), NEW c \in Conns,
           \A i, j \in 1 .. Len(s) : s[i] = s[j] => i = j,
           c \notin {s[i] : i \in 1 .. Len(s)}
    PROVE  LET t == Append(s, c)
           IN  /\ t \in Seq(Conns)
               /\ \A i, j \in 1 .. Len(t) : t[i] = t[j] => i = j
               /\ {t[i] : i \in 1 .. Len(t)} = {s[i] : i \in 1 .. Len(s)} \union {c}
<1> DEFINE t == Append(s, c)
<1>1. /\ t \in Seq(Conns) /\ Len(t) = Len(s) + 1 /\ Len(s) \in Nat
      /\ \A i \in 1 .. Len(t) : t[i] = IF i = Len(s) + 1 THEN c ELSE s[i]
  OBVIOUS
<1> HIDE DEF t
<1>2. \A i \in 1 .. Len(t) : i # Len(s) + 1 => i \in 1 .. Len(s)
  BY <1>1
<1>3. \A i \in 1 .. Len(s) : i \in 1 .. Len(t) /\ i # Len(s) + 1
  BY <1>1
<1>4. Len(s) + 1 \in 1 .. Len(t)
  BY <1>1
<1>5. \A i, j \in 1 .. Len(t) : t[i] = t[j] => i = j
  BY <1>1, <1>2
<1>6. {t[i] : i \in 1 .. Len(t)} = {s[i] : i \in 1 .. Len(s)} \union {c}
  BY <1>1, <1>2, <1>3, <1>4
<1> QED
  BY <1>1, <1>5, <1>6 DEF t

LEMMA PoolStart == PoolInit => PoolInv
<1> SUFFICES ASSUME PoolInit PROVE PoolInv
  OBVIOUS
<1> USE LimitsAreNumbers DEF PoolInit
<1>1. open \subseteq Conns /\ Cardinality(open) = MinIdle
  BY LimitsAssumption
<1>2. IsFiniteSet(open)
  BY <1>1, FS_Subset
<1>3. queue \in [1 .. MinIdle -> open] /\ IsInjective(queue)
  <2>1. PICK f \in [1 .. MinIdle -> open] : IsInjective(f)
    BY <1>1, <1>2, FS_CardinalityType DEF ExistsBijection, Bijection, Injection
  <2> QED
    BY <1>1, <2>1 DEF SetToSeq
<1>4. Len(queue) = MinIdle /\ queue \in Seq(Conns)
  BY <1>1, <1>3
<1>5. Queued = open
  <2>1. queue \in Injection(1 .. MinIdle, open)
    BY <1>3 DEF Injection
  <2>2. Cardinality(1 .. MinIdle) = MinIdle
    BY FS_Interval
  <2>3. queue \in Surjection(1 .. MinIdle, open)
    BY <1>1, <1>2, <2>1, <2>2, FS_Injection
  <2>4. \A c \in open : \E i \in 1 .. MinIdle : queue[i] = c
    BY <2>3 DEF Surjection
  <2>5. \A i \in 1 .. MinIdle : queue[i] \in open
    BY <1>3
  <2> QED
    BY <1>4, <2>4, <2>5 DEF Queued
<1>6. Having = {} /\ Making = {} /\ InHand = {} /\ open \ uncounted = open
  BY DEF Having, Making, InHand
<1>7. IsFiniteSet(Making) /\ Cardinality(Making \ uncounted) = 0
  BY <1>6, FS_EmptySet
<1>8. PoolTypeOK
  BY <1>1, <1>4 DEF PoolTypeOK, Points
<1>9. LockHeld
  BY ConnsAssumption DEF LockHeld
<1>10. Apart
  <2>1. \A i, j \in 1 .. Len(queue) : queue[i] = queue[j] => i = j
    BY <1>3, <1>4 DEF IsInjective
  <2> QED
    BY <1>5, <1>6, <2>1 DEF Apart
<1>11. Counted /\ Limit
  BY <1>1, <1>6, <1>7 DEF Counted, Limit
<1> QED
  BY <1>6, <1>7, <1>8, <1>9, <1>10, <1>11 DEF PoolInv

\* Where the threads are after one of them has moved.
LEMMA StepMoves ==
    ASSUME PoolTypeOK, NEW u \in Users, NEW to \in Points, step' = [step EXCEPT ![u] = to]
    PROVE  /\ step' \in [Users -> Points]
           /\ \A v \in Users : step'[v] = IF v = u THEN to ELSE step[v]
           /\ Making' = IF to \in {"creating", "replacing"} THEN Making \union {u} ELSE Making \ {u}
           /\ Having' = IF to \in {"holding", "stale", "shutting"}
                        THEN Having \union {u} ELSE Having \ {u}
           /\ Replacing' = IF to = "replacing" THEN Replacing \union {u} ELSE Replacing \ {u}
           /\ (\A v \in Users \ {u} : conn'[v] = conn[v] /\ taken'[v] = taken[v])
                 => \A v \in Users \ {u} : hand'[v] = hand[v]
BY DEF PoolTypeOK, Making, Having, Replacing, hand

\* A step that leaves in the threads' hands what they have.
LEMMA OnlyStepMoves ==
    ASSUME PoolInv, NEW u \in Users, NEW to \in Points, step' = [step EXCEPT ![u] = to],
           UNCHANGED <<conn, taken>>
    PROVE  /\ step' \in [Users -> Points]
           /\ \A v \in Users : step'[v] = IF v = u THEN to ELSE step[v]
           /\ Making' = IF to \in {"creating", "replacing"} THEN Making \union {u} ELSE Making \ {u}
           /\ Having' = IF to \in {"holding", "stale", "shutting"}
                        THEN Having \union {u} ELSE Having \ {u}
           /\ Replacing' = IF to = "replacing" THEN Replacing \union {u} ELSE Replacing \ {u}
           /\ \A v \in Having \ {u} : hand'[v] = hand[v]
<1>1. PoolTypeOK /\ Having \subseteq Users
  BY DEF PoolInv, Having
<1>2. \A v \in Users \ {u} : conn'[v] = conn[v] /\ taken'[v] = taken[v]
  OBVIOUS
<1> QED
  BY <1>1, <1>2, StepMoves

\* The connections and the threads at them are finitely many.
LEMMA FinitelyMany ==
    ASSUME PoolInv
    PROVE  /\ IsFiniteSet(open \ uncounted) /\ Cardinality(open \ uncounted) \in Nat
           /\ IsFiniteSet(Making) /\ IsFiniteSet(Making \ uncounted)
           /\ Cardinality(Making \ uncounted) \in Nat
           /\ created \in Nat
<1>1. (open \ uncounted) \in SUBSET Conns /\ (Making \ uncounted) \in SUBSET Making
  BY DEF PoolInv, PoolTypeOK
<1> QED
  BY <1>1, LimitsAreNumbers, FS_Subset, FS_CardinalityType DEF PoolInv, PoolTypeOK

\* The uncounted are connections, which are no threads, and threads that replace one.
LEMMA UncountedAre ==
    ASSUME PoolInv
    PROVE  /\ \A u \in Users : u \notin open /\ u \notin Conns
           /\ \A u \in Users : u \in uncounted => step[u] = "replacing" /\ u \in Making
           /\ \A c \in Conns : c \in uncounted => c \in open
           /\ uncounted \subseteq open \union Replacing /\ open \subseteq Conns
BY ConnsAssumption DEF PoolInv, PoolTypeOK, Replacing, Making

\* A step that leaves the connections where they are.
LEMMA ApartStays ==
    ASSUME PoolInv, UNCHANGED <<queue, open>>, Having' = Having,
           \A v \in Having : hand'[v] = hand[v]
    PROVE  (~twice => Apart') /\ InHand' = InHand
<1>1. Queued' = Queued /\ InHand' = InHand
  BY DEF Queued, InHand
<1> QED
  BY <1>1 DEF PoolInv, Apart

\* A step after which no more is counted than before.
LEMMA CountedStays ==
    ASSUME PoolInv, ~twice, created' = created,
           (open \ uncounted)' \subseteq open \ uncounted,
           (Making \ uncounted)' \subseteq Making \ uncounted
    PROVE  Counted'
<1>1. /\ Cardinality((open \ uncounted)') \in Nat /\ Cardinality((Making \ uncounted)') \in Nat
      /\ Cardinality((open \ uncounted)') <= Cardinality(open \ uncounted)
      /\ Cardinality((Making \ uncounted)') <= Cardinality(Making \ uncounted)
  BY FinitelyMany, FS_Subset, FS_CardinalityType
<1> QED
  BY <1>1, FinitelyMany DEF PoolInv, Counted

\* A thread goes from one point to another with no connection in hand and none to make.
LEMMA WaitKeeps ==
    ASSUME PoolInv, NEW u \in Users, Get(u) \/ TimeOut(u) \/ CloseSeen(u)
    PROVE  PoolInv'
<1> DEFINE to == step'[u]
<1>1. /\ step[u] \in {"idle", "waiting", "closing"} /\ to \in {"waiting", "counting", "resetting"}
      /\ step' = [step EXCEPT ![u] = to] /\ gets' \in [Users -> Nat]
      /\ UNCHANGED <<queue, created, busy, conn, taken, open, twice, uncounted>>
  BY DEF Get, TimeOut, CloseSeen, Goes, ghostVars, PoolInv, PoolTypeOK
<1>2. /\ step' \in [Users -> Points] /\ \A v \in Users : step'[v] = IF v = u THEN to ELSE step[v]
      /\ Making' = Making /\ Having' = Having /\ Replacing' = Replacing
      /\ \A v \in Having : hand'[v] = hand[v]
  <2>1. u \notin Making /\ u \notin Having /\ u \notin Replacing /\ Having \subseteq Users
    BY <1>1 DEF Making, Having, Replacing
  <2>2. to \in Points /\ UNCHANGED <<conn, taken>>
    BY <1>1 DEF Points
  <2> QED
    BY <1>1, <2>1, <2>2, OnlyStepMoves
<1>3. PoolTypeOK'
  BY <1>1, <1>2 DEF PoolInv, PoolTypeOK
<1>4. LockHeld'
  BY <1>1, <1>2 DEF PoolInv, LockHeld
<1>5. (~twice => Apart') /\ InHand' = InHand
  BY <1>1, <1>2, ApartStays
<1> QED
  BY <1>1, <1>2, <1>3, <1>4, <1>5 DEF PoolInv, Limit, Counted

\* The first connection of the queue goes into a thread's hand.
LEMMA HandTakes ==
    ASSUME PoolInv, NEW u \in Users, u \notin Having, queue # << >>, queue' = Tail(queue),
           UNCHANGED open, Having' = Having \union {u}, hand'[u] = Head(queue),
           \A v \in Having : hand'[v] = hand[v]
    PROVE  /\ queue' \in Seq(Conns) /\ Head(queue) \in Conns
           /\ InHand' \subseteq Conns
           /\ ~twice => Apart'
<1> DEFINE c == Head(queue)
<1>1. queue' \in Seq(Conns) /\ c \in Conns
  BY DEF PoolInv, PoolTypeOK
<1>2. InHand' = InHand \union {c}
  BY DEF InHand
<1>3. ASSUME ~twice PROVE Apart'
  <2>1. Apart
    BY <1>3 DEF PoolInv
  <2>2. \A i, j \in 1 .. Len(queue) : queue[i] = queue[j] => i = j
    BY <2>1 DEF Apart
  <2>3. /\ \A i, j \in 1 .. Len(Tail(queue)) : Tail(queue)[i] = Tail(queue)[j] => i = j
        /\ {Tail(queue)[i] : i \in 1 .. Len(Tail(queue))} = Queued \ {c}
        /\ c \in Queued
    BY <2>2, TailApart DEF Queued, PoolInv, PoolTypeOK
  <2>4. Queued' = Queued \ {c}
    BY <2>3 DEF Queued
  <2>5. c \in open /\ c \notin InHand
    BY <2>1, <2>3 DEF Apart
  <2>6. \A v, w \in Having' : hand'[v] = hand'[w] => v = w
    BY <2>1, <2>5 DEF Apart, InHand
  <2>7. \A i, j \in 1 .. Len(queue') : queue'[i] = queue'[j] => i = j
    BY <2>3
  <2> QED
    BY <1>2, <2>1, <2>3, <2>4, <2>5, <2>6, <2>7 DEF Apart
<1> QED
  BY <1>1, <1>2, <1>3 DEF PoolInv

\* get takes a connection to use it, or to close it if it is old; close_all to close it.
LEMMA TakeKeeps ==
    ASSUME PoolInv, NEW u \in Users, Take(u) \/ CloseTake(u)
    PROVE  PoolInv'
<1> DEFINE to == step'[u]
<1>1. /\ step[u] \in {"waiting", "idle", "closing"} /\ to \in {"holding", "stale", "shutting"}
      /\ step' = [step EXCEPT ![u] = to] /\ queue # << >> /\ queue' = Tail(queue)
      /\ UNCHANGED <<created, busy, gets, open, twice, uncounted>>
  BY DEF Take, CloseTake, Goes, ghostVars, PoolInv, PoolTypeOK
<1>2. u \notin Making /\ u \notin Having /\ u \notin Replacing
  BY <1>1 DEF Making, Having, Replacing
<1>3. Head(queue) \in Conns
  BY <1>1 DEF PoolInv, PoolTypeOK
<1>4. /\ conn' \in [Users -> Conns \union {NoConn}] /\ taken' \in [Users -> Conns \union {NoConn}]
      /\ \A v \in Users \ {u} : conn'[v] = conn[v] /\ taken'[v] = taken[v]
      /\ (IF to = "holding" THEN conn'[u] ELSE taken'[u]) = Head(queue)
  BY <1>3 DEF Take, CloseTake, Goes, PoolInv, PoolTypeOK
<1>5. /\ step' \in [Users -> Points] /\ \A v \in Users : step'[v] = IF v = u THEN to ELSE step[v]
      /\ Making' = Making /\ Having' = Having \union {u} /\ Replacing' = Replacing
      /\ \A v \in Users \ {u} : hand'[v] = hand[v]
  <2>1. to \in Points /\ PoolTypeOK
    BY <1>1 DEF PoolInv, Points
  <2>2. /\ step' \in [Users -> Points] /\ \A v \in Users : step'[v] = IF v = u THEN to ELSE step[v]
        /\ Making' = Making \ {u} /\ Having' = Having \union {u} /\ Replacing' = Replacing \ {u}
        /\ \A v \in Users \ {u} : hand'[v] = hand[v]
    BY <1>1, <1>4, <2>1, StepMoves
  <2> QED
    BY <1>2, <2>2
<1>6. hand'[u] = Head(queue) /\ \A v \in Having : hand'[v] = hand[v]
  BY <1>1, <1>2, <1>4, <1>5 DEF hand, Having
<1>7. queue' \in Seq(Conns) /\ InHand' \subseteq Conns /\ (~twice => Apart')
  BY <1>1, <1>2, <1>5, <1>6, HandTakes
<1>8. PoolTypeOK'
  BY <1>1, <1>4, <1>5, <1>7 DEF PoolInv, PoolTypeOK
<1>9. LockHeld'
  BY <1>1, <1>5 DEF PoolInv, LockHeld
<1> QED
  BY <1>1, <1>5, <1>7, <1>8, <1>9 DEF PoolInv, Limit, Counted

\* A connection that is closed was open, and is in no other place.
LEMMA HandShuts ==
    ASSUME PoolInv, NEW u \in Having, UNCHANGED queue, open' = open \ {hand[u]},
           Having' = Having \ {u}, \A v \in Having \ {u} : hand'[v] = hand[v]
    PROVE  /\ InHand' \subseteq Conns
           /\ ~twice => Apart' /\ hand[u] \in open
<1>1. InHand' \subseteq InHand
  BY DEF InHand
<1>2. ASSUME ~twice PROVE Apart' /\ hand[u] \in open
  <2>1. Apart
    BY <1>2 DEF PoolInv
  <2>2. InHand' = InHand \ {hand[u]} /\ hand[u] \in InHand
    BY <2>1 DEF Apart, InHand
  <2>3. Queued' = Queued
    BY DEF Queued
  <2>4. \A v, w \in Having' : hand'[v] = hand'[w] => v = w
    BY <2>1 DEF Apart
  <2> QED
    BY <2>1, <2>2, <2>3, <2>4 DEF Apart
<1> QED
  BY <1>1, <1>2 DEF PoolInv

LEMMA ShutKeeps ==
    ASSUME PoolInv, NEW u \in Users, Shut(u)
    PROVE  PoolInv'
<1> DEFINE c == taken[u]  to == step'[u]
<1>1. /\ open' = open \ {c} /\ taken' = [taken EXCEPT ![u] = NoConn]
      /\ UNCHANGED <<queue, created, busy, conn, gets, twice>>
      /\ step[u] \in {"stale", "shutting"} /\ to \in {"replacing", "closing"}
      /\ step' = [step EXCEPT ![u] = to]
  BY DEF Shut, Goes, PoolInv, PoolTypeOK
<1>2. u \in Having /\ hand[u] = c /\ u \notin Making /\ u \notin Replacing /\ u \notin uncounted
  BY <1>1, UncountedAre DEF Having, hand, Making, Replacing
<1>3. c \in Conns
  BY <1>2 DEF PoolInv, InHand
<1>4. /\ taken' \in [Users -> Conns \union {NoConn}]
      /\ \A v \in Users \ {u} : taken'[v] = taken[v] /\ conn'[v] = conn[v]
  BY <1>1 DEF PoolInv, PoolTypeOK
<1>5. /\ step' \in [Users -> Points] /\ \A v \in Users : step'[v] = IF v = u THEN to ELSE step[v]
      /\ Making' = IF to = "replacing" THEN Making \union {u} ELSE Making
      /\ Having' = Having \ {u}
      /\ Replacing' = IF to = "replacing" THEN Replacing \union {u} ELSE Replacing
      /\ \A v \in Having \ {u} : hand'[v] = hand[v]
  <2>1. Having \subseteq Users
    BY DEF Having
  <2>2. to \in Points /\ PoolTypeOK
    BY <1>1 DEF PoolInv, Points
  <2>3. /\ step' \in [Users -> Points] /\ \A v \in Users : step'[v] = IF v = u THEN to ELSE step[v]
        /\ Making' = IF to = "replacing" THEN Making \union {u} ELSE Making \ {u}
        /\ Having' = Having \ {u}
        /\ Replacing' = IF to = "replacing" THEN Replacing \union {u} ELSE Replacing \ {u}
        /\ \A v \in Users \ {u} : hand'[v] = hand[v]
    BY <1>1, <1>4, <2>2, StepMoves
  <2> QED
    BY <1>2, <2>1, <2>3
<1>6. InHand' \subseteq Conns /\ (~twice => Apart' /\ c \in open)
  BY <1>1, <1>2, <1>5, HandShuts
<1>7. LockHeld'
  BY <1>1, <1>5 DEF PoolInv, LockHeld
<1>8. IsFiniteSet(Making')
  BY <1>5, FinitelyMany, FS_AddElement
<1>9. CASE to = "closing"
  <2>1. uncounted' = uncounted \ {c}
    BY <1>9 DEF Shut, Goes, PoolInv, PoolTypeOK
  <2>2. PoolTypeOK'
    BY <1>1, <1>4, <1>5, <1>9, <2>1 DEF PoolInv, PoolTypeOK
  <2>3. (open \ uncounted)' \subseteq open \ uncounted
    BY <1>1, <2>1
  <2>4. (Making \ uncounted)' \subseteq Making \ uncounted
    BY <1>3, <1>5, <1>9, <2>1, ConnsAssumption DEF Making
  <2>5. ~twice => Counted'
    BY <1>1, <2>3, <2>4, CountedStays
  <2> QED
    BY <1>1, <1>6, <1>7, <1>8, <2>2, <2>5 DEF PoolInv, Limit
<1>10. CASE to = "replacing"
  <2>1. uncounted' = {x \in uncounted : x # c} \union {v \in {u} : c \in uncounted}
    BY <1>10 DEF Shut, Goes, PoolInv, PoolTypeOK
  <2>2. PoolTypeOK'
    <3>1. uncounted' \subseteq open' \union Replacing'
      BY <1>1, <1>5, <1>10, <2>1 DEF PoolInv, PoolTypeOK
    <3> QED
      BY <1>1, <1>4, <1>5, <3>1 DEF PoolInv, PoolTypeOK
  <2>3. ~twice => Counted'
    <3>1. CASE c \in uncounted
      <4>1. uncounted' = (uncounted \ {c}) \union {u}
        BY <2>1, <3>1
      <4>2. (open \ uncounted)' \subseteq open \ uncounted
        BY <1>1, <4>1
      <4>3. (Making \ uncounted)' \subseteq Making \ uncounted
        BY <1>3, <1>5, <4>1, ConnsAssumption DEF Making
      <4> QED
        BY <1>1, <4>2, <4>3, CountedStays
    <3>2. CASE c \notin uncounted
      <4> HAVE ~twice
      <4>1. uncounted' = uncounted
        BY <2>1, <3>2
      <4>2. (open \ uncounted)' = (open \ uncounted) \ {c} /\ c \in open \ uncounted
        BY <1>1, <1>6, <3>2, <4>1
      <4>3. (Making \ uncounted)' = (Making \ uncounted) \union {u} /\ u \notin Making \ uncounted
        BY <1>2, <1>5, <1>10, <4>1
      <4>4. Cardinality((open \ uncounted)') = Cardinality(open \ uncounted) - 1
        BY <4>2, FinitelyMany, FS_RemoveElement
      <4>5. Cardinality((Making \ uncounted)') = Cardinality(Making \ uncounted) + 1
        BY <4>3, FinitelyMany, FS_AddElement
      <4> QED
        BY <1>1, <4>4, <4>5, FinitelyMany DEF PoolInv, Counted
    <3> QED
      BY <3>1, <3>2
  <2> QED
    BY <1>1, <1>6, <1>7, <1>8, <2>2, <2>3 DEF PoolInv, Limit
<1> QED
  BY <1>1, <1>9, <1>10

LEMMA CountKeeps ==
    ASSUME PoolInv, NEW u \in Users, Count(u)
    PROVE  PoolInv'
<1> DEFINE to == step'[u]
<1>1. /\ step[u] = "counting" /\ to \in {"creating", "idle"} /\ step' = [step EXCEPT ![u] = to]
      /\ busy = NoConn /\ UNCHANGED <<queue, conn, taken, gets, open, twice, uncounted>>
  BY DEF Count, Goes, ghostVars, PoolInv, PoolTypeOK
<1>2. u \notin Making /\ u \notin Having /\ u \notin Replacing /\ u \notin uncounted
  BY <1>1, UncountedAre DEF Making, Having, Replacing
<1>3. /\ step' \in [Users -> Points] /\ \A v \in Users : step'[v] = IF v = u THEN to ELSE step[v]
      /\ Making' = IF to = "creating" THEN Making \union {u} ELSE Making
      /\ Having' = Having /\ Replacing' = Replacing
      /\ \A v \in Having : hand'[v] = hand[v]
  <2>1. to \in Points /\ UNCHANGED <<conn, taken>>
    BY <1>1 DEF Points
  <2> QED
    BY <1>1, <1>2, <2>1, OnlyStepMoves
<1>4. (~twice => Apart') /\ InHand' = InHand
  BY <1>1, <1>3, ApartStays
<1>5. CASE created < MaxConnections /\ created' = created + 1 /\ busy' = u /\ to = "creating"
  <2>1. (Making \ uncounted)' = (Making \ uncounted) \union {u} /\ u \notin Making \ uncounted
    BY <1>1, <1>2, <1>3, <1>5
  <2>2. Cardinality((Making \ uncounted)') = Cardinality(Making \ uncounted) + 1
    BY <2>1, FinitelyMany, FS_AddElement
  <2>3. ~twice => Counted'
    BY <1>1, <1>5, <2>2, FinitelyMany DEF PoolInv, Counted
  <2>4. Limit'
    BY <1>5, LimitsAreNumbers DEF PoolInv, PoolTypeOK, Limit
  <2>5. LockHeld'
    BY <1>1, <1>3, <1>5, ConnsAssumption DEF PoolInv, LockHeld
  <2>6. PoolTypeOK'
    BY <1>1, <1>3, <1>5 DEF PoolInv, PoolTypeOK
  <2>7. IsFiniteSet(Making')
    BY <1>3, FinitelyMany, FS_AddElement
  <2> QED
    BY <1>1, <1>4, <2>3, <2>4, <2>5, <2>6, <2>7 DEF PoolInv
<1>6. CASE UNCHANGED <<created, busy>> /\ to = "idle"
  <2>1. LockHeld'
    BY <1>1, <1>3, <1>6 DEF PoolInv, LockHeld
  <2>2. PoolTypeOK'
    BY <1>1, <1>3, <1>6 DEF PoolInv, PoolTypeOK
  <2> QED
    BY <1>1, <1>3, <1>4, <1>6, <2>1, <2>2 DEF PoolInv, Limit, Counted
<1> QED
  BY <1>5, <1>6 DEF Count, Goes, PoolInv, PoolTypeOK

\* A connection made is one more that is open, and one less that is being made.
LEMMA MadeKeeps ==
    ASSUME PoolInv, NEW u \in Users, Create(u)
    PROVE  PoolInv'
<1>1. PICK c \in Conns \ open :
         /\ open' = open \union {c} /\ conn' = [conn EXCEPT ![u] = c]
         /\ uncounted' = (uncounted \ {u}) \union {d \in {c} : u \in uncounted}
  BY DEF Create
<1>2. /\ UNCHANGED <<queue, created, taken, gets, twice>>
      /\ busy' = IF busy = u THEN NoConn ELSE busy
      /\ step[u] \in {"creating", "replacing"} /\ step' = [step EXCEPT ![u] = "holding"]
  BY DEF Create, Goes
<1>3. u \in Making /\ u \notin Having
  BY <1>2 DEF Making, Having
<1>4. /\ conn'[u] = c /\ \A v \in Users \ {u} : conn'[v] = conn[v] /\ taken'[v] = taken[v]
      /\ conn' \in [Users -> Conns \union {NoConn}]
  BY <1>1, <1>2 DEF PoolInv, PoolTypeOK
<1>5. /\ step' \in [Users -> Points] /\ \A v \in Users : step'[v] = IF v = u THEN "holding" ELSE step[v]
      /\ Making' = Making \ {u} /\ Having' = Having \union {u} /\ Replacing' = Replacing \ {u}
      /\ \A v \in Users \ {u} : hand'[v] = hand[v]
  BY <1>2, <1>4, StepMoves DEF PoolInv, Points
<1>6. hand'[u] = c /\ \A v \in Having : hand'[v] = hand[v]
  BY <1>3, <1>4, <1>5 DEF hand, Having
<1>7. InHand' = InHand \union {c}
  BY <1>5, <1>6 DEF InHand
<1>8. ~twice => Apart'
  <2> SUFFICES ASSUME ~twice PROVE Apart'
    OBVIOUS
  <2>1. Apart /\ c \notin Queued /\ c \notin InHand
    BY DEF PoolInv, Apart
  <2>2. \A v, w \in Having' : hand'[v] = hand'[w] => v = w
    BY <1>5, <1>6, <2>1 DEF Apart, InHand
  <2>3. Queued' = Queued
    BY <1>2 DEF Queued
  <2> QED
    BY <1>1, <1>2, <1>7, <2>1, <2>2, <2>3 DEF Apart
<1>9. c \notin uncounted /\ u \notin open
  BY UncountedAre
<1>10. IsFiniteSet(Making')
  BY <1>3, <1>5, FinitelyMany, FS_RemoveElement
<1>11. ~twice => Counted'
  <2>1. CASE u \in uncounted
    <3>1. uncounted' = (uncounted \ {u}) \union {c}
      BY <1>1, <2>1
    <3>2. (open \ uncounted)' \subseteq open \ uncounted
      BY <1>1, <1>9, <3>1
    <3>3. (Making \ uncounted)' \subseteq Making \ uncounted
      BY <1>5, <3>1
    <3> QED
      BY <1>2, <3>2, <3>3, CountedStays
  <2>2. CASE u \notin uncounted
    <3>1. uncounted' = uncounted
      BY <1>1, <2>2
    <3>2. (open \ uncounted)' = (open \ uncounted) \union {c} /\ c \notin open \ uncounted
      BY <1>1, <1>9, <3>1
    <3>3. (Making \ uncounted)' = (Making \ uncounted) \ {u} /\ u \in Making \ uncounted
      BY <1>3, <1>5, <2>2, <3>1
    <3>4. Cardinality((open \ uncounted)') = Cardinality(open \ uncounted) + 1
      BY <3>2, FinitelyMany, FS_AddElement
    <3>5. Cardinality((Making \ uncounted)') = Cardinality(Making \ uncounted) - 1
      BY <3>3, FinitelyMany, FS_RemoveElement
    <3> QED
      BY <1>2, <3>4, <3>5, FinitelyMany DEF PoolInv, Counted
  <2> QED
    BY <2>1, <2>2
<1>12. PoolTypeOK'
  <2>1. uncounted' \subseteq open' \union Replacing'
    BY <1>1, <1>5 DEF PoolInv, PoolTypeOK
  <2> QED
    BY <1>1, <1>2, <1>4, <1>5, <2>1 DEF PoolInv, PoolTypeOK
<1>13. LockHeld'
  BY <1>2, <1>5, ConnsAssumption DEF PoolInv, LockHeld
<1> QED
  BY <1>1, <1>2, <1>7, <1>8, <1>10, <1>11, <1>12, <1>13 DEF PoolInv, Limit

\* One that could not be made stays counted.
LEMMA FailKeeps ==
    ASSUME PoolInv, NEW u \in Users, Fail(u)
    PROVE  PoolInv'
<1>1. /\ UNCHANGED <<queue, created, conn, taken, gets, open, twice>>
      /\ uncounted' = uncounted \ {u} /\ busy' = IF busy = u THEN NoConn ELSE busy
      /\ step[u] \in {"creating", "replacing"} /\ step' = [step EXCEPT ![u] = "idle"]
  BY DEF Fail, Goes
<1>2. u \in Making /\ u \notin Having /\ Having \subseteq Users
  BY <1>1 DEF Making, Having
<1>3. /\ step' \in [Users -> Points] /\ \A v \in Users : step'[v] = IF v = u THEN "idle" ELSE step[v]
      /\ Making' = Making \ {u} /\ Having' = Having /\ Replacing' = Replacing \ {u}
      /\ \A v \in Having : hand'[v] = hand[v]
  <2>1. "idle" \in Points /\ UNCHANGED <<conn, taken>>
    BY <1>1 DEF Points
  <2>2. /\ step' \in [Users -> Points] /\ \A v \in Users : step'[v] = IF v = u THEN "idle" ELSE step[v]
        /\ Making' = Making \ {u} /\ Having' = Having \ {u} /\ Replacing' = Replacing \ {u}
        /\ \A v \in Having \ {u} : hand'[v] = hand[v]
    BY <1>1, <2>1, OnlyStepMoves
  <2> QED
    BY <1>2, <2>2
<1>4. IsFiniteSet(Making')
  BY <1>2, <1>3, FinitelyMany, FS_RemoveElement
<1>5. ~twice => Counted'
  <2>1. (open \ uncounted)' \subseteq open \ uncounted
    BY <1>1, UncountedAre
  <2>2. (Making \ uncounted)' \subseteq Making \ uncounted
    BY <1>1, <1>3
  <2> QED
    BY <1>1, <2>1, <2>2, CountedStays
<1>6. (~twice => Apart') /\ InHand' = InHand
  BY <1>1, <1>3, ApartStays
<1>7. PoolTypeOK'
  <2>1. uncounted' \subseteq open' \union Replacing'
    BY <1>1, <1>3 DEF PoolInv, PoolTypeOK
  <2> QED
    BY <1>1, <1>3, <2>1 DEF PoolInv, PoolTypeOK
<1>8. LockHeld'
  BY <1>1, <1>3, ConnsAssumption DEF PoolInv, LockHeld
<1> QED
  BY <1>1, <1>4, <1>5, <1>6, <1>7, <1>8 DEF PoolInv, Limit

LEMMA ReturnKeeps ==
    ASSUME PoolInv, NEW u \in Users, Return(u)
    PROVE  PoolInv'
<1>1. /\ UNCHANGED <<created, busy, conn, taken, gets, open, twice, uncounted>>
      /\ queue' = Append(queue, conn[u])
      /\ step[u] = "holding" /\ step' = [step EXCEPT ![u] = "idle"]
  BY DEF Return, Goes, ghostVars
<1>2. u \in Having /\ u \notin Making /\ u \notin Replacing /\ hand[u] = conn[u] /\ Having \subseteq Users
  BY <1>1 DEF Having, Making, Replacing, hand
<1>3. /\ step' \in [Users -> Points] /\ \A v \in Users : step'[v] = IF v = u THEN "idle" ELSE step[v]
      /\ Making' = Making /\ Having' = Having \ {u} /\ Replacing' = Replacing
      /\ \A v \in Having' : hand'[v] = hand[v]
  <2>1. "idle" \in Points /\ UNCHANGED <<conn, taken>>
    BY <1>1 DEF Points
  <2>2. /\ step' \in [Users -> Points] /\ \A v \in Users : step'[v] = IF v = u THEN "idle" ELSE step[v]
        /\ Making' = Making \ {u} /\ Having' = Having \ {u} /\ Replacing' = Replacing \ {u}
        /\ \A v \in Having \ {u} : hand'[v] = hand[v]
    BY <1>1, <2>1, OnlyStepMoves
  <2> QED
    BY <1>2, <2>2
<1>4. conn[u] \in Conns /\ conn[u] \in InHand
  BY <1>2 DEF PoolInv, InHand
<1>5. queue' \in Seq(Conns)
  BY <1>1, <1>4 DEF PoolInv, PoolTypeOK
<1>6. InHand' \subseteq InHand
  BY <1>3 DEF InHand
<1>7. ~twice => Apart'
  <2> SUFFICES ASSUME ~twice PROVE Apart'
    OBVIOUS
  <2>1. Apart /\ conn[u] \notin Queued
    BY <1>4 DEF PoolInv, Apart
  <2>2. /\ \A i, j \in 1 .. Len(queue') : queue'[i] = queue'[j] => i = j
        /\ Queued' = Queued \union {conn[u]}
    <3>1. \A i, j \in 1 .. Len(queue) : queue[i] = queue[j] => i = j
      BY <2>1 DEF Apart
    <3>2. LET t == Append(queue, conn[u])
          IN  /\ \A i, j \in 1 .. Len(t) : t[i] = t[j] => i = j
              /\ {t[i] : i \in 1 .. Len(t)} = Queued \union {conn[u]}
      BY <1>4, <2>1, <3>1, AppendApart DEF Queued, PoolInv, PoolTypeOK
    <3> QED
      BY <1>1, <3>2 DEF Queued
  <2>3. InHand' = InHand \ {conn[u]}
    BY <1>2, <1>3, <2>1 DEF Apart, InHand
  <2>4. \A v, w \in Having' : hand'[v] = hand'[w] => v = w
    BY <1>3, <2>1 DEF Apart
  <2> QED
    BY <1>1, <1>4, <2>1, <2>2, <2>3, <2>4 DEF Apart
<1>8. PoolTypeOK'
  BY <1>1, <1>3, <1>5 DEF PoolInv, PoolTypeOK
<1>9. LockHeld'
  BY <1>1, <1>3 DEF PoolInv, LockHeld
<1> QED
  BY <1>1, <1>3, <1>6, <1>7, <1>8, <1>9 DEF PoolInv, Limit, Counted

LEMMA ReturnAgainKeeps ==
    ASSUME PoolInv, NEW u \in Users, ReturnAgain(u)
    PROVE  PoolInv'
<1>1. /\ UNCHANGED <<created, busy, step, conn, taken, gets, open, uncounted>>
      /\ queue' = Append(queue, conn[u]) /\ twice' = TRUE /\ conn[u] # NoConn
  BY DEF ReturnAgain
<1>2. queue' \in Seq(Conns)
  BY <1>1 DEF PoolInv, PoolTypeOK
<1>3. Making' = Making /\ InHand' = InHand /\ Replacing' = Replacing
  BY <1>1 DEF Making, Having, hand, InHand, Replacing
<1>4. PoolTypeOK'
  BY <1>1, <1>2, <1>3 DEF PoolInv, PoolTypeOK
<1> QED
  BY <1>1, <1>3, <1>4 DEF PoolInv, Limit, LockHeld

\* The count goes to 0: what is open, or to be made in place of another, is told off,
\* and with the lock free nothing that was counted first is being made.
LEMMA CloseEndKeeps ==
    ASSUME PoolInv, NEW u \in Users, CloseEnd(u)
    PROVE  PoolInv'
<1>1. /\ busy = NoConn /\ created' = 0 /\ uncounted' = open \union Replacing
      /\ UNCHANGED <<queue, busy, conn, taken, gets, open, twice>>
      /\ step[u] = "resetting" /\ step' = [step EXCEPT ![u] = "idle"]
  BY DEF CloseEnd, Goes
<1>2. u \notin Making /\ u \notin Having /\ u \notin Replacing /\ Having \subseteq Users
  BY <1>1 DEF Making, Having, Replacing
<1>3. /\ step' \in [Users -> Points] /\ \A v \in Users : step'[v] = IF v = u THEN "idle" ELSE step[v]
      /\ Making' = Making /\ Having' = Having /\ Replacing' = Replacing
      /\ \A v \in Having : hand'[v] = hand[v]
  <2>1. "idle" \in Points /\ UNCHANGED <<conn, taken>>
    BY <1>1 DEF Points
  <2>2. /\ step' \in [Users -> Points] /\ \A v \in Users : step'[v] = IF v = u THEN "idle" ELSE step[v]
        /\ Making' = Making \ {u} /\ Having' = Having \ {u} /\ Replacing' = Replacing \ {u}
        /\ \A v \in Having \ {u} : hand'[v] = hand[v]
    BY <1>1, <2>1, OnlyStepMoves
  <2> QED
    BY <1>2, <2>2
<1>4. (~twice => Apart') /\ InHand' = InHand
  BY <1>1, <1>3, ApartStays
<1>5. Counted'
  <2>1. \A v \in Users : step[v] # "creating"
    BY <1>1, ConnsAssumption DEF PoolInv, LockHeld
  <2>2. (open \ uncounted)' = {} /\ (Making \ uncounted)' = {}
    BY <1>1, <1>3, <2>1 DEF Making, Replacing
  <2> QED
    BY <1>1, <2>2, FS_EmptySet DEF Counted
<1>6. PoolTypeOK'
  BY <1>1, <1>3 DEF PoolInv, PoolTypeOK
<1>7. LockHeld'
  BY <1>1, <1>3 DEF PoolInv, LockHeld
<1>8. Limit'
  BY <1>1, LimitsAreNumbers DEF Limit
<1> QED
  BY <1>1, <1>3, <1>4, <1>5, <1>6, <1>7, <1>8 DEF PoolInv

LEMMA PoolStep == PoolInv /\ [PoolNext]_poolVars => PoolInv'
<1> SUFFICES ASSUME PoolInv, [PoolNext]_poolVars
             PROVE  PoolInv'
  OBVIOUS
<1>1. CASE PoolNext
  BY <1>1, WaitKeeps, TakeKeeps, ShutKeeps, CountKeeps, MadeKeeps, FailKeeps, ReturnKeeps,
     ReturnAgainKeeps, CloseEndKeeps DEF PoolNext, Proceed
<1>2. CASE UNCHANGED poolVars
  <2> USE <1>2 DEF poolVars, ghostVars
  <2>1. Making' = Making /\ Having' = Having /\ hand' = hand /\ Replacing' = Replacing
    BY DEF Making, Having, hand, Replacing
  <2>2. (~twice => Apart') /\ InHand' = InHand
    BY <2>1, ApartStays
  <2>3. PoolTypeOK' /\ LockHeld' /\ Limit'
    BY <2>1 DEF PoolInv, PoolTypeOK, LockHeld, Limit
  <2> QED
    BY <2>1, <2>2, <2>3 DEF PoolInv, Counted
<1> QED
  BY <1>1, <1>2

LEMMA PoolInvariant == PoolSpec => []PoolInv
BY PoolStart, PoolStep, PTL DEF PoolSpec

\* A connection that was taken is nobody else's, and it is open (pool.py:71).
THEOREM ConnectionsNotShared == PoolSpec => []NotShared
<1>1. PoolInv => NotShared
  <2> SUFFICES ASSUME PoolInv, ~twice
               PROVE  /\ \A u, v \in Holding : conn[u] = conn[v] => u = v
                      /\ \A u \in Holding : conn[u] \in open /\ ~Contains(queue, conn[u])
    BY DEF NotShared
  <2>1. Apart
    BY DEF PoolInv
  <2>2. \A u \in Holding : u \in Having /\ hand[u] = conn[u]
    BY DEF Holding, Having, hand
  <2>3. ASSUME NEW u \in Holding
        PROVE  conn[u] \in open /\ ~Contains(queue, conn[u])
    <3>1. conn[u] \in InHand
      BY <2>2 DEF InHand
    <3>2. conn[u] \in open /\ conn[u] \notin Queued
      BY <2>1, <3>1 DEF Apart
    <3> QED
      BY <3>2 DEF Contains, Queued
  <2> QED
    BY <2>1, <2>2, <2>3 DEF Apart
<1> QED
  BY <1>1, PoolInvariant, PTL

\* Every open connection is counted, but for those that close_all forgot when it set
\* the count to 0 and what replaces them, and no more are counted than the pool may
\* have (pool.py:85, pool.py:113).
THEOREM PoolBounded == PoolSpec => []Bounded
<1>1. PoolInv => Bounded
  BY FinitelyMany DEF PoolInv, Counted, Limit, Bounded
<1> QED
  BY <1>1, PoolInvariant, PTL

(***************************************************************************)
(*                            All the actors                               *)
(***************************************************************************)

\* What holds of each part holds of them side by side: a step is of one of them.
ActorsInv == SessionsInv /\ PoolInv /\ LockInv /\ CacheInv

LEMMA ActorsStart == ActorsInit => ActorsInv
BY SessionsStart, PoolStart, InitLockInv, InitCacheInv DEF ActorsInit, ActorsInv

LEMMA ActorsStep == ActorsInv /\ [ActorsNext]_allVars => ActorsInv'
<1> SUFFICES ASSUME ActorsInv, [ActorsNext]_allVars
             PROVE  ActorsInv'
  OBVIOUS
<1>1. [SessionsNext]_sessionVars
  BY DEF ActorsNext, OnlySessions, OnlyPool, Only, allVars
<1>2. [PoolNext]_poolVars
  BY DEF ActorsNext, OnlySessions, OnlyPool, Only, allVars
<1>3. [LocksNext]_lockVars
  BY DEF ActorsNext, OnlySessions, OnlyPool, Only, allVars
<1>4. [CacheNext]_cacheVars
  BY DEF ActorsNext, OnlySessions, OnlyPool, Only, allVars
<1> QED
  BY <1>1, <1>2, <1>3, <1>4, SessionsStep, PoolStep, NextLockInv, CacheStep DEF ActorsInv

\* Every variable of the clients (websocket.rs:43), the pool (pool.py:44), the page
\* locks (page_lock.rs:17) and the page cache (cache.rs:11) has its type, for any
\* number of actors of each.
THEOREM ActorsTyped == ActorsSpec => []TypesOK
<1>1. ActorsInv => TypesOK
  BY DEF ActorsInv, TypesOK, SessionsInv, PoolInv, LockInv, CacheInv
<1> QED
  BY <1>1, ActorsStart, ActorsStep, PTL DEF ActorsSpec
=============================================================================
