------------------------------ MODULE Sessions ------------------------------
(***************************************************************************)
(* WsServer (interface/websocket.rs): clients that share one executor and  *)
(* the maps of full-text and vector tables.  A connection's task reads a   *)
(* message, has a blocking thread process it, and writes the answer before *)
(* it reads the next one.  The executor's mutex is taken anew for every    *)
(* statement, and there is one transaction for all.                        *)
(***************************************************************************)
EXTENDS Naturals, Sequences

CONSTANTS
    Clients,
    MaxSent,      \* bound: requests a client sends
    NoTxn, NoTable

ASSUME NoAssumption == NoTxn \notin Nat /\ NoTable \notin Nat
ASSUME MaxSentAssumption == MaxSent \in Nat

Statements == {"create fts", "create vec", "insert", "match", "panic", "begin", "write",
               "commit", "rollback"}

\* A request is a text of statements; what its text looks like decides where it
\* goes.  All name one table.
Requests == {<<"create fts">>, <<"create vec">>, <<"insert">>, <<"match">>, <<"panic">>,
             <<"begin">>, <<"commit">>, <<"rollback">>, <<"begin", "write", "commit">>}

VARIABLES
    link,         \* per client: away, ready (for a message), or working on one
    sent,         \* requests sent so far
    text,         \* the statements of its request that are not done
    checked,      \* has the name of the table to create been looked up?
    answer,       \* the answer last written
    poisoned,     \* did a thread panic with the executor's mutex?
    begun,        \* the rows at BEGIN, or NoTxn
    rows,         \* rows of the ordinary tables
    fts, vec,     \* rows of the full-text and vector table of the name, or NoTable
    kept,         \* history: rows written outside a transaction or committed
    ftsKept,      \* history: rows a full-text insert was answered for
    raced         \* history: did two creators look the name up together?

sessionVars == <<link, sent, text, checked, answer, poisoned, begun, rows, fts, vec,
                 kept, ftsKept, raced>>

SessionsInit ==
    /\ link = [c \in Clients |-> "away"] /\ sent = [c \in Clients |-> 0]
    /\ text = [c \in Clients |-> << >>] /\ checked = [c \in Clients |-> FALSE]
    /\ answer = [c \in Clients |-> "none"]
    /\ poisoned = FALSE /\ begun = NoTxn /\ rows = 0 /\ fts = NoTable /\ vec = NoTable
    /\ kept = 0 /\ ftsKept = 0 /\ raced = FALSE

Tables  == <<begun, rows, kept>>
Virtual == <<fts, vec, ftsKept, raced>>

---------------------------------------------------------------------------
\* accept and the handshake; the ready message.
Connect(c) ==
    /\ link[c] = "away" /\ link' = [link EXCEPT ![c] = "ready"]
    /\ UNCHANGED <<sent, text, checked, answer, poisoned, Tables, Virtual>>

\* A Close message or a read error ends the loop, whatever is open.
Disconnect(c) ==
    /\ link[c] = "ready" /\ link' = [link EXCEPT ![c] = "away"]
    /\ UNCHANGED <<sent, text, checked, answer, poisoned, Tables, Virtual>>

Send(c, r) ==
    /\ link[c] = "ready" /\ sent[c] < MaxSent
    /\ link' = [link EXCEPT ![c] = "working"]
    /\ sent' = [sent EXCEPT ![c] = @ + 1] /\ text' = [text EXCEPT ![c] = r]
    /\ UNCHANGED <<checked, answer, poisoned, Tables, Virtual>>

\* Mutation: a task that panicked is not unwrapped: no answer is written.
AnswerNone(c, a) ==
    IF a = "task error" THEN UNCHANGED <<link, answer>> /\ text' = [text EXCEPT ![c] = << >>]
    ELSE /\ answer' = [answer EXCEPT ![c] = a]
         /\ link' = [link EXCEPT ![c] = "ready"] /\ text' = [text EXCEPT ![c] = << >>]

\* The end of a request; the answer to a panicked task is "task error".
Answer(c, a) ==
    /\ answer' = [answer EXCEPT ![c] = a]
    /\ link' = [link EXCEPT ![c] = "ready"] /\ text' = [text EXCEPT ![c] = << >>]

\* A statement that succeeds; the last one's result is the answer.
Done(c) ==
    IF Len(text[c]) = 1 THEN Answer(c, "ok")
    ELSE text' = [text EXCEPT ![c] = Tail(@)] /\ UNCHANGED <<link, answer>>

Working(c, s) == link[c] = "working" /\ text[c] # << >> /\ Head(text[c]) = s

---------------------------------------------------------------------------
(***************************************************************************)
(* fts_create and vec_create: the look-up and the insertion lock the map   *)
(* one after the other.                                                    *)
(***************************************************************************)
\* Mutation: no look-up.
NotThere(map) == TRUE

Unused(map) == map = NoTable

LookUp(c, s, map) ==
    /\ Working(c, s) /\ ~checked[c]
    /\ IF Unused(map)
       THEN /\ checked' = [checked EXCEPT ![c] = TRUE]
            /\ raced' = (raced \/ \E d \in Clients : checked[d] /\ text[d] = text[c])
            /\ UNCHANGED <<link, text, answer>>
       ELSE Answer(c, "exists") /\ UNCHANGED <<checked, raced>>
    /\ UNCHANGED <<sent, poisoned, Tables, fts, vec, ftsKept>>

FtsCreate(c) ==
    /\ Working(c, "create fts") /\ checked[c]
    /\ fts' = 0 /\ checked' = [checked EXCEPT ![c] = FALSE] /\ Answer(c, "ok")
    /\ UNCHANGED <<sent, poisoned, Tables, vec, ftsKept, raced>>

VecCreate(c) ==
    /\ Working(c, "create vec") /\ checked[c]
    /\ vec' = 0 /\ checked' = [checked EXCEPT ![c] = FALSE] /\ Answer(c, "ok")
    /\ UNCHANGED <<sent, poisoned, Tables, fts, ftsKept, raced>>

\* INSERT: a vector table of the name comes first, then a full-text table, then
\* the executor.
VecInsert(c) ==
    /\ Working(c, "insert") /\ vec # NoTable
    /\ vec' = vec + 1 /\ Answer(c, "ok")
    /\ UNCHANGED <<sent, checked, poisoned, Tables, fts, ftsKept, raced>>

FtsInsert(c) ==
    /\ Working(c, "insert") /\ vec = NoTable /\ fts # NoTable
    /\ fts' = fts + 1 /\ ftsKept' = ftsKept + 1 /\ Answer(c, "ok")
    /\ UNCHANGED <<sent, checked, poisoned, Tables, vec, raced>>

\* MATCH on a name without a virtual table goes to the parser, which has no MATCH.
Match(c) ==
    /\ Working(c, "match")
    /\ Answer(c, IF vec # NoTable \/ fts # NoTable THEN "ok" ELSE "parse error")
    /\ UNCHANGED <<sent, checked, poisoned, Tables, Virtual>>

---------------------------------------------------------------------------
(***************************************************************************)
(* The executor, one statement under its mutex; to lock a poisoned mutex   *)
(* is another panic, in the blocking thread.  Rows are only counted: what  *)
(* BEGIN and ROLLBACK do to keys and tables is in Database.                *)
(***************************************************************************)
Locked(c, s) == Working(c, s) /\ ~poisoned

Poisoned(c) ==
    /\ poisoned
    /\ \/ \E s \in {"panic", "begin", "write", "commit", "rollback"} : Working(c, s)
       \/ Working(c, "insert") /\ vec = NoTable /\ fts = NoTable
    /\ Answer(c, "task error")
    /\ UNCHANGED <<sent, checked, poisoned, Tables, Virtual>>

Panic(c) ==
    /\ Locked(c, "panic") /\ poisoned' = TRUE /\ Answer(c, "task error")
    /\ UNCHANGED <<sent, checked, Tables, Virtual>>

Write(c) ==
    /\ \/ Locked(c, "write")
       \/ Locked(c, "insert") /\ vec = NoTable /\ fts = NoTable
    /\ rows' = rows + 1
    /\ kept' = IF begun = NoTxn THEN kept + 1 ELSE kept
    /\ Done(c)
    /\ UNCHANGED <<sent, checked, poisoned, begun, Virtual>>

\* Mutation: the BEGIN of a second client starts anew.
BeginAgain(c) ==
    /\ Locked(c, "begin") /\ begun' = rows /\ Done(c)
    /\ UNCHANGED <<sent, checked, poisoned, rows, kept, Virtual>>

\* An error ends the request: what follows in its text is not done.
Begin(c) ==
    /\ Locked(c, "begin")
    /\ IF begun = NoTxn THEN begun' = rows /\ Done(c)
                        ELSE Answer(c, "error") /\ UNCHANGED begun
    /\ UNCHANGED <<sent, checked, poisoned, rows, kept, Virtual>>

Commit(c) ==
    /\ Locked(c, "commit")
    /\ IF begun # NoTxn THEN begun' = NoTxn /\ kept' = rows /\ Done(c)
                        ELSE Answer(c, "error") /\ UNCHANGED <<begun, kept>>
    /\ UNCHANGED <<sent, checked, poisoned, rows, Virtual>>

Rollback(c) ==
    /\ Locked(c, "rollback")
    /\ IF begun # NoTxn THEN begun' = NoTxn /\ rows' = begun /\ Done(c)
                        ELSE Answer(c, "error") /\ UNCHANGED <<begun, rows>>
    /\ UNCHANGED <<sent, checked, poisoned, kept, Virtual>>

\* What the blocking thread of a client does.
Work(c) ==
    \/ LookUp(c, "create fts", fts) \/ LookUp(c, "create vec", vec)
    \/ FtsCreate(c) \/ VecCreate(c) \/ VecInsert(c) \/ FtsInsert(c) \/ Match(c)
    \/ Poisoned(c) \/ Panic(c) \/ Write(c) \/ Begin(c) \/ Commit(c) \/ Rollback(c)

SessionsNext ==
    \E c \in Clients : Connect(c) \/ Disconnect(c) \/ Work(c) \/ \E r \in Requests : Send(c, r)

\* The blocking threads of tokio run; clients may stop at any time.
SessionsFairness == \A c \in Clients : WF_sessionVars(Work(c))

SessionsSpec == SessionsInit /\ [][SessionsNext]_sessionVars /\ SessionsFairness

---------------------------------------------------------------------------
SessionsTypeOK ==
    /\ link \in [Clients -> {"away", "ready", "working"}]
    /\ sent \in [Clients -> 0 .. MaxSent]
    /\ text \in [Clients -> Seq(Statements)]
    /\ checked \in [Clients -> BOOLEAN] /\ poisoned \in BOOLEAN /\ raced \in BOOLEAN
    /\ rows \in Nat /\ kept \in Nat /\ ftsKept \in Nat /\ begun \in Nat \union {NoTxn}
    /\ fts \in Nat \union {NoTable} /\ vec \in Nat \union {NoTable}

\* Every request is answered (websocket.rs:171): also when its task panics, when
\* another client's panic poisoned the executor for good, or when a transaction
\* was left open by a client that went away.
Answered == \A c \in Clients : link[c] = "working" ~> link[c] = "ready"

\* When no transaction is open, the rows are those that were written outside
\* transactions or committed, whichever clients' statements met in the shared
\* transaction (websocket.rs:280): no BEGIN of another client moves its start.
RollbackExact ==
    /\ begun = NoTxn => rows = kept
    /\ kept <= rows

\* Rows that a full-text insert was answered for are in the table, unless two
\* clients looked its name up before either had created it (websocket.rs:354).
FtsRowsKept == fts # NoTable /\ ~raced => fts = ftsKept
=============================================================================
