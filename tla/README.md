# sql6: models, checks and proofs

sql6 is a SQL database in Rust: an executor over tables, tables over B+Trees,
B+Trees over stores of pages, one of which is a single file with a write-ahead
log. Around it are a WebSocket and a stdio server, a shell and a Python client.
This directory holds TLA+ models of it, from the writes of the log to the
threads of the connection pool, the TLC configurations that check
them and TLAPS proofs about them. `PROJECT.json` maps every definition to the
lines it models and lists runs, mutants, findings, hazards and theorems.

    tlc -workers 2 -config Database.cfg MCDatabase    (any run of the table below)
    tlapm DiskPager_proofs.tla

## 1. The system

Paths are those of the repository, below `src/`.

| component | state | operations | what is hard | what makes it correct |
|---|---|---|---|---|
| Single-file store: `DiskStorage` (`src/pager/file_btree_storage.rs`) over `Wal` (`src/pager/wal.rs`) | main file, header page, log file; in memory `committed`, `dirty`, `pre_image`, `page_count`, `next_txn_id` | read, write and allocate a page; begin, commit, rollback; flush (checkpoint); open (replay) | death between two file writes, transaction ids and page count after a restart, three copies of a page | a restart finds what readers saw; a commit is atomic and durable; rollback restores |
| B+Tree (`src/btree/`) | pages of nodes, root, size | insert, delete, search, range search, scan | splits, borrows and merges at several levels, the leaf chain, underflow at the left edge | it is a sorted map; scans and searches agree; balance |
| Catalog (`src/catalog/`) | a tree of records, and the same in memory | create, drop, rename, add column; indexes, views, triggers | two copies, one of which a restart forgets; widths of a record's fields | memory and tree agree |
| Table (`src/table/`) | a tree, its row count, the schema | insert, get, delete, scan, range | the count is kept apart from the rows | count and rows agree |
| Executor and transaction manager (`src/planner/executor.rs`, `src/planner/transaction.rs`) | open tables, constraints, snapshot of row counts, attached databases | every SQL statement | a statement is many durable steps; triggers in the middle; BEGIN and ROLLBACK by row counts | a finished statement survives; statements touch their own table; constraints hold; ROLLBACK undoes |
| Constraints (`src/planner/constraints.rs`) | per table, in memory | checks of a row | checks only what is open, only on INSERT | no duplicate of a unique key |
| Node cache, dynamic and shared storage (`src/pager/storage.rs`) | cached nodes in order of access | read, write, evict | eviction, rollback below the cache | reads return what the store has |
| Directory store (`src/pager/dir_btree_storage.rs`) | a file per page, three caches, a log | as the single-file store | copies that do not agree in a transaction, shared file offsets | as the single-file store |
| LSM store (`src/pager/dir_lsmtree_storage.rs`) | memtable, tables of level 0 | get, put, flush | order of the tables, page count after a restart | the newest version is read |
| Page locks (`src/pager/page_lock.rs`) | holders per page | shared and exclusive locks that do not wait | threads | exclusion, release |
| Byte-page cache (`src/pager/cache.rs`) | four mutexes: pages, order, size, limits | get, put, invalidate | mutexes taken in two orders, sizes counted twice | no deadlock, size is the sum |
| Planner (`src/planner/planner.rs`) | none | SELECT to a plan, WHERE to an access path | sides of an equation, joins, queries in queries | the path finds the rows of the filter |
| Full-text search, vector search (`src/fts/`, `src/vector/`) | inverted index, document table, counters | add, update, remove, MATCH | three structures kept together | a MATCH finds the rows whose texts say so |
| Page codec (`src/pager/codec.rs`), row and record codecs (`src/table/serialize.rs`, `src/catalog/meta.rs`) | none | pure | lengths, widths, a page's end | what was encoded is decoded |
| Expressions and plans (`src/planner/executor.rs`) | none | pure, over rows | nulls, kinds, patterns, order of filter, sort and cut | a statement returns what it means |
| Lexer and parser (`src/parser/`) | a position | pure | look-ahead, precedence, optional parts | a written text or tree is read back |
| Date functions (`src/planner/datetime.rs`) | none | pure | calendar, negative moments | they agree with the calendar |
| Sessions (`src/interface/websocket.rs`, `src/main.rs`) | connections that share one executor, maps of full-text and vector tables | lock, execute, answer | statements of two connections interleave; a panic poisons the lock; nobody flushes in the WebSocket server | every request is answered; COMMIT and ROLLBACK keep the shared transaction's bounds |
| Python pool, client, cluster, backup (`sql6_pypi/sql6/`) | queue, counters, locks, health flags | get, return, close; execute | threads, timeouts, a lock taken twice | bounds kept, nobody waits for ever |

Calls go straight down: a statement of the executor calls the catalog and
tables, these call their trees, a tree calls `read_node`, `write_node` and
`alloc_page` of its store, and the store writes its log and its file. Nothing is
called back. The executor never calls `begin`, `commit` or `rollback` of the
store: SQL's BEGIN only makes the transaction manager note row counts. Each
`write_node` of a statement is therefore committed by itself, which is why death
in the middle of a statement matters and why `DiskPager`, `BPlusTree` and
`Database` are each modelled with steps of their own.

Other stores can take the place of the single file (`src/pager/storage.rs`,
`DynStorage`), with a cache of decoded nodes above them. The stdio and WebSocket
servers put a text through lexer, parser, planner and executor; only the
WebSocket server has several clients at a time. The Python side talks to one of
the two servers and adds threads of its own.

## 2. The modules

| module | what it is |
|---|---|
| `DiskPager` | the single-file store and its log, one action per file write |
| `AtomicStore` | abstract: pages with atomic durable transactions |
| `DiskPagerContract` | `DiskPager` under the calls it keeps its promise for, and the mapping to `AtomicStore` |
| `LruCache` | the cache of nodes, composed with `AtomicStore` below it |
| `DirStore` | the store with a file per page, its log and its three caches |
| `LsmStore` | the store of memory table and levels |
| `BPlusTree`, `MCBPlusTree` | the tree, one action per `write_node`; its instance |
| `Database`, `MCDatabase` | executor, transaction manager, constraints, catalog and tables; its instances |
| `Expressions`, `Queries`, `QueryCases` | values, operators and patterns; planner and plan execution against what a SELECT means; the statements checked |
| `Lexer`, `Parser` | characters to tokens, tokens to trees |
| `DateFunctions` | dates and modifiers against a counted calendar |
| `FullText` | a full-text table with its index, and MATCH |
| `Codec` | the bytes of nodes, rows and catalog records |
| `Sessions` | the WebSocket server's clients over one executor |
| `Pool` | the Python connection pool's threads |
| `PageLocks`, `PageCacheLocks` | the page locks; the byte cache's mutexes |
| `Queues` | a queue without an element: the queues of caches and pool, shared by their modules |
| `MCParts`, `MCSessions` | instances that put parts that share nothing into one run |
| `DiskPager_proofs` | the theorems about `DiskPager` and `DiskPagerContract` |
| `BPlusTree_proofs`, `Database_proofs`, `DirStore_proofs` | the theorems about these modules |
| `Stores_proofs` | the theorems about `LruCache` and `LsmStore` |
| `Locks_proofs` | the theorems about `PageLocks` and `PageCacheLocks` |
| `Service_proofs` | the theorems about `Sessions` and `Pool`, and about all the actors of `MCSessions` |
| `Queues_proofs` | lemmas about sequences that the other proofs cite |

`DiskPagerContract` INSTANCEs `AtomicStore` as what it implements, `LruCache`
INSTANCEs it as what it stands on: together they say what a reader above the
cache can rely on. `QueryCases` extends `Queries`, which extends `Expressions`.
`MCParts` and `MCSessions` EXTEND the parts that have variables and theorems, so that
a run checks the very definitions that the proofs are about and evaluates their assumptions.

### DiskPager

`mainFile`, `savedCount`, `log`, `frameCount` are the two files; `committed`,
`dirty`, `preImage`, `inTxn`, `nextTxn`, `pageCount` the fields of `Wal` and
`DiskStorage`. A call that writes files is a sequence of actions ordered by `pc`:
`WriteAuto`, `AllocAuto` and `Commit` start a batch; `DataFrame` and `DataHeader`
write one frame and count it in the log's header; `CommitFrame` and
`CommitHeader` do so for the commit frame; `AllocBlank` writes the zero page of an
allocation. `Flush` is the checkpoint (`WriteBack` page by page, `TruncateLog`,
`ResetLogHeader`) and the header page (`WriteDbHeader`). `Crash` is possible at
every moment, and `Open` replays. `Wal.frame_count` always equals the count in the
log's header between two calls, so there is one variable.

The content of a page is a member of `Vals` or `Blank`. The catalog root, the other field of
the header, is modelled in `Database`. A crash is the death of the process:
what it wrote stays. Loss of power is not modelled (the main file is never
synced, so nothing could be claimed), nor are errors of file operations.

`session`, `staleImage` and `spoiled` are history. A page is *spoiled* when
rollback or `alloc_page` changed it in memory or in the main file without a
commit; the code does so when an image kept for rollback was the transaction's
own write, when rollback is called after a commit (which leaves the images
behind), and when a page count that is older than the log hands out a page in
use. `IdClash` says that two sessions wrote under one transaction id into one
log, which `Wal::open` makes possible by starting at 1 again. The properties are
claimed for pages that are not spoiled and logs without a clash; what happens
otherwise is shown by the two findings of this module.

### BPlusTree

`insert`, `delete`, `search`, `range_search` and `scan_all`, with the recursion of
the code as the variable `path` (the parents still waiting for their child). A
function computes the nodes a call is about to write from those it has read and
queues them in `writes`, in the order of the code's `write_node` calls;
`WriteNode` performs one. `dict` is history: the map the callers made.

The tree has order 64 in the program and order 4 here, as in the repository's
own tests: the code is parametric in the order, and with order 4 six records make
three levels. Internal nodes of a tree of odd order can fall below
`min_keys` by a split (order 5 leaves one key), so `Balanced` is claimed for even
orders, the ones the program uses. The leaf chain is singly linked in the code
though a comment calls it doubly linked; the model follows the code.

`VIEW` (in `MCBPlusTree`) names the pages a call can still reach by the order in
which it would meet them, and forgets the others. No step looks at the number of a
page other than to follow it, `alloc_page` hands out the next number, which the view keeps
as `pageCount`, and no page is used again: two states with the same view have
the same future, and no property looks at page numbers either.

### Database

A statement is `program`, the sequence of the operations it has still to do;
`Continue` lists the actions that do one. `Insert` starts with `InsertOps`: `find`
the table, per row a `check` of the constraints, the triggers (`fire`), the `put` and the
triggers again, and at the end `save` of root and count in the catalog. `Fire`
puts the statements of the triggers' bodies in front of the rest. `Get` and
`ScanTable` read the source of an UPDATE or DELETE, and the rest of the statement
works on what they read. `Rollback` makes the program `exec_rollback` runs.
`OpenTable` is `get_table`, which any operation may need first. `Open`,
`Close` (`flush`, `set_catalog_root`, `exit`) and `Crash` are a process's life.

State of the file: `rows[p]` and `cats[p]` are the tree on page `p` (rows have
integer keys, catalog records text keys, so one page can hold both, and in this
program does: see the findings), `savedCount` and `savedRoot` the header. State of the
process: `cache` and `trig` are the catalog's maps, `open` the handles with their
counts, `cons` the constraints, `snap` the transaction's snapshot, `defaults` the
columns' defaults. `stale` (a
session began with a page count older than its tables), `renamed`, `unsaved` and
`uncounted` (rows put, count not saved, because the statement has not ended or
failed) are history, and with them the properties say where they do not hold.
`uncounted` also has the tables whose UPDATE runs a trigger that inserts into or deletes
from the table itself (`UpdatesItself`): UPDATE relies on putting back one row for
the one it took, and saves no count; a body in between spoils that, and a
scan and a search then disagree for good. `Sorted` is the order in which a scan gives its
keys, defined by what it is and not by a sorting algorithm, so that it can be reasoned about.

A trigger's body is kept as a text made of the debug names of its tokens
(`parser.rs:712`), parsed anew whenever the trigger fires. A sign becomes its name
there, so a body with a `=`, a parenthesis or a semicolon cannot be parsed again:
the trigger of the repository's `README.md:164` makes the DELETE it belongs to
fail. What does survive is `INSERT INTO t DEFAULT VALUES` and `DELETE FROM t`.
Triggers of the model therefore *do* one of three things: insert a default row,
delete every row, or fail (`BadBody`). A default row has a key only if the key column has a
default; without one `Table::insert` has no key to put the row under and the
statement fails (`NoKey`). Defaults are not written to the catalog (`meta.rs:113`),
so a restart turns the first kind of trigger into the second (`Forget`).

Abstractions. Trees are single pages: with order 64 that is any tree of fewer
than 63 records. A `u32` has 8 values and a `usize` 16, and a scan has room for 3
records, so that wrapping happens (`RecordWidth`, `SizeWidth`, `Capacity`). The
build is the release build: a count wraps, and a scan that expects a wrapped
count aborts the process (`Overflow`). A statement that fails before it changes
anything is left out. `OpenTable` is one step, although it writes three pages.
A foreign key's column is the key column. The full read of a page never
written is an internal node whose only child is page 0 (`Page`).

### LruCache

`LruCacheStorage` over the abstract store: `ReadHit`, `ReadMiss`, `Write` are
`read_node` and `write_node`; `Begin`, `Commit`, `Rollback`, `Alloc` pass on what
the code passes on without a look at the cache; `Flush` empties it. The
eviction is the code's: a write at capacity evicts even when its page is cached.
`outdated` remembers the cached pages that a rollback, a second BEGIN or
`alloc_page` changed below the cache, which really are read as they were. The executor calls neither
`begin` nor `rollback` of its store, so the case needs another caller.

### DirStore

A page can be in six places: the transaction's buffer, the map of committed
pages, the log, the node cache, the byte cache, its file. `View` is the order in
which `read_node` asks them. `Flush` is four kinds of steps (`CutPage`,
`FillPage`, `EmptyLog`, then `CutMeta`, `FillMeta`), because `fs::write`
empties a file before it fills it; the process may die between any two. The
frames of the log are `DiskPager`'s subject: here `logged[p]` is what a replay
would find. Reads through pooled handles share one file offset, so a second read
of the same file starts at its end (`FileBytes`).

`doubtful` are pages the store changed by itself: a rollback in which the image
was not the committed copy, or is not in the log, so that the next flush cuts the
only file that has it. `seen` are pages whose bytes were read since the caches
were cleared: the byte cache is not told of writes. `overtaken` are pages whose cached
node was there when `write_batch` wrote the page: unlike `write_node` it does not
invalidate it (`dir_btree_storage.rs:464`), so the node hides what was written until it leaves
the cache. A batch written while the page has no cached node is read like any other
write. Nothing in the repository calls `write_batch`; like the other writes it is only given pages
below the count. `lost` says that
`catalog.meta` was found cut, after which page 0 is handed out again.

### LsmStore

`WriteNode`, `Alloc`, `Commit`, `IndexPage` and `EndFlush` (a flush, page by page
of the index), `Compact`, `Rollback`, `Crash`, `Open` in every order in which a
directory can list its files. Level 0 is searched oldest first, so a
page flushed twice is read as its old version: `LevelsAreNewestFirst` is claimed
for pages that each level has at most once, and says that the order of memory,
level 0 and level 1 is right. `FlushedStays` says that the newest version is
always in some file.

### Expressions, Queries, QueryCases

`Expressions` translates `eval_expr` with comparison, arithmetic, three-valued
logic as the code has it, IN, BETWEEN, LIKE and GLOB. `PatternsMatch` compares `LIKE`'s
recursion over the rests of the text and `GLOB`'s table with the definition of a match: a cut
of the text into pieces, one per sign of the pattern.

`Queries` translates `plan_select` and the execution of plans: access paths,
filters, joins, aggregates, HAVING, DISTINCT, ORDER BY, LIMIT, WITH, subqueries
and UNION. The second half, `Meaning`, defines what a SELECT means without
a plan: the set of combinations of rows for which WHERE and ON are true, ordered, cut and
projected, groups told apart by their first member. `QueriesAgree` compares them; a
statement with a query inside is compared with the plain statement it stands for.

### Lexer, Parser

Both are checked backwards. `TextReadsBack` writes lexemes next to each other, with
a separator only where the longest reading would join two, and asks for the
same tokens. `ExpressionReadsBack` writes a tree with as few parentheses as
its levels need. For statements `Parser` holds the grammar as data:
`Accept` follows it as the parser does, by looking one token ahead and never
back; `Sentences` derives every sentence with at most `MaxChoices` choices of
an optional part. That each is accepted by the choices it was made by means that no optional part takes
what belongs to the next.

### DateFunctions, FullText, Codec

`DateFunctions`: Julian days both ways, seconds both ways, modifiers, `%j`, `%w`,
`%W`, against a calendar that counts days of years and months. Where the code does not do
what the calendar says `DatesAgree` states what it does instead, so that nothing else is
wrong there: before 1970 a moment that is not at midnight becomes a date of the next day with an hour,
minute or second out of range (`datetime.rs:40`); `+N hours` moves by the whole days in N only; a Julian
day is made from noon (as the test at `datetime.rs:342` has it) and read as from midnight, so
that reading back what `julianday` printed is twelve hours early. `FullText`: insert
(with and without a row id), update, delete, over an index of terms
with and without a column's prefix; `SearchesAgree` asks every query of a
bounded set of the texts themselves. `Codec`: writer and reader of nodes, rows,
tables' and triggers' records; a byte has `Base` values and a page
`PageSize` bytes, so that nodes that do not fit their page are among the
inputs: such a node is cut without a word (`codec.rs:63`) and then not
readable at all, but never taken for another.

### Sessions, Pool, PageLocks, PageCacheLocks

`Sessions`: a request is a text of statements, its task takes the executor's
mutex anew for each; `begun` is the one transaction of all clients, `poisoned` the
mutex after a panic. `fts_create` and `vec_create` look a name up and insert it under two
lockings (`LookUp`, then `FtsCreate`), so two creators can pass (`raced`). `Pool`: `get` goes
through the queue, its timeout, the count under the lock and
the making of a connection, which can fail; one that was not used for long is taken, closed and
replaced in three steps. `close` can be called twice (`twice`).
`close_all` takes and closes what is queued, one by one, then sees the queue empty (`CloseSeen`), and only
then takes the lock and sets the count to 0 (`CloseEnd`): meanwhile connections come back, are taken or
made. `uncounted` holds those that are open at that moment, and the threads that are about to replace
one, since the replacement is not counted either. `PageLocks`: guards and their
modes; a lock that cannot be had fails at once. `PageCacheLocks`: a step per
mutex, so that two threads can wait for each other; this cache does deadlock, by
`put` against `get` or `invalidate`, and `OnlyPutDeadlocks` says that it takes a `put`.

## 3. The runs

| run | expects | what it shows |
|---|---|---|
| `disk_pager` | pass | `ViewIsDurable`: between calls memory and files agree. `AtomicDurability`: of all file writes only the one that counts a commit frame changes what a restart finds |
| `disk_pager_contract` | pass | `ImplementsAtomicStore`: under the contract the store refines `AtomicStore` |
| `disk_pager_replay` | violation | `ReplaysCommittedOnly`: a frame without its transaction's commit frame is replayed |
| `disk_pager_rollback` | violation | `RollbackRestores`: rollback installs the transaction's own write |
| `btree` | pass | `SearchFindsAll`, `RangeFindsAll`, `SizeCounts`, `Balanced` over all sequences of calls |
| `btree_order3` | violation | `NeverPanics`: order 3, which `new` accepts, underflows in a merge |
| `database` | pass | the seven properties below |
| `database_close` | violation | `CloseKeeps`: what the first session made is lost |
| `database_unset` | violation | `TablesApart`: two tables on one tree |
| `database_rollback` | violation | `RollbackUndoes`: ROLLBACK drops a table that was there before |
| `parts` | pass | the sequential parts, one at a time; properties below |
| `sessions` | pass | the parts with several actors, one at a time; properties below, two of them liveness |

**Two runs for many parts.** The parts of `MCParts` share no state in the
program (the directory store and the LSM store are never open on one
database, the parser keeps nothing), and so do those of `MCSessions`. Each
run picks its `subject` first; only that part's variables ever change, and the
others keep their first values. The run's states are the sum of the parts', not their
product. A pure function takes one `input` of a finite set and no step.
The `VIEW` of `MCParts` leaves out the variables that never change.

**Bounds, and why they are enough.** `disk_pager`: two pages (a transaction of
two pages is needed for atomicity, one page allocated at the start and one not), one value
besides blank, two sessions (replay, and a session over a replayed log), one
logged batch per session, of up to two pages; death at every write.
The two violations use the same; `disk_pager_contract` has two batches in a
session, so that a commit follows a commit, and both pages allocated at the start. The proofs
cover all other values of these bounds. `btree`: six keys, one of them with a second record that
replaces the first, and 12 pages for the whole sequence of calls, enough for three levels; 119,078 states
under the view, in which every case of `rebalance` occurs for leaves and for
internal nodes (TLC's coverage counts each). `database`: two tables, two keys,
one value, five triggers (they insert into each other's tables, delete, put a row
back, and fail), a unique key and a foreign key, sessions of two and of three statements
with inserts of up to two rows; 527,649 states. Two statements in the first
session make a table with content, and three in the second suffice to begin,
change and roll back, or to change, fail and change again. Three statements in both
sessions (3,133,865 states) pass too, and take longer than a run should.

`parts` (1,888,573 states) per subject:

| subject | bounds |
|---|---|
| node cache | three pages, two values, room for two nodes: an eviction while a page is read, and a page that leaves and returns |
| directory | two pages, one of them ever written (`Written`), room for one node and one page of bytes; the two pages differ in that one is only ever allocated. A process that found `catalog.meta` cut (`lost`) is followed no further |
| lsm | two pages, three files (`MaxTables`), a flush after two writes, compaction of two tables: level 1, level 0 and memory hold a page at the same time |
| full text | two words, two columns of up to one and two words, row ids 1 and 2: replacement, update of an absent row, phrases that begin with the old text's words |
| patterns | texts of up to three signs, patterns of up to three signs with two wildcards (`MaxText`, `MaxPattern`) |
| queries | tables of up to three rows with nulls and equal values; the statements of `QueryCases` |
| dates | the ends of all months around seven turns of a century; a leap year with every pair of modifiers; seconds of 1969 (not at midnight), 1973 and 2000; hours that make whole days and hours that do not |
| texts | pairs of all lexemes with three separators, triples of the plain ones |
| expressions | every operator over every operator |
| statements | every derivation with at most two choices (`MaxChoices`) |
| records | keys and values of every kind, nodes below and above the page of 36 bytes, counts above a `u32` of 5^4 |

`sessions` (284,369 states): two clients that send two requests each (a creator races a
creator, a BEGIN meets a BEGIN, a panic comes between); two threads and three
connections at a pool of two, two `get` each, one second close; three guards on
two pages (two readers and a writer, and a lock on another page); two threads and two
pages in a byte cache with room for one, in which no `put` begins
when size and queue together have grown to three (`Overrun`). The actors are symmetric, but no
reduction is used: the run also checks liveness.

**What the properties say.**

- `CatalogMatches`: the catalog in memory is
the one in the tree. `AccessPathsAgree`: a scan, which trusts the count, and a
search, which does not look at it, see the same rows. `RestartFinds`: what a
finished statement did is found by the next process even if this one dies.
`TriggersEnd`: trigger bodies fire no triggers, the safety form of termination.
`StatementsIsolated`: an operation changes what SELECT returns for its own table
only. `UniqueKept`: an INSERT replaces no row of a table with a unique key,
although triggers run between the check and the insertion; the property leaves
out tables whose own triggers insert into them, because there the code does
replace one.
- `OrderMatches`, `CacheCurrent`: the node cache queues what it holds, and
holds what the store has.
- `ReadsCurrent`, `RestartKeeps`, `PagesCounted`: the directory store reads what was
last written, finds it after death, and hands out no page twice; with the
exceptions named in the module (`doubtful`, `seen`, `overtaken`, `lost`).
- `LevelsAreNewestFirst`, `FlushedStays`: of the LSM store, see above.
- `SearchesAgree`, `PatternsMatch`, `QueriesAgree`, `DatesAgree`, `ReadsBack`: a
detailed computation agrees with a definition of what it should compute, for every
input within the bounds. `QueriesAgree` leaves out statements to which this
executor gives a meaning of its own (`QueryCases` lists them).
- `RollbackExact`: with no transaction open, the rows are those written outside
transactions or committed, whichever clients' statements met in the one transaction.
`FtsRowsKept`: a full-text row that was answered for stays, unless two creators raced.
- `NotShared`, `Bounded`: a pooled connection has one user; every open connection is counted but
for those that were there when `close_all` set the count to 0 and what replaced them; and no more are counted
than allowed. So a `close_all` beside users lets the limit be exceeded by what it forgot, and by nothing
else afterwards. Not after a second `close`, which puts one connection into the queue twice.
- `Exclusion`, `NoLockLeaks`: a writer is alone on its page, and every lock has a guard that
will give it back.
- `OnlyPutDeadlocks`, `SizeCovers`: threads that wait for each other in the byte cache
include one in `put`; between calls the size is at least what is cached.
- `Answered` (liveness): a request of a client is answered, also after a panic
poisoned the executor. `GetEnds` (liveness): a `get` of the pool ends.

**Fairness.** Two kinds of steps are assumed fair, both in `sessions`.
`WF(Work(c))`: the blocking thread that works on a client's request goes on; tokio
gives it a thread of its own, and a mutex it needs is given back by a step that
depends on nobody else. `WF(Proceed(u))`: a thread in `get` goes on; its waiting for the queue has a
timeout, and its waiting for the lock ends when the holder's own fair step gives it
back. The making of a connection is one step that ends, well or badly; that is an assumption on
what is outside the pool, for `client.py:248` reads a line from the server without a timeout while the
pool's lock is held. What `close_all` does is not assumed to go on. Clients and users are not assumed to send, close or give
back anything, and the number of their requests is bounded. Nobody else is fair: a process
over a store may die at any moment, and then "a call returns" would only say
that `Next` is enabled; the byte cache really does deadlock. TLC's deadlock check
is on for the store and the tree; `Database`, `parts` and `sessions` are
allowed to stop when sessions, inputs or requests are used up.

## 4. Findings

Each is a disagreement of the code with its own text or tests, shown by a run.

1. `wal.rs:153`: transaction ids start at 1 over a log that was just replayed, so
   an unfinished transaction can be replayed as committed by an older one's frame.
2. `file_btree_storage.rs:132`: the image kept for rollback may be the
   transaction's own first write.
3. `tree.rs:273`: `pos - 1` with `pos = 0` in a tree of order 3.
4. `file_btree_storage.rs:99`: the first session's catalog is on page 0, which the
   header reads as "no catalog"; the next session starts empty.
5. `meta.rs:121`: "no tree yet" is `usize::MAX`, becomes `2^32 - 1` in a record,
   and is a page after reopening; all such tables are one tree.
6. `executor.rs:1358`: ROLLBACK removes a table that was first used in the transaction.

Seen while reading, without a run of their own; where a module models the code, the
model does the same and the properties say where they do not hold:

- *Database.* Rename leaves the old record and the old handle, and does not ask
  whether the new name is taken. UPDATE checks no constraint, though
  `constraints.rs:9` names INSERT and UPDATE. Constraints, indexes and views are in
  memory only, column defaults too (`meta.rs:113`). A trigger runs before and after a
  row; its body is spelled by names of tokens (`parser.rs:712`); `UPDATE OF` triggers never fire. The
  WebSocket server never flushes. `begin` in a transaction drops what it wrote
  (the tests at `wal.rs:557` say so). VACUUM on disk flushes without setting the
  catalog's root (`executor.rs:1064`) and loses every table. ADD COLUMN makes older rows unreadable
  (`serialize.rs:69`); an INSERT with fewer values than columns panics (`serialize.rs:22`).
  The AUTOINCREMENT counter sees neither explicit keys nor failed inserts.
- *Queries.* `t.*` cannot be reached (`parser.rs:213`). NOT EXISTS and NOT (x IN (SELECT ...))
  are never resolved. WHERE over the right side of a join drops the rows. DISTINCT comes before
  projection. COUNT(*) + 1 is an error, HAVING knows COUNT(*) by its output name only.
  A key compared with a value of another kind takes another meaning as a look-up.
  An integer divided by 0 panics (`executor.rs:1754`). A SELECT from a subquery
  names its columns `alias.column`; a view ignores the outer clauses.
- *Stores.* The directory store keeps for rollback the page's file, not the log's copy;
  a flush after such a rollback cuts the only file that has it; the byte cache is stale
  after a flush; `write_batch` leaves the cached node of the page it writes
  (`dir_btree_storage.rs:464`); cloned handles share an offset; `catalog.meta` is cut before it is written. The
  LSM store searches level 0 oldest first, and counts no page after a restart.
- *Full text, vectors.* A MATCH of several words without an operator is one term and finds nothing;
  an update of a row that is not there stores one under its id without advancing the counter. A vector row
  replaced without metadata keeps the old one's.
- *Dates.* Times of day before 1970 come from a negative remainder cast to `u8`; a Julian day is
  printed from noon and read from midnight, twelve hours early; hours are cut to whole days; a month added to day
  31 keeps day 31.
- *Byte cache.* A page larger than a tenth of the cache is dropped by `put`;
  a page put twice is counted and queued twice.
- *Python.* The pool's `close_all` zeroes the count after connections came back
  (`pool.py:113`); one that cannot be made stays counted (`pool.py:86`). `cluster.py:85` takes a lock it holds: the first statement to a node
  waits for itself.

## 5. The proofs

TLAPS proves, for every value of the constants:

| theorem | says | assumes |
|---|---|---|
| `TypeCorrect` | `Spec => []TypeOK` (`DiskPager`) | `BoundsAssumption`, `ValueAssumption` |
| `ViewDurable` | `Spec => []ViewIsDurable` | the same |
| `DurablyAtomic` | `Spec => AtomicDurability` | the same |
| `Refinement` | `ContractSpec => ImplementsAtomicStore` | the same |
| `CatalogCoherent` | `Spec => []CatalogMatches` (`Database`) | see below |
| `Isolation` | `Spec => StatementsIsolated` | the same |
| `TriggersAreBounded` | `Spec => []TriggersEnd` | the same |
| `DatabaseTypes` | `Spec => []TypeOK` | the same |
| `PathsAgree` | `Spec /\ []CountsFit => []AccessPathsAgree` | the same, and `CountsFit` |
| `RestartsFind` | `Spec /\ []CountsFit => []RestartFinds` | the same, and `CountsFit` |
| `InsertsKeepUnique` | `Spec => UniqueKept` | the same |
| `InvariantHolds` | `Spec => []IInv` (`BPlusTree`) | the assumptions on `Order`, `Records`, `NumPages`, `None` |
| `TypeInvariant` | `Spec => []TypeOK` | the same |
| `SearchesRight` | `Spec => []SearchFindsAll` | the same |
| `RangesRight` | `Spec => []RangeFindsAll` | the same |
| `SizeRight` | `Spec => []SizeCounts` | the same |
| `RestartsKeep` | `Spec => []RestartKeeps` (`DirStore`) | `PageNumbers`, `Sentinels` |
| `PagesAreCounted` | `Spec => []PagesCounted` | the same |
| `ReadsAreCurrent` | `Spec => []ReadsCurrent` | the same |
| `CacheFollowsStore` | `LruSpec => []CacheCurrent` (`LruCache`) | `NodesAssumption`, `CapacityAssumption` |
| `OrderFollowsCache` | `LruSpec => []OrderMatches` | the same |
| `LevelsShowNewest` | `LsmSpec => []LevelsAreNewestFirst` (`LsmStore`) | `AbsentAssumption`, `MaxTablesAssumption` |
| `FlushedFilesStay` | `LsmSpec => []FlushedStays` | the same |
| `LocksExclude` | `LocksSpec => []Exclusion` (`PageLocks`) | `LockPagesAssumption`, `GuardsAssumption` |
| `LocksAreHeld` | `LocksSpec => []NoLockLeaks` | the same |
| `OnlyPutsDeadlock` | `CacheSpec => []OnlyPutDeadlocks` (`PageCacheLocks`) | `FreeAssumption`, `CachePagesAssumption` |
| `SizeCoversPages` | `CacheSpec => []SizeCovers` | the same |
| `RollbacksAreExact` | `SessionsSpec => []RollbackExact` (`Sessions`) | `NoAssumption`, `MaxSentAssumption` |
| `FullTextRowsStay` | `SessionsSpec => []FtsRowsKept` | the same |
| `ConnectionsNotShared` | `PoolSpec => []NotShared` (`Pool`) | `ConnsAssumption`, `LimitsAssumption` |
| `PoolBounded` | `PoolSpec => []Bounded` | the same |
| `ActorsTyped` | `ActorsSpec => []TypesOK` (`MCSessions`) | those of its four parts |

`Database` assumes that `None` and `Unset` are no values; that a record's field is narrower
than a `usize` and holds twice a scan's capacity, which is at least the number of keys;
that at most two empty sessions came first and left free pages; that there are finitely many
names and triggers; and what triggers and constraints are made of.

**The store's inductive invariant.** `ViewIsDurable` speaks of moments between calls and is
not inductive: it says nothing of a batch half in the log. `IInv` adds

- `LogInv`: frames are of sessions up to this one and of ids already handed out;
- `BatchInv`: the counted frames of the batch being written are exactly its pages
  not in `todo`, with its values, and none of them is committed yet;
- `CallInv`: what `call` and `batch` say of each other at each `pc`;
- `FlushInv`: during a checkpoint a page not in `todo` is in the main file;
- `ViewInv`: `ViewIsDurable` at every `pc`, save for the pages an auto-committed
  write has put in memory ahead of its commit frame (`Ahead`);
- `PreInv`: the images kept for rollback are committed copies, on pages not in `staleImage`.

With it the steps fall into kinds. Data frames go to slots no counted frame
occupies, so they change nothing of `Recovered` (`SlotSameFrames`,
`SameFramesKeep`); counting a data frame changes nothing because its transaction
has no commit frame and, with no clash of ids, no other session's commit frame
speaks for it (`DataHeaderHides`); counting the commit frame installs the batch
(`CommitHeaderShows`); cutting the log shows the main file, which by then has
every committed page (`TruncateShows`). `DurablyAtomic` and `Refinement` are
those lemmas again, for each step. The contract for the refinement excludes the
two situations of the findings, and `ContractInv` shows that it excludes `IdClash`.

**The tree.** Between two writes the stored nodes are no tree: a split has cut a node and its
parent does not know, a borrow has given a key to one sibling and not yet taken it from the other. So
`IInv` speaks of the nodes `V` as they will be when the queued writes are done and a split node is linked
to its parent (`Shows`). These are a tree (`Tree`): there are a set of pages, a height of each
and the set of keys that belong under each, such that the root alone is on top and has all keys, two pages
of one height share no key, an internal node divides its keys at its separators among children one level
down (`Branches`) and a leaf has the records of `dict` whose keys are its own (`LeafHolds`). The keys of a page
have no gaps (`Solid`), and `next_leaf` of a leaf is the leaf whose keys come next, or none after the last
(`Chained`): a split puts the new leaf in between (`ChainCut`), a merge takes one out (`ChainMerge`), a borrow moves the
border of two neighbours (`ChainShift`). Besides, `path` leads from
the root to the page changed last (`Stacked`), a page is left for each node that may still split (`Room`),
and `size` counts the records (`SizeFits`). `WriteNode` and `AddToParent` keep `V` as it is, and
so do most steps: it changes when a leaf changes (`TreeLeaf`), a node splits (`TreeSplit`, `TreeTop`), a key goes
over to a neighbour (`TreeShift`), two nodes become one (`TreeMerge`) or the root gives way (`TreeCollapse`).
Each is proved first of the sequences of keys and children of the two or three nodes it changes. That no page is
a child twice (`OneParent`) is what leaves all other nodes alone. `SearchFindsAll` follows because
the descent, which is bounded by the number of pages, reaches the leaf whose keys have the one searched
(`WayFacts`). Nothing is assumed of the order but what `new` asserts, 3 or more.

`RangeFindsAll` and `SizeCounts` follow from the chain. A scan that starts at a leaf visits leaves
whose keys follow each other (`OnChain`), so none twice (`ChainShort`) and at most as many as there are
pages; the last one has no next, so the scan has met every key that does not come before its first leaf (`ChainCovers`).
What it finds on the way is what `dict` has under these keys, in order (`ChainScanned`, an induction
along the chain by `FlattenSteps`). `range_search` starts where a search for its lower bound ends and
keeps what is not below it (`ResultsPicked`); `scan_all` starts at the leaf that no key comes
before (`Leftmost`).

**The database: catalog and trees.** `CatalogMatches` compares the maps in
memory with the records on the page `catRoot`. To be inductive it needs that this page is
not handed out a second time, as a table's tree or as the next catalog, so
`CatalogInv` adds `RootCounted` (the catalog's page is below the page count, in memory and
in the header) and the types of records; and, for a restart, that a record read from
the file is its own encoding, because its fields have a `u32`'s width by then. It does not
need the page count to be right about tables, so `CatalogCoherent` has no condition on `stale`.

`StatementsIsolated` is a property of steps: it holds because a step writes the
one page of its table's handle. So `TreesInv` says, as long as the page count was never
behind the tables, that every page a table refers to, by its handle, its cached record or its record
on file, is a counted page and not page 0 (`RootsCounted`); that two tables which were not
renamed refer to no common page (`RootsDiffer`, `SavedDiffer` between processes);
and that a handle's root is its record's (`HandlesMatch`). Only `OpenTable`, `CREATE`,
and a restart bring a new reference: the first two take the page from `alloc_page`,
which is above all counted ones, and the restart reads what `SavedDiffer` speaks of.
These two invariants say nothing of `program`: the guard `Ready` of each operation gives
that its table is open, which is `get_table`'s result in the code.

**The database: programs.** The other properties depend on what a statement has still to do, a
sequence joined from pieces, one per row and trigger. `ProgramInv` says what such a
sequence can be: its operations are well formed over some set of arguments, and none of a trigger's
body fires triggers (`Known`); what bodies added is in front of the statement's own rest
(`Prefixed`), so a body runs when none is left; and the operations that are left for bodies
weigh no more than one run of each trigger (`Weight`, in which a body's scan counts as many deletions as
there are keys), which gives `TriggersEnd`. `Undone` and `Apart` are about ROLLBACK: a table
it will shorten is open and not among those it forgets. `DataInv` adds what the statements
read: types of rows, defaults, constraints. The lemmas about `RowOps`, `InsertOps`, `BodyOps`, `DeleteOps` and
`UpdateOps` state these facts for the programs statements start with, and `FlattenFacts`
(`Queues_proofs`) says where an element of a flattened sequence came from.

**The database: counts.** `AccessPathsAgree` and `RestartFinds` both say that a count which is
kept apart from the rows is 0 only if there are none. Equality is not an invariant: a DELETE saves no
count, so after a restart a table counts more than it has. `CountInv` is that a table's
handle and its record count *at least* its rows (`HandleCounts`, `CatalogCounts`), the
record of a table with rows put but not saved excepted, and that these will be counted (`UnsavedOpen`:
they have their `save` in front of them, and their table stays open; `Planned` says so of the programs
that INSERT and bodies start with). For an UPDATE, which saves
nothing, it says that there is one more row counted than is left without those the UPDATE is still
going to take out (`Spare`), and that nothing between the deletion and the `put` touches the table
(`Clears`); this is the step at which `UpdatesItself` was found.
`CountsFit` says that no table's count reaches `RecordWidth`. Since a count that is too high stays too high,
tables that are filled, emptied and reopened for long enough do reach 2^32, whatever the
number of keys; the record is then written modulo 2^32 (`meta.rs:121`), and the
scan of a table with 2^32 counted records and some rows finds nothing. No constant rules it
out, so it is a hypothesis of the two theorems; in the instances of the run it is always true.

**The database: unique keys.** `UniqueKept` looks at the moment of a `put`; what makes it
true happened at the `check`, several operations of triggers earlier. So `UniqueInv` goes
along with the program (`PutsGuarded`): a row that an INSERT is still going to put either has its
`check` before it, or is not in the table now (`Absent`); and whatever is between its check,
or the present, and its `put` is harmless to the table (`Between`, `Unhurt`): the row's own
`fire`, or an operation of a body, which puts nothing into it as long as no
trigger of the table's inserts does (`Guarded`). A body's own INSERT carries its checks with it (`CheckedFirst`). An
UPDATE's `put` is unchecked and is not spoken of because no `save` follows it: that needs that an UPDATE is alone in
its program (`Alone`). That the `check` can see every row, although it scans, and a scan trusts the count, is
`HandleExact`: a table this process made, and only such a table has its constraints, counts exactly its rows, because it never went
through the catalog's record. So no `CountsFit` is needed here.

**The directory store's.** `RestartKeeps` compares what a replay would find with what
callers were told, while files are being cut and filled. `RestartInv` adds the types
of the maps; that outside `doubtful` the committed pages are those of the log
(`LogHolds`); that during a checkpoint every committed page that is not in `todo` any more is in its
file (`Checkpointed`); and that what callers see differs from what is safe by the
open transaction's writes only (`Callers`). A cut file does no harm because its page is
in `todo`, so committed, so in the log; emptying the log does none because by then `todo` is
empty. `PagesCounted` needs `CountInv`: `catalog.meta` equals the
count whenever no call is writing it, and both cover every page that is safe or seen by
callers with something on it. Only between an allocation and its `FillMeta` are they
apart, and the new page is blank then. `ReadsCurrent` needs `ReadInv`: a cached node is what the open
transaction or the callers made of its page (`NodesCurrent`), only counted pages are cached, so that an
allocation meets none (`NodesCounted`), and bytes are pooled or cached only of pages in `seen`. A node that `write_batch` left is told off by
`overtaken`, which `NodesCurrent` leaves out.

**Node cache and LSM store.** `LruInv` is the types, `CacheCurrent` itself (every
call that changes the store changes the cache or enters the page in `outdated`) and
`OrderMatches`: eviction takes the first of a queue without repetitions. `LsmInv`: a file gets
a number above all others, and during a flush has what was indexed so far (`Numbered`); the newest file
of a page holds what the last flush left, and memory what was written since (`Kept`); all files of
level 0 are newer than those of level 1 (`Levelled`).
The search itself is a recursion along the levels; `FirstFound` says what it returns, by
the least position at which a level has the page.

**Locks.** `LockInv` is the types with `Ledger`: a page's shared count is
the number of guards that hold it so, or less where `release_all` was called (`Covered`), and
an exclusive page has its one guard (`Agrees`). Each drop takes from both sides. It needs that there are
finitely many guards, to count them. For the byte cache, `HeldBy` says which mutexes a thread holds at each
point of a call. Outside `put` a thread that holds a mutex holds the map's, and wants another one; so
where nobody is in `put`, nobody holds what the holder of the map waits for: that is `OnlyPutsDeadlock`.
`SizeCovers` adds what is on its way, a page that is cached and not yet
queued or counted (`CacheCounted`, `CacheQueued`).

**Sessions and pool.** `RollbackExact` needs only `SharedTransaction`: what is kept is what the rows were when the
transaction opened. `FtsRowsKept` needs that at most one creator is between its look-up and
its insertion, unless two raced (`OneCreator`). For the pool: an open connection is queued once or in
one thread's hand, to use it or to close it, and not both (`Apart`); the count covers the open ones and those
that are being made, but for `uncounted` on both sides (`Counted`), which is why a thread that closes an
uncounted connection to replace it becomes uncounted itself; and the lock is held exactly while one is made
that was counted first (`LockHeld`): so when `close_all` has the lock, no counted one is being made.
Threads and connections have to be different things for this (`ConnsAssumption`).
Nothing assumes that `min_idle` is at most `max_connections`, because `pool.py` does not compare the two
and opens that many at the start; `Bounded` says what is then true. The invariants of the four parts
hold side by side (`ActorsInv`), because a step of `MCSessions` is a step of one of them.

**Induction.** The library's induction theorems take an operator and cannot be
used here; `SetInduction` (`Queues_proofs`) takes a set of naturals in its place, from
the least element of a set, and serves for the lengths of sequences.

**Only model-checked.** Liveness and ENABLED (`Answered`, `GetEnds`), which TLAPS does not reach here.
Of the B+Tree `Balanced`: it holds for even orders only, and the invariant would have to
say how full each node is at every write; nor is it proved that a merge of order 4 or more
never underflows (`NeverPanics`, which order 3 violates).
Everything that computes recursively over data: patterns, queries, dates, lexer, parser,
full text, codec. And the runs that expect a violation.

## 6. Not modelled

In modelled parts: a connection's making that never ends; an UPDATE of several rows (one key
at a time; the loop of `executor.rs:657` repeats that); trigger bodies other than `INSERT DEFAULT
VALUES`, `DELETE` and those that cannot be read again (`DROP TABLE`, `ROLLBACK`, `VACUUM`); a WITH that
fails or stands inside another: `exec_cte` keeps the tables of all of them in one cache, which it clears
at the end of any and not after an error (`executor.rs:1309`), where `Queries` gives each WITH its own;
negative and computed keys among the equations of the cases of `Queries`; `t.*`, EXPLAIN of an EXPLAIN, and
commas after the last of a list, which the parser lets pass; `put` of a page larger than a tenth of the
byte cache; the panic of the storage that unwraps a refused page lock; I/O errors, loss of power (the main file is never synced),
`needs_checkpoint` (never called), opening a tree with
a wrong order, trees deeper than a page can hold, VACUUM, attached databases,
AUTOINCREMENT (its counter is overwritten when the statement ends), indexes and
views, NOT NULL and CHECK, which look at the row alone; threads of the
directory store's parallel reads; the LSM store's level 2 (nothing moves there); EXPLAIN,
quotients of real numbers, AVG and most scalar functions; tokenizer and scores of full-text
search; handshake and JSON of the servers.

Whole components: *vector search* (distances are floating point, out of TLC's reach; a
search looks at every row), *interactive shell* and *stdio server* (one client, one
request at a time; their flush at the end is the end of a session in `Database`),
*Python client and backup* (statements one after the other), *cluster* (nothing is
reached after the lock that waits for itself), command line, web page, monitoring,
roles and helpers (front ends with little state).

## 7. Plan

Done: the single-file store with contract and proofs, the tree, the database, the
other stores and caches, the locks, the planner and executor of SELECT, lexer and parser,
dates, full text, codecs, the WebSocket server's sessions and the pool; proofs of all
stateful parts. Left, in order:

1. The tree over the store with crashes: death between the writes of a split, a borrow or
   a merge. It multiplies the two largest models, and needs a small tree of its own.
2. VACUUM: a second file and a second log in `Database`; attached databases the same.
3. AUTOINCREMENT, ADD COLUMN, views and indexes in `Database`.
4. How full the nodes of the tree are, as a part of its invariant: `Balanced` for every even order
   and `NeverPanics` for every order from 4 on.
