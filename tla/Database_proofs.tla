-------------------------- MODULE Database_proofs --------------------------
(***************************************************************************)
(* What a process knows of its tables, proved of Database for every value  *)
(* of its constants. The inductive invariants stand each on those before   *)
(* it: CatalogInv, that the copy of the catalog in memory is the one on    *)
(* file; TreesInv, that no page is the tree of two tables; DataInv, what   *)
(* the statement that runs has still to do; CountInv, that the counts are  *)
(* those of the rows, as long as a u32 holds them (CountsFit); and         *)
(* UniqueInv, that a row that passed its check is not in the table yet     *)
(* when it is put. The first two do not look at the program: whatever      *)
(* operation comes next, its guard (Ready) gives the open table it works   *)
(* on.                                                                     *)
(***************************************************************************)
EXTENDS Database, Queues_proofs, TLAPS

Handles  == [root : Pages \union {Unset}, len : 0 .. SizeWidth - 1]
Catalogs == [tables : [Names -> CatMeta \union {None}], triggers : SUBSET TriggerDefs]

\* What the catalog's records, the maps in memory and the file's header are.
CatalogType ==
    /\ cats \in [Pages -> Catalogs]
    /\ cache \in [Names -> MemMeta \union {None}]
    /\ open \in [Names -> Handles \union {None}]
    /\ trig \in SUBSET TriggerDefs
    /\ savedCount \in 0 .. NumPages /\ savedRoot \in Pages
    /\ up \in BOOLEAN
    /\ pageCount \in 0 .. NumPages
    /\ up => catRoot \in Pages

\* The catalog's page is counted, in memory and in the header.
RootCounted ==
    /\ savedRoot # 0 => savedRoot < savedCount
    /\ up => catRoot < pageCount /\ savedCount <= pageCount

CatalogInv == CatalogType /\ RootCounted /\ CatalogMatches

\* What the actions that have nothing to do with the catalog leave alone.
catalogVars == <<rows, cats, savedCount, savedRoot, up, pageCount, catRoot, cache, trig, open>>

LEMMA WidthFacts ==
    /\ NumPages \in Nat /\ RecordWidth \in Nat /\ SizeWidth \in Nat /\ RecordWidth > 0
    /\ RecordWidth < SizeWidth
    /\ EmptySessions \in 0 .. 2 /\ EmptySessions < NumPages
  BY WidthAssumption, BoundsAssumption, StartAssumption

LEMMA Remainder ==
    ASSUME NEW n \in Nat, n > 0, NEW i \in Int
    PROVE  i % n \in 0 .. n - 1 /\ (i \in 0 .. n - 1 => i % n = i)
  OBVIOUS

LEMMA EncodeType == \A m \in MemMeta : Encode(m) \in CatMeta
  BY WidthFacts, Remainder DEF MemMeta, CatMeta, Encode, Meta, Pages

LEMMA MetaIsSome == \A m \in MemMeta : m # None
  BY WidthFacts, NoneAssumption DEF MemMeta, Pages

LEMMA HandleIsSome == \A h \in Handles : h # None
  BY WidthFacts, NoneAssumption DEF Handles, Pages

LEMMA EncodeEncoded == \A m \in CatMeta : Encode(m) = m
  BY WidthFacts, Remainder, NoneAssumption DEF CatMeta, Encode, Meta, Pages

LEMMA EmptyCatalog == NoCatalog \in Catalogs /\ NoTables \in [Names -> {None}]
  <1>1. NoTables \in [Names -> {None}]
    BY DEF NoTables
  <1> QED BY <1>1 DEF NoCatalog, NoTables, Catalogs

LEMMA Persisted ==
    ASSUME NEW cs \in [Pages -> Catalogs], catRoot \in Pages, NEW t \in Names, NEW m \in MemMeta
    PROVE  /\ Persist(cs, t, m) \in [Pages -> Catalogs]
           /\ Persist(cs, t, m)[catRoot].tables = [cs[catRoot].tables EXCEPT ![t] = Encode(m)]
           /\ Persist(cs, t, m)[catRoot].triggers = cs[catRoot].triggers
  <1>1. Encode(m) \in CatMeta
    BY EncodeType
  <1> QED BY <1>1 DEF Persist, Catalogs

LEMMA CountWraps ==
    ASSUME NEW len \in Int, NEW replaced \in BOOLEAN
    PROVE  LenAfterPut(len, replaced) \in 0 .. SizeWidth - 1
  <1>1. CASE replaced = TRUE
    BY <1>1, WidthFacts, Remainder DEF LenAfterPut
  <1>2. CASE replaced = FALSE
    BY <1>2, WidthFacts, Remainder DEF LenAfterPut
  <1> QED BY <1>1, <1>2

\* There is no record to write for what is not a name.
LEMMA NotPersisted ==
    ASSUME NEW cs \in [Pages -> Catalogs], catRoot \in Pages, NEW t, t \notin Names, NEW m
    PROVE  Persist(cs, t, m) = cs
  <1> DEFINE c == cs[catRoot]
  <1>1. c = [tables |-> c.tables, triggers |-> c.triggers] /\ c.tables \in [Names -> CatMeta \union {None}]
    BY DEF Catalogs
  <1>2. [c.tables EXCEPT ![t] = Encode(m)] = c.tables
    BY <1>1
  <1>3. [c EXCEPT !.tables = [c.tables EXCEPT ![t] = Encode(m)]] = c
    BY <1>1, <1>2
  <1> QED BY <1>3 DEF Persist

\* A page and a count told to the catalog, in memory and on file.
LEMMA Told ==
    ASSUME CatalogInv, up, NEW cs \in [Pages -> Catalogs], cs[catRoot] = cats[catRoot],
           NEW t, NEW m, t \in Names => m \in MemMeta,
           cache' = [cache EXCEPT ![t] = m], cats' = Persist(cs, t, m),
           UNCHANGED <<up, catRoot, trig>>, renamed \subseteq renamed'
    PROVE  /\ cache' \in [Names -> MemMeta \union {None}]
           /\ cats' \in [Pages -> Catalogs]
           /\ CatalogMatches'
  <1> USE DEF CatalogInv
  <1>1. catRoot \in Pages /\ cache \in [Names -> MemMeta \union {None}]
    BY DEF CatalogType
  <1>2. CASE t \in Names
    <2>1. /\ Persist(cs, t, m) \in [Pages -> Catalogs]
          /\ Persist(cs, t, m)[catRoot].tables = [cs[catRoot].tables EXCEPT ![t] = Encode(m)]
          /\ Persist(cs, t, m)[catRoot].triggers = cs[catRoot].triggers
      BY <1>1, <1>2, Persisted
    <2>2. m # None
      BY <1>2, MetaIsSome
    <2>3. cs[catRoot].tables \in [Names -> CatMeta \union {None}]
      BY <1>1 DEF Catalogs
    <2>4. \A s \in Names : LET k == cats'[catRoot].tables[s]
                           IN  IF cache'[s] = None THEN k = None \/ s \in renamed' ELSE k = Encode(cache'[s])
      BY <1>1, <1>2, <2>1, <2>2, <2>3 DEF CatalogMatches
    <2> QED BY <1>1, <1>2, <2>1, <2>4 DEF CatalogMatches
  <1>3. CASE t \notin Names
    <2>1. cats' = cs /\ cache' = cache
      BY <1>1, <1>3, NotPersisted
    <2> QED BY <1>1, <2>1 DEF CatalogMatches
  <1> QED BY <1>2, <1>3

LEMMA Quiet ==
    ASSUME \/ Find \/ NoTable \/ ScanTable \/ Get \/ Check \/ Fire \/ RolledBack
           \/ BadBody \/ NoKey \/ Close \/ Shorten \/ Insert \/ Delete \/ Update \/ Select
           \/ Begin \/ Commit \/ Rollback
    PROVE  UNCHANGED <<catalogVars, renamed, stale>>
  <1> DEFINE same == UNCHANGED <<file, up, trees, cons, snap, history>>
  <1>1. ASSUME Find \/ ScanTable \/ Get \/ Fire \/ RolledBack \/ Close \/ Shorten
        PROVE  same
    <2>1. CASE Find BY <2>1 DEF Find
    <2>2. CASE ScanTable BY <2>2 DEF ScanTable
    <2>3. CASE Get BY <2>3, Zenon DEF Get
    <2>4. CASE Fire BY <2>4, Zenon DEF Fire
    <2>5. CASE RolledBack BY <2>5 DEF RolledBack
    <2>6. CASE Close BY <2>6 DEF Close
    <2>7. CASE Shorten BY <2>7, Zenon DEF Shorten
    <2> QED BY <1>1, <2>1, <2>2, <2>3, <2>4, <2>5, <2>6, <2>7
  <1>2. CASE NoTable \/ Check \/ BadBody \/ NoKey
    <2>1. same \/ Fail
      BY <1>2 DEF NoTable, Check, BadBody, NoKey
    <2>2. CASE Fail
      BY <2>2 DEF Fail, catalogVars, file, trees
    <2>3. CASE same
      BY <2>3 DEF catalogVars, file, trees, history
    <2> QED BY <2>1, <2>2, <2>3
  <1>3. CASE Insert \/ Delete \/ Update \/ Select \/ Begin \/ Commit \/ Rollback
    <2>1. Statement
      BY <1>3 DEF Insert, Delete, Update, Select, Begin, Commit, Rollback
    <2>2. \E ops : Run(ops)
      <3>1. CASE Insert BY <3>1 DEF Insert
      <3>2. CASE Delete BY <3>2 DEF Delete
      <3>3. CASE Update BY <3>3 DEF Update
      <3>4. CASE Select BY <3>4 DEF Select
      <3>5. CASE Begin BY <3>5 DEF Begin
      <3>6. CASE Commit BY <3>6 DEF Commit
      <3>7. CASE Rollback BY <3>7 DEF Rollback
      <3> QED BY <1>3, <3>1, <3>2, <3>3, <3>4, <3>5, <3>6, <3>7
    <2> QED BY <2>1, <2>2 DEF Statement, Run, catalogVars
  <1> QED BY <1>1, <1>2, <1>3 DEF catalogVars, file, trees, history

LEMMA QuietKeeps ==
    CatalogInv /\ UNCHANGED <<catalogVars, renamed>> => CatalogInv'
  BY DEF CatalogInv, CatalogType, RootCounted, CatalogMatches, catalogVars

LEMMA InitCatalogInv == Init => CatalogInv
  <1> SUFFICES ASSUME Init PROVE CatalogInv
    OBVIOUS
  <1>1. CatalogType
    <2>3. cats = [p \in Pages |-> NoCatalog] /\ cache = NoTables /\ open = NoTables
      BY DEF Init
    <2>4. /\ savedCount \in 0 .. NumPages /\ savedRoot \in Pages /\ pageCount \in 0 .. NumPages
          /\ trig = {} /\ up = FALSE
      BY WidthFacts DEF Init, Pages
    <2> QED BY <2>3, <2>4, EmptyCatalog DEF CatalogType
  <1>2. RootCounted
    BY WidthFacts DEF Init, RootCounted
  <1>3. CatalogMatches
    BY DEF Init, CatalogMatches
  <1> QED BY <1>1, <1>2, <1>3 DEF CatalogInv

\* The statements that change the catalog.
LEMMA CatalogStatements ==
    ASSUME CatalogInv,
           CreateTable \/ DropTable \/ RenameTable \/ CreateTrigger \/ DropTrigger
    PROVE  CatalogInv'
  <1> USE DEF CatalogInv
  <1>1. CASE CreateTable
    <2> DEFINE m == Meta(None, 0)
    <2> PICK t \in Names :
          /\ cache' = [cache EXCEPT ![t] = m]
          /\ cats' = Persist(cats, t, m)
      BY <1>1 DEF CreateTable
    <2>1. /\ UNCHANGED <<trig, open, renamed, savedCount, savedRoot, up, pageCount, catRoot>>
          /\ up
      BY <1>1 DEF CreateTable, Statement, Idle
    <2>2. m \in MemMeta
      BY WidthFacts DEF MemMeta, Meta
    <2> HIDE DEF m
    <2>3. /\ cache' \in [Names -> MemMeta \union {None}]
          /\ cats' \in [Pages -> Catalogs]
          /\ CatalogMatches'
      BY <2>1, <2>2, Told DEF CatalogType
    <2> QED BY <2>1, <2>3 DEF CatalogType, RootCounted
  <1>2. CASE DropTable
    <2> PICK t \in Names : cache[t] # None /\ Forget(t)
      BY <1>2 DEF DropTable
    <2>1. /\ UNCHANGED <<trig, renamed, savedCount, savedRoot, up, pageCount, catRoot>>
          /\ up
      BY <1>2 DEF DropTable, Statement, Idle
    <2>2. CatalogType'
      BY <2>1 DEF CatalogType, Catalogs, Forget
    <2>3. RootCounted'
      BY <2>1 DEF RootCounted
    <2>4. CatalogMatches'
      BY <2>1 DEF CatalogMatches, CatalogType, Catalogs, Forget
    <2> QED BY <2>2, <2>3, <2>4
  <1>3. CASE RenameTable
    <2> PICK t \in Names, u \in Names :
          /\ t # u /\ cache[t] # None
          /\ cache' = [cache EXCEPT ![t] = None, ![u] = cache[t]]
          /\ cats' = Persist(cats, u, cache[t])
          /\ renamed' = renamed \union {t, u}
      BY <1>3 DEF RenameTable
    <2>1. /\ UNCHANGED <<trig, open, savedCount, savedRoot, up, pageCount, catRoot>>
          /\ up
      BY <1>3 DEF RenameTable, Statement, Idle
    <2>2. cache[t] \in MemMeta /\ Encode(cache[t]) \in CatMeta
      BY EncodeType DEF CatalogType
    <2>3. CatalogType'
      BY <2>1, <2>2, Persisted DEF CatalogType
    <2>4. /\ cats'[catRoot].tables = [cats[catRoot].tables EXCEPT ![u] = Encode(cache[t])]
          /\ cats'[catRoot].triggers = cats[catRoot].triggers
          /\ cats[catRoot].tables \in [Names -> CatMeta \union {None}]
      BY <2>1, <2>2, Persisted DEF CatalogType, Catalogs
    <2>5. CatalogMatches'
      BY <2>1, <2>2, <2>4 DEF CatalogMatches, CatalogType
    <2> QED BY <2>1, <2>3, <2>5 DEF RootCounted
  <1>4. CASE CreateTrigger
    <2> PICK g \in TriggerDefs :
          /\ trig' = trig \union {g}
          /\ cats' = [cats EXCEPT ![catRoot].triggers = @ \union {g}]
      BY <1>4 DEF CreateTrigger
    <2>1. /\ UNCHANGED <<cache, open, renamed, savedCount, savedRoot, up, pageCount, catRoot>>
          /\ up
      BY <1>4 DEF CreateTrigger, Statement, Idle
    <2> QED BY <2>1 DEF CatalogType, Catalogs, RootCounted, CatalogMatches
  <1>5. CASE DropTrigger
    <2> PICK g \in trig :
          /\ trig' = trig \ {g}
          /\ cats' = [cats EXCEPT ![catRoot].triggers = @ \ {g}]
      BY <1>5 DEF DropTrigger
    <2>1. /\ UNCHANGED <<cache, open, renamed, savedCount, savedRoot, up, pageCount, catRoot>>
          /\ up
      BY <1>5 DEF DropTrigger, Statement, Idle
    <2> QED BY <2>1 DEF CatalogType, Catalogs, RootCounted, CatalogMatches
  <1> QED BY <1>1, <1>2, <1>3, <1>4, <1>5

\* A row is put or deleted: a page and a count of the table change, no more.
LEMMA CountStep ==
    ASSUME CatalogType, Put \/ Del
    PROVE  LET t == Head(program).table
           IN  /\ up /\ t \in OpenTables
               /\ \E n \in 0 .. SizeWidth - 1 : open' = [open EXCEPT ![t].len = n]
               /\ \E f : rows' = [rows EXCEPT ![Page(open[t].root)] = f]
               /\ UNCHANGED <<cats, savedCount, savedRoot, up, pageCount, catRoot, cache, trig,
                              renamed, stale>>
  <1> DEFINE t == Head(program).table
             present == rows[Page(open[t].root)][Head(program).arg.key] # None
  <1>1. up /\ t \in OpenTables
    <2>1. Ready("put") \/ Ready("del")
      BY Zenon DEF Put, Del
    <2>2. up /\ Needs(Head(program)) = {t} /\ Needs(Head(program)) \subseteq OpenTables
      BY <2>1 DEF Ready, Running, Needs
    <2> QED BY <2>2
  <1>2. open[t].len \in 0 .. SizeWidth - 1 /\ open[t].len \in Int
    BY <1>1, WidthFacts DEF OpenTables, CatalogType, Handles
  <1>3. CASE Put
    <2>1. open' = [open EXCEPT ![t].len = LenAfterPut(open[t].len, present)]
      BY <1>3 DEF Put
    <2>2. LenAfterPut(open[t].len, present) \in 0 .. SizeWidth - 1
      BY <1>2, CountWraps, Zenon
    <2>3. \E n \in 0 .. SizeWidth - 1 : open' = [open EXCEPT ![t].len = n]
      BY <2>1, <2>2, Zenon
    <2>4. \E f : rows' = [rows EXCEPT ![Page(open[t].root)] = f]
      BY <1>3 DEF Put
    <2>5. UNCHANGED <<cats, savedCount, savedRoot, up, pageCount, catRoot, cache, trig,
                      renamed, stale>>
      BY <1>3 DEF Put
    <2> QED BY <1>1, <2>4, <2>5, <2>3, Zenon
  <1>4. CASE Del
    <2>1. \/ open' = [open EXCEPT ![t].len = (open[t].len - 1) % SizeWidth]
          \/ open' = [open EXCEPT ![t].len = open[t].len]
      BY <1>4, Zenon DEF Del
    <2>2. (open[t].len - 1) % SizeWidth \in 0 .. SizeWidth - 1
      BY <1>2, WidthFacts, Remainder
    <2>3. \E n \in 0 .. SizeWidth - 1 : open' = [open EXCEPT ![t].len = n]
      BY <1>2, <2>1, <2>2, Zenon
    <2>4. \E f : rows' = [rows EXCEPT ![Page(open[t].root)] = f]
      BY <1>4 DEF Del
    <2>5. UNCHANGED <<cats, savedCount, savedRoot, up, pageCount, catRoot, cache, trig,
                      renamed, stale>>
      BY <1>4 DEF Del, history
    <2> QED BY <1>1, <2>4, <2>5, <2>3, Zenon
  <1> QED BY <1>3, <1>4, Zenon

\* The operations of a statement that change the catalog, a handle or the header.
LEMMA CatalogOperations ==
    ASSUME CatalogInv,
           OpenTable \/ Put \/ Del \/ Save \/ ForgetTable \/ Flush \/ SetCatalogRoot
    PROVE  CatalogInv'
  <1> USE DEF CatalogInv
  <1>1. CASE OpenTable
    <2> PICK t \in Needs(Head(program)) :
          /\ open[t] = None /\ cache[t] # None
          /\ IF cache[t].root # None
             THEN /\ open' = [open EXCEPT ![t] = [root |-> cache[t].root, len |-> cache[t].count]]
                  /\ UNCHANGED <<rows, cats, pageCount, cache>>
             ELSE /\ NewTree
                  /\ open' = [open EXCEPT ![t] = [root |-> pageCount, len |-> 0]]
                  /\ cache' = [cache EXCEPT ![t] = Meta(pageCount, 0)]
                  /\ cats' = Persist([cats EXCEPT ![pageCount] = NoCatalog],
                                     t, Meta(pageCount, 0))
      BY <1>1 DEF OpenTable
    <2>1. /\ UNCHANGED <<trig, renamed, savedCount, savedRoot, up, catRoot>>
          /\ up /\ open[t] = None /\ cache[t] # None
      BY <1>1 DEF OpenTable
    <2>2. CASE cache[t].root # None
      <3>1. /\ open' = [open EXCEPT ![t] = [root |-> cache[t].root, len |-> cache[t].count]]
            /\ UNCHANGED <<cats, pageCount, cache>>
        BY <2>2
      <3>2. t \in Names => open'[t] \in Handles
        BY <2>1, <2>2, <3>1 DEF CatalogType, MemMeta, Handles
      <3>3. CatalogType'
        BY <2>1, <3>1, <3>2 DEF CatalogType
      <3> QED BY <2>1, <3>1, <3>3 DEF RootCounted, CatalogMatches
    <2>3. CASE cache[t].root = None
      <3>1. /\ NewTree
            /\ open' = [open EXCEPT ![t] = [root |-> pageCount, len |-> 0]]
            /\ cache' = [cache EXCEPT ![t] = Meta(pageCount, 0)]
            /\ cats' = Persist([cats EXCEPT ![pageCount] = NoCatalog], t, Meta(pageCount, 0))
        BY <2>3
      <3>2. pageCount \in Pages /\ pageCount' = pageCount + 1 /\ pageCount # catRoot
        BY <3>1, <2>1, WidthFacts DEF NewTree, CatalogType, RootCounted, Pages
      <3> DEFINE m  == Meta(pageCount, 0)
                 cs == [cats EXCEPT ![pageCount] = NoCatalog]
      <3>3. /\ m \in MemMeta
            /\ [root |-> pageCount, len |-> 0] \in Handles
        BY <3>2, WidthFacts DEF MemMeta, Meta, Pages, Handles
      <3>4. cs \in [Pages -> Catalogs] /\ cs[catRoot] = cats[catRoot]
        BY <3>2, EmptyCatalog, <2>1 DEF CatalogType
      <3>5. cache' = [cache EXCEPT ![t] = m] /\ cats' = Persist(cs, t, m)
        BY <3>1
      <3> HIDE DEF m, cs
      <3>6. /\ cache' \in [Names -> MemMeta \union {None}]
            /\ cats' \in [Pages -> Catalogs]
            /\ CatalogMatches'
        BY <2>1, <3>3, <3>4, <3>5, Told
      <3>7. pageCount' \in 0 .. NumPages /\ RootCounted'
        BY <2>1, <3>2, WidthFacts DEF RootCounted, CatalogType, Pages
      <3>8. open' \in [Names -> Handles \union {None}]
        BY <3>1, <3>3 DEF CatalogType
      <3> QED BY <2>1, <3>6, <3>7, <3>8 DEF CatalogType
    <2> QED BY <2>2, <2>3
  <1>2. CASE Put \/ Del
    <2>1. UNCHANGED <<cats, savedCount, savedRoot, up, pageCount, catRoot, cache, trig, renamed>>
      BY <1>2, CountStep
    <2>2. \E t \in Names, n \in 0 .. SizeWidth - 1 :
            open[t] # None /\ open' = [open EXCEPT ![t].len = n]
      BY <1>2, CountStep DEF OpenTables
    <2>3. open' \in [Names -> Handles \union {None}]
      BY <2>2 DEF CatalogType, Handles
    <2> QED BY <2>1, <2>3 DEF CatalogType, RootCounted, CatalogMatches
  <1>3. CASE Save
    <2> DEFINE t == Head(program).table
               m == CountRows(t)
    <2>1. /\ UNCHANGED <<savedCount, savedRoot, up, pageCount, catRoot, trig, open, renamed>>
          /\ cache[t] # None /\ open[t] # None
          /\ cache' = [cache EXCEPT ![t] = m]
          /\ cats' = Persist(cats, t, m)
          /\ up
      BY <1>3 DEF Save, SaveMeta, Running
    <2>2. t \in Names => m \in MemMeta
      BY <2>1 DEF CatalogType, CountRows, Meta, MemMeta, Handles
    <2> HIDE DEF m
    <2>3. /\ cache' \in [Names -> MemMeta \union {None}]
          /\ cats' \in [Pages -> Catalogs]
          /\ CatalogMatches'
      BY <2>1, <2>2, Told DEF CatalogType
    <2> QED BY <2>1, <2>3 DEF CatalogType, RootCounted
  <1>4. CASE ForgetTable
    <2> DEFINE t == Head(program).table
    <2>1. /\ UNCHANGED <<savedCount, savedRoot, up, pageCount, catRoot, trig, renamed>>
          /\ Forget(t) /\ up
      BY <1>4 DEF ForgetTable, Running
    <2>2. CatalogType'
      BY <2>1 DEF CatalogType, Catalogs, Forget
    <2>3. CatalogMatches'
      BY <2>1 DEF CatalogMatches, CatalogType, Catalogs, Forget
    <2> QED BY <2>1, <2>2, <2>3 DEF RootCounted
  <1>5. CASE Flush
    <2>1. /\ savedCount' = pageCount /\ up
          /\ UNCHANGED <<cats, savedRoot, up, pageCount, catRoot, cache, trig, open, renamed>>
      BY <1>5 DEF Flush, Running, trees, history
    <2>2. RootCounted'
      BY <2>1, WidthFacts DEF RootCounted, CatalogType, Pages
    <2> QED BY <2>1, <2>2 DEF CatalogType, CatalogMatches
  <1>6. CASE SetCatalogRoot
    <2>1. /\ savedRoot' = catRoot /\ savedCount' = pageCount /\ up
          /\ UNCHANGED <<cats, up, pageCount, catRoot, cache, trig, open, renamed>>
      BY <1>6 DEF SetCatalogRoot, Running, trees, history
    <2>2. RootCounted'
      BY <2>1, WidthFacts DEF RootCounted, CatalogType, Pages
    <2> QED BY <2>1, <2>2 DEF CatalogType, CatalogMatches
  <1> QED BY <1>1, <1>2, <1>3, <1>4, <1>5, <1>6

\* The end of a process, and the next one.
LEMMA CatalogProcess ==
    ASSUME CatalogInv,
           Exit \/ Crash \/ DelPanics \/ Overflow \/ Open
    PROVE  CatalogInv'
  <1> USE DEF CatalogInv
  <1>1. CASE NoProcess
    <2>1. /\ UNCHANGED <<cats, savedCount, savedRoot, renamed>>
          /\ up' = FALSE /\ pageCount' = 0 /\ cache' = NoTables /\ open' = NoTables /\ trig' = {}
      BY <1>1 DEF NoProcess
    <2>2. /\ cache' \in [Names -> MemMeta \union {None}]
          /\ open' \in [Names -> Handles \union {None}]
      BY <2>1 DEF NoTables
    <2>3. cats' \in [Pages -> Catalogs] /\ savedCount' \in 0 .. NumPages /\ savedRoot' \in Pages
      BY <2>1 DEF CatalogType
    <2>4. pageCount' \in 0 .. NumPages
      BY <2>1, WidthFacts
    <2>5. trig' \in SUBSET TriggerDefs /\ up' \in BOOLEAN /\ (up' => catRoot' \in Pages)
      BY <2>1, Zenon
    <2>6. CatalogType'
      BY <2>2, <2>3, <2>4, <2>5 DEF CatalogType
    <2> QED BY <2>1, <2>3, <2>6 DEF RootCounted, CatalogMatches, CatalogType
  <1>2. CASE Open
    <2>1. UNCHANGED <<savedCount, savedRoot, open, renamed>> /\ up' = TRUE /\ ~up
      BY <1>2 DEF Open
    <2>2. CASE savedRoot = 0
      <3>1. /\ savedCount < NumPages /\ catRoot' = savedCount /\ pageCount' = savedCount + 1
            /\ cats' = [cats EXCEPT ![savedCount] = NoCatalog]
            /\ cache' = NoTables /\ trig' = {}
        BY <1>2, <2>2 DEF Open
      <3>2. CatalogType'
        BY <2>1, <3>1, WidthFacts, EmptyCatalog DEF CatalogType, Pages
      <3>3. RootCounted'
        BY <2>1, <2>2, <3>1, WidthFacts DEF CatalogType, RootCounted
      <3>4. CatalogMatches'
        BY <2>1, <3>1, WidthFacts DEF CatalogType, CatalogMatches, NoCatalog, NoTables, Pages
      <3> QED BY <3>2, <3>3, <3>4
    <2>3. CASE savedRoot # 0
      <3>1. /\ catRoot' = savedRoot /\ pageCount' = savedCount
            /\ cache' = cats[savedRoot].tables /\ trig' = cats[savedRoot].triggers
            /\ UNCHANGED cats
        BY <1>2, <2>3 DEF Open
      <3>2. CatMeta \subseteq MemMeta
        BY WidthFacts DEF CatMeta, MemMeta
      <3>3. CatalogType'
        BY <2>1, <3>1, <3>2 DEF CatalogType, Catalogs
      <3>4. RootCounted'
        BY <2>1, <2>3, <3>1, WidthFacts DEF CatalogType, RootCounted, Pages
      <3>5. CatalogMatches'
        BY <2>1, <3>1, EncodeEncoded DEF CatalogType, Catalogs, CatalogMatches
      <3> QED BY <3>3, <3>4, <3>5
    <2> QED BY <2>2, <2>3
  <1> QED BY <1>1, <1>2 DEF Exit, Crash, DelPanics, Overflow

LEMMA NextCatalogInv == CatalogInv /\ [Next]_vars => CatalogInv'
  <1> SUFFICES ASSUME CatalogInv, [Next]_vars PROVE CatalogInv'
    OBVIOUS
  <1>1. CASE UNCHANGED vars
    BY <1>1, QuietKeeps DEF vars, file, trees, history, catalogVars
  <1>2. CASE Next
    BY <1>2, Quiet, QuietKeeps, CatalogStatements, CatalogOperations, CatalogProcess
    DEF Next, Continue
  <1> QED BY <1>1, <1>2

\* The catalog in memory is at every moment the catalog on file, whatever the
\* tables, keys, triggers and widths are, through crashes and restarts.
THEOREM CatalogCoherent == Spec => []CatalogMatches
  <1>1. CatalogInv => CatalogMatches
    BY DEF CatalogInv
  <1> QED BY <1>1, InitCatalogInv, NextCatalogInv, PTL DEF Spec
---------------------------------------------------------------------------
\* Is p the tree of table t, for a handle, for the catalog in memory or on file?
RefersTo(t, p) ==
    \/ open[t] # None /\ open[t].root = p
    \/ cache[t] # None /\ cache[t].root = p
    \/ cats[catRoot].tables[t] # None /\ cats[catRoot].tables[t].root = p

SavedRefersTo(t, p) ==
    cats[savedRoot].tables[t] # None /\ cats[savedRoot].tables[t].root = p

\* The page of every tree is counted, and is not page 0.
RootsCounted == \A t \in Names, p \in Pages : RefersTo(t, p) => p \in 1 .. pageCount - 1

\* No other table has the tree of a table.
RootsDiffer ==
    \A t \in Names \ renamed, u \in Names, p \in Pages :
        RefersTo(t, p) /\ RefersTo(u, p) => t = u

\* The handle of a table has the root the catalog has.
HandlesMatch ==
    \A t \in Names \ renamed :
        open[t] # None => cache[t] # None /\ cache[t].root = open[t].root

SavedDiffer ==
    savedRoot # 0 =>
      /\ \A t \in Names, p \in Pages : SavedRefersTo(t, p) => p >= 1
      /\ \A t \in Names \ renamed, u \in Names, p \in Pages :
            SavedRefersTo(t, p) /\ SavedRefersTo(u, p) => t = u

TreesInv ==
    ~stale =>
      /\ up => /\ RootsCounted /\ RootsDiffer /\ HandlesMatch
               /\ savedRoot # 0 => catRoot = savedRoot
      /\ ~up => open = NoTables /\ SavedDiffer

LEMMA PageNotSymbol == \A p \in Pages : p # None /\ p # Unset /\ p \in Int
  BY NoneAssumption, WidthFacts DEF Pages

\* What the catalog keeps of a page is the page.
LEMMA EncodedRoot ==
    \A m \in MemMeta, p \in Pages : Encode(m).root = p <=> m.root = p
  BY PageNotSymbol DEF Encode, Meta, MemMeta

\* Steps after which no table refers to a page it did not refer to before.
LEMMA RefsKept ==
    ASSUME RootsCounted, RootsDiffer, pageCount \in Nat, pageCount' \in Nat, pageCount <= pageCount',
           renamed \subseteq renamed',
           \A t \in Names, p \in Pages : RefersTo(t, p)' => RefersTo(t, p)
    PROVE  RootsCounted' /\ RootsDiffer'
  <1> HIDE DEF RefersTo
  <1>1. RootsCounted'
    BY DEF RootsCounted
  <1>2. RootsDiffer'
    BY DEF RootsDiffer
  <1> QED BY <1>1, <1>2

LEMMA InitTreesInv == Init => TreesInv
  <1> SUFFICES ASSUME Init PROVE TreesInv
    OBVIOUS
  <1>1. up = FALSE /\ open = NoTables /\ cats = [p \in Pages |-> NoCatalog] /\ savedRoot \in Pages
    BY WidthFacts DEF Init, Pages
  <1>2. \A t \in Names : cats[savedRoot].tables[t] = None
    BY <1>1 DEF NoCatalog, NoTables
  <1>3. SavedDiffer
    BY <1>2 DEF SavedDiffer, SavedRefersTo
  <1> QED BY <1>1, <1>3 DEF TreesInv

LEMMA QuietTrees ==
    CatalogInv /\ TreesInv /\ UNCHANGED <<catalogVars, renamed, stale>> => TreesInv'
  BY DEF TreesInv, RootsCounted, RootsDiffer, HandlesMatch, SavedDiffer, RefersTo, SavedRefersTo,
         catalogVars

\* A handle's count changes.
LEMMA CountTrees ==
    ASSUME CatalogInv, TreesInv, Put \/ Del
    PROVE  TreesInv'
  <1> DEFINE t == Head(program).table
  <1>1. /\ up /\ t \in Names /\ open[t] # None
        /\ UNCHANGED <<cats, savedCount, savedRoot, up, pageCount, catRoot, cache, renamed, stale>>
    BY CountStep DEF CatalogInv, OpenTables
  <1>2. PICK n \in 0 .. SizeWidth - 1 : open' = [open EXCEPT ![t].len = n]
    BY CountStep DEF CatalogInv
  <1>3. open \in [Names -> Handles \union {None}]
    BY DEF CatalogInv, CatalogType
  <1>4. \A u \in Names : /\ open'[u] = None <=> open[u] = None
                         /\ open[u] # None => open'[u].root = open[u].root
    <2> TAKE u \in Names
    <2>1. CASE u = t
      <3>1. open[u] \in Handles /\ open'[u] \in Handles /\ open'[u].root = open[u].root
        BY <1>1, <1>2, <1>3, <2>1 DEF Handles
      <3> QED BY <3>1, HandleIsSome
    <2>2. CASE u # t
      BY <1>2, <1>3, <2>2
    <2> QED BY <2>1, <2>2
  <1>5. \A u \in Names, p \in Pages : RefersTo(u, p)' <=> RefersTo(u, p)
    BY <1>1, <1>4 DEF RefersTo
  <1>6. ~stale => RootsCounted' /\ RootsDiffer'
    BY <1>1, <1>5, RefsKept, WidthFacts DEF TreesInv, CatalogInv, CatalogType
  <1>7. ~stale => HandlesMatch'
    BY <1>1, <1>4 DEF TreesInv, HandlesMatch
  <1> QED BY <1>1, <1>6, <1>7 DEF TreesInv

\* A table is told to the catalog with a root that was its handle's, or none.
LEMMA ToldRefs ==
    ASSUME CatalogInv, up, NEW t \in Names, NEW m \in MemMeta,
           \/ m.root \notin Pages
           \/ open[t] # None /\ open[t].root = m.root
           \/ cache[t] # None /\ cache[t].root = m.root,
           cache' = [cache EXCEPT ![t] = m], cats' = Persist(cats, t, m),
           UNCHANGED <<open, catRoot>>
    PROVE  \A u \in Names, p \in Pages : RefersTo(u, p)' => RefersTo(u, p)
  <1>1. /\ catRoot \in Pages /\ cats \in [Pages -> Catalogs]
        /\ cache \in [Names -> MemMeta \union {None}]
    BY DEF CatalogInv, CatalogType
  <1>2. cats'[catRoot].tables = [cats[catRoot].tables EXCEPT ![t] = Encode(m)]
    BY <1>1, Persisted
  <1>3. cats[catRoot].tables \in [Names -> CatMeta \union {None}]
    BY <1>1 DEF Catalogs
  <1> SUFFICES ASSUME NEW u \in Names, NEW p \in Pages, RefersTo(u, p)' PROVE RefersTo(u, p)
    OBVIOUS
  <1>4. CASE u # t
    BY <1>1, <1>2, <1>3, <1>4 DEF RefersTo
  <1>5. CASE u = t
    <2>1. cache'[u] = m /\ cats'[catRoot].tables[u] = Encode(m)
      BY <1>1, <1>2, <1>3, <1>5
    <2>2. (open[u] # None /\ open[u].root = p) \/ m.root = p
      BY <2>1, EncodedRoot DEF RefersTo
    <2> QED BY <1>5, <2>2 DEF RefersTo
  <1> QED BY <1>4, <1>5

LEMMA StatementTrees ==
    ASSUME CatalogInv, TreesInv, ~stale, CreateTable \/ CreateTrigger \/ DropTrigger
    PROVE  TreesInv'
  <1>1. /\ up /\ UNCHANGED <<up, open, catRoot, savedRoot, pageCount, renamed>>
    BY DEF CreateTable, CreateTrigger, DropTrigger, Statement, Idle
  <1>2. /\ \A u \in Names, p \in Pages : RefersTo(u, p)' => RefersTo(u, p)
        /\ HandlesMatch'
    <2>1. CASE CreateTable
      <3> DEFINE m == Meta(None, 0)
      <3> PICK t \in Names :
            cache[t] = None /\ cache' = [cache EXCEPT ![t] = m] /\ cats' = Persist(cats, t, m)
        BY <2>1 DEF CreateTable
      <3>1. m \in MemMeta /\ m.root \notin Pages
        BY WidthFacts, PageNotSymbol DEF MemMeta, Meta
      <3> HIDE DEF m
      <3>2. \A u \in Names, p \in Pages : RefersTo(u, p)' => RefersTo(u, p)
        BY <1>1, <3>1, ToldRefs
      <3>3. HandlesMatch'
        BY <1>1 DEF HandlesMatch, TreesInv, CatalogInv, CatalogType
      <3> QED BY <3>2, <3>3
    <2>2. CASE CreateTrigger \/ DropTrigger
      <3>1. cache' = cache /\ \E S : cats' = [cats EXCEPT ![catRoot].triggers = S]
        BY <2>2 DEF CreateTrigger, DropTrigger
      <3>2. cats'[catRoot].tables = cats[catRoot].tables
        BY <1>1, <3>1 DEF CatalogInv, CatalogType, Catalogs
      <3> QED BY <1>1, <3>1, <3>2 DEF RefersTo, HandlesMatch, TreesInv
    <2> QED BY <2>1, <2>2
  <1>3. RootsCounted' /\ RootsDiffer'
    BY <1>1, <1>2, RefsKept, WidthFacts DEF TreesInv, CatalogInv, CatalogType
  <1> QED BY <1>1, <1>2, <1>3 DEF TreesInv

LEMMA ForgetTrees ==
    ASSUME CatalogInv, TreesInv, ~stale, up, NEW t, Forget(t),
           UNCHANGED <<up, catRoot, savedRoot, pageCount, renamed>>
    PROVE  TreesInv'
  <1>1. /\ catRoot \in Pages /\ cats \in [Pages -> Catalogs]
        /\ cache \in [Names -> MemMeta \union {None}] /\ open \in [Names -> Handles \union {None}]
    BY DEF CatalogInv, CatalogType
  <1>2. cats[catRoot].tables \in [Names -> CatMeta \union {None}]
    BY <1>1 DEF Catalogs
  <1>3. \A u \in Names : \/ cats'[catRoot].tables[u] = None
                         \/ cats'[catRoot].tables[u] = cats[catRoot].tables[u]
    BY <1>1, <1>2 DEF Forget, Catalogs
  <1>4. \A u \in Names, p \in Pages : RefersTo(u, p)' => RefersTo(u, p)
    BY <1>1, <1>3 DEF RefersTo, Forget
  <1>5. HandlesMatch'
    BY <1>1 DEF HandlesMatch, TreesInv, Forget
  <1>6. RootsCounted' /\ RootsDiffer'
    BY <1>4, RefsKept, WidthFacts DEF TreesInv, CatalogInv, CatalogType
  <1> QED BY <1>5, <1>6 DEF TreesInv

LEMMA RenameTrees ==
    ASSUME CatalogInv, TreesInv, ~stale, RenameTable
    PROVE  TreesInv'
  <1> PICK t \in Names, u \in Names :
        /\ t # u /\ cache[t] # None
        /\ cache' = [cache EXCEPT ![t] = None, ![u] = cache[t]]
        /\ cats' = Persist(cats, u, cache[t])
        /\ renamed' = renamed \union {t, u}
    BY DEF RenameTable
  <1>1. /\ up /\ UNCHANGED <<up, open, catRoot, savedRoot, pageCount>>
        /\ catRoot \in Pages /\ cats \in [Pages -> Catalogs]
        /\ cache \in [Names -> MemMeta \union {None}]
    BY DEF RenameTable, Statement, Idle, CatalogInv, CatalogType
  <1>2. cats'[catRoot].tables = [cats[catRoot].tables EXCEPT ![u] = Encode(cache[t])]
    BY <1>1, Persisted
  <1>3. cats[catRoot].tables \in [Names -> CatMeta \union {None}]
    BY <1>1 DEF Catalogs
  <1>4. \A s \in Names \ {u}, p \in Pages : RefersTo(s, p)' => RefersTo(s, p)
    BY <1>1, <1>2, <1>3 DEF RefersTo
  <1>5. \A p \in Pages : RefersTo(u, p)' => RefersTo(u, p) \/ RefersTo(t, p)
    <2> TAKE p \in Pages
    <2>1. Encode(cache[t]).root = p => cache[t].root = p
      BY <1>1, EncodedRoot
    <2> QED BY <1>1, <1>2, <1>3, <2>1 DEF RefersTo
  <1> HIDE DEF RefersTo
  <1>6. RootsCounted'
    BY <1>1, <1>4, <1>5 DEF RootsCounted, TreesInv
  <1>7. RootsDiffer'
    <2>1. RootsDiffer
      BY <1>1 DEF TreesInv
    <2> SUFFICES ASSUME NEW s \in Names \ renamed', NEW q \in Names, NEW p \in Pages,
                        RefersTo(s, p)', RefersTo(q, p)'
                 PROVE  s = q
      BY DEF RootsDiffer
    <2>2. s \notin renamed /\ s # t /\ s # u /\ RefersTo(s, p)
      BY <1>4
    <2>3. RefersTo(q, p) \/ (q = u /\ RefersTo(t, p))
      BY <1>4, <1>5
    <2> QED BY <2>1, <2>2, <2>3 DEF RootsDiffer
  <1>8. HandlesMatch'
    BY <1>1 DEF HandlesMatch, TreesInv
  <1> QED BY <1>1, <1>6, <1>7, <1>8 DEF TreesInv

LEMMA SaveTrees ==
    ASSUME CatalogInv, TreesInv, ~stale, Save
    PROVE  TreesInv'
  <1> DEFINE t == Head(program).table
             m == CountRows(t)
  <1>1. /\ up /\ UNCHANGED <<up, open, catRoot, savedRoot, pageCount, renamed>>
        /\ open[t] # None /\ m.root = open[t].root
        /\ cache' = [cache EXCEPT ![t] = m] /\ cats' = Persist(cats, t, m)
    BY DEF Save, SaveMeta, Running, CountRows, Meta
  <1>2. /\ catRoot \in Pages /\ cats \in [Pages -> Catalogs]
        /\ cache \in [Names -> MemMeta \union {None}]
    BY <1>1 DEF CatalogInv, CatalogType
  <1>3. t \in Names => m \in MemMeta
    BY <1>1 DEF CatalogInv, CatalogType, CountRows, Meta, MemMeta, Handles
  <1> HIDE DEF m
  <1>4. \A u \in Names, p \in Pages : RefersTo(u, p)' => RefersTo(u, p)
    <2>1. CASE t \in Names
      BY <1>1, <1>3, <2>1, ToldRefs
    <2>2. CASE t \notin Names
      <3>1. cats' = cats /\ cache' = cache
        BY <1>1, <1>2, <2>2, NotPersisted
      <3> QED BY <1>1, <3>1 DEF RefersTo
    <2> QED BY <2>1, <2>2
  <1>5. HandlesMatch'
    BY <1>1, <1>2, <1>3, MetaIsSome DEF HandlesMatch, TreesInv
  <1>6. RootsCounted' /\ RootsDiffer'
    BY <1>1, <1>4, RefsKept, WidthFacts DEF TreesInv, CatalogInv, CatalogType
  <1> QED BY <1>1, <1>5, <1>6 DEF TreesInv

\* A table that has a tree is opened.
LEMMA OpenOldTrees ==
    ASSUME CatalogInv, TreesInv, ~stale, up, NEW t, cache[t] # None,
           open' = [open EXCEPT ![t] = [root |-> cache[t].root, len |-> cache[t].count]],
           UNCHANGED <<cats, up, catRoot, cache, savedRoot, pageCount, renamed>>
    PROVE  TreesInv'
  <1>1. open \in [Names -> Handles \union {None}]
    BY DEF CatalogInv, CatalogType
  <1>2. \A u \in Names, p \in Pages : RefersTo(u, p)' => RefersTo(u, p)
    <2> SUFFICES ASSUME NEW u \in Names, NEW p \in Pages, RefersTo(u, p)' PROVE RefersTo(u, p)
      OBVIOUS
    <2>1. CASE u = t
      BY <1>1, <2>1 DEF RefersTo
    <2>2. CASE u # t
      BY <1>1, <2>2 DEF RefersTo
    <2> QED BY <2>1, <2>2
  <1>3. HandlesMatch'
    BY <1>1 DEF HandlesMatch, TreesInv
  <1>4. RootsCounted' /\ RootsDiffer'
    BY <1>2, RefsKept, WidthFacts DEF TreesInv, CatalogInv, CatalogType
  <1> QED BY <1>3, <1>4 DEF TreesInv

\* A table gets its tree, on a page no table refers to.
LEMMA OpenNewTrees ==
    ASSUME CatalogInv, TreesInv, ~stale, up, NEW t, cache[t] # None, cache[t].root = None,
           open[t] = None, pageCount < NumPages, pageCount' = pageCount + 1,
           open' = [open EXCEPT ![t] = [root |-> pageCount, len |-> 0]],
           cache' = [cache EXCEPT ![t] = Meta(pageCount, 0)],
           cats' = Persist([cats EXCEPT ![pageCount] = NoCatalog], t, Meta(pageCount, 0)),
           UNCHANGED <<up, catRoot, savedRoot, renamed>>
    PROVE  TreesInv'
  <1> DEFINE m  == Meta(pageCount, 0)
             cs == [cats EXCEPT ![pageCount] = NoCatalog]
  <1>1. /\ catRoot \in Pages /\ cats \in [Pages -> Catalogs]
        /\ cache \in [Names -> MemMeta \union {None}] /\ open \in [Names -> Handles \union {None}]
        /\ pageCount \in Pages /\ catRoot < pageCount /\ pageCount >= 1
        /\ pageCount' = pageCount + 1
    BY WidthFacts DEF CatalogInv, CatalogType, RootCounted, Pages
  <1>2. m \in MemMeta /\ m.root = pageCount
    BY <1>1, WidthFacts DEF Meta, MemMeta, Pages
  <1>3. cs \in [Pages -> Catalogs] /\ cs[catRoot] = cats[catRoot]
    BY <1>1, EmptyCatalog DEF Pages
  <1>4. cache' = [cache EXCEPT ![t] = m] /\ cats' = Persist(cs, t, m)
    OBVIOUS
  <1>5. cats[catRoot].tables \in [Names -> CatMeta \union {None}]
    BY <1>1 DEF Catalogs
  <1> HIDE DEF m, cs
  <1>6. CASE t \in Names
    <2>1. cats'[catRoot].tables = [cats[catRoot].tables EXCEPT ![t] = Encode(m)]
      <3>1. Persist(cs, t, m)[catRoot].tables = [cs[catRoot].tables EXCEPT ![t] = Encode(m)]
        BY <1>1, <1>2, <1>3, <1>6, Persisted
      <3> QED BY <1>3, <1>4, <3>1
    <2>2. \A u \in Names \ {t}, p \in Pages : RefersTo(u, p)' => RefersTo(u, p)
      BY <1>1, <1>4, <1>5, <2>1 DEF RefersTo
    <2>3. \A p \in Pages : RefersTo(t, p)' => p = pageCount
      <3> TAKE p \in Pages
      <3>1. Encode(m).root = p => p = pageCount
        BY <1>2, EncodedRoot
      <3> QED BY <1>1, <1>2, <1>4, <1>5, <1>6, <2>1, <3>1 DEF RefersTo
    <2>4. \A u \in Names, p \in Pages : RefersTo(u, p) => p \in 1 .. pageCount - 1
      BY DEF TreesInv, RootsCounted
    <2> HIDE DEF RefersTo
    <2>5. RootsCounted'
      <3> SUFFICES ASSUME NEW u \in Names, NEW p \in Pages, RefersTo(u, p)'
                   PROVE  p \in 1 .. pageCount' - 1
        BY DEF RootsCounted
      <3>1. p \in 1 .. pageCount - 1 \/ p = pageCount
        BY <2>2, <2>3, <2>4
      <3>2. pageCount \in Nat
        BY <1>1 DEF Pages
      <3> QED BY <1>1, <3>1, <3>2
    <2>6. RootsDiffer'
      <3> SUFFICES ASSUME NEW s \in Names \ renamed, NEW u \in Names, NEW p \in Pages,
                          RefersTo(s, p)', RefersTo(u, p)'
                   PROVE  s = u
        BY DEF RootsDiffer
      <3>1. pageCount \notin 1 .. pageCount - 1
        BY <1>1 DEF Pages
      <3>2. s = t <=> u = t
        BY <2>2, <2>3, <2>4, <3>1
      <3>3. CASE s # t
        BY <2>2, <3>2, <3>3 DEF TreesInv, RootsDiffer
      <3> QED BY <3>2, <3>3
    <2>7. HandlesMatch'
      BY <1>1, <1>2, <1>4, MetaIsSome DEF HandlesMatch, TreesInv
    <2> QED BY <2>5, <2>6, <2>7 DEF TreesInv
  <1>7. CASE t \notin Names
    <2>1. cats' = cs /\ cache' = cache /\ open' = open
      BY <1>1, <1>3, <1>4, <1>7, NotPersisted
    <2>2. \A u \in Names, p \in Pages : RefersTo(u, p)' => RefersTo(u, p)
      BY <1>3, <2>1 DEF RefersTo
    <2>3. pageCount \in Nat /\ pageCount' \in Nat /\ pageCount <= pageCount'
      BY <1>1 DEF Pages
    <2>4. RootsCounted' /\ RootsDiffer'
      BY <2>2, <2>3, RefsKept DEF TreesInv
    <2> QED BY <2>1, <2>4 DEF TreesInv, HandlesMatch
  <1> QED BY <1>6, <1>7

\* The end of a process leaves the trees of the catalog on file apart.
LEMMA EndTrees ==
    ASSUME CatalogInv, TreesInv, ~stale, up, NoProcess
    PROVE  TreesInv'
  <1>1. /\ up' = FALSE /\ open' = NoTables
        /\ UNCHANGED <<cats, savedRoot, renamed>>
    BY DEF NoProcess
  <1>2. ASSUME savedRoot # 0, NEW t \in Names, NEW p \in Pages, SavedRefersTo(t, p)
        PROVE  RefersTo(t, p)
    BY <1>2 DEF TreesInv, RefersTo, SavedRefersTo
  <1>3. SavedDiffer
    <2> HIDE DEF RefersTo
    <2>1. RootsCounted /\ RootsDiffer
      BY DEF TreesInv
    <2>2. savedRoot # 0 => \A t \in Names, p \in Pages : SavedRefersTo(t, p) => p >= 1
      BY <1>2, <2>1 DEF RootsCounted
    <2>3. savedRoot # 0 => \A t \in Names \ renamed, u \in Names, p \in Pages :
                              SavedRefersTo(t, p) /\ SavedRefersTo(u, p) => t = u
      BY <1>2, <2>1 DEF RootsDiffer
    <2> QED BY <2>2, <2>3 DEF SavedDiffer
  <1>4. SavedDiffer'
    BY <1>1, <1>3 DEF SavedDiffer, SavedRefersTo
  <1> QED BY <1>1, <1>4 DEF TreesInv

\* The next process finds them so, when it counts their pages.
LEMMA BeginTrees ==
    ASSUME CatalogInv, TreesInv, ~stale, ~stale', Open
    PROVE  TreesInv'
  <1>1. /\ ~up /\ up' = TRUE /\ UNCHANGED <<open, savedRoot, savedCount, renamed>>
        /\ open = NoTables /\ SavedDiffer
        /\ cats \in [Pages -> Catalogs] /\ savedRoot \in Pages /\ savedCount \in 0 .. NumPages
    BY DEF Open, TreesInv, CatalogInv, CatalogType
  <1>2. \A t \in Names : open'[t] = None
    BY <1>1 DEF NoTables
  <1>3. HandlesMatch'
    BY <1>2 DEF HandlesMatch
  <1>4. CASE savedRoot = 0
    <2>1. /\ catRoot' = savedCount /\ savedCount \in Pages /\ cache' = NoTables
          /\ cats' = [cats EXCEPT ![savedCount] = NoCatalog]
      BY <1>1, <1>4, WidthFacts DEF Open, Pages
    <2>2. \A t \in Names : cache'[t] = None /\ cats'[catRoot'].tables[t] = None
      BY <1>1, <2>1 DEF NoTables, NoCatalog
    <2>3. \A t \in Names, p \in Pages : ~RefersTo(t, p)'
      BY <1>2, <2>2 DEF RefersTo
    <2> HIDE DEF RefersTo
    <2>4. RootsCounted' /\ RootsDiffer'
      BY <2>3 DEF RootsCounted, RootsDiffer
    <2> QED BY <1>1, <1>3, <1>4, <2>4 DEF TreesInv
  <1>5. CASE savedRoot # 0
    <2>1. /\ catRoot' = savedRoot /\ pageCount' = savedCount
          /\ cache' = cats[savedRoot].tables /\ UNCHANGED cats
          /\ Counted(cats[savedRoot])
      BY <1>5 DEF Open
    <2>2. \A t \in Names, p \in Pages : RefersTo(t, p)' => SavedRefersTo(t, p)
      BY <1>2, <2>1 DEF RefersTo, SavedRefersTo
    <2>3. \A t \in Names, p \in Pages : SavedRefersTo(t, p) => p \in 1 .. savedCount - 1
      <3> TAKE t \in Names, p \in Pages
      <3> HAVE SavedRefersTo(t, p)
      <3>1. p >= 1 /\ p < savedCount
        BY <1>1, <1>5, <2>1, PageNotSymbol DEF SavedDiffer, Counted, SavedRefersTo
      <3> QED BY <1>1, <3>1, WidthFacts DEF Pages
    <2> HIDE DEF RefersTo, SavedRefersTo
    <2>4. RootsCounted'
      BY <2>1, <2>2, <2>3 DEF RootsCounted
    <2>5. RootsDiffer'
      BY <1>1, <1>5, <2>2 DEF RootsDiffer, SavedDiffer
    <2> QED BY <1>1, <1>3, <2>1, <2>4, <2>5 DEF TreesInv
  <1> QED BY <1>4, <1>5

LEMMA HeaderTrees ==
    ASSUME CatalogInv, TreesInv, ~stale, Flush \/ SetCatalogRoot
    PROVE  TreesInv'
  <1>1. /\ up /\ UNCHANGED <<cats, up, pageCount, catRoot, cache, open, renamed>>
        /\ savedRoot' = savedRoot \/ savedRoot' = catRoot
    BY DEF Flush, SetCatalogRoot, Running, trees, history
  <1>2. \A t \in Names, p \in Pages : RefersTo(t, p)' <=> RefersTo(t, p)
    BY <1>1 DEF RefersTo
  <1> HIDE DEF RefersTo
  <1>3. RootsCounted' /\ RootsDiffer' /\ HandlesMatch'
    BY <1>1, <1>2 DEF TreesInv, RootsCounted, RootsDiffer, HandlesMatch
  <1> QED BY <1>1, <1>3 DEF TreesInv

LEMMA OpenTrees ==
    ASSUME CatalogInv, TreesInv, ~stale, OpenTable
    PROVE  TreesInv'
  <1>1. up /\ UNCHANGED <<up, catRoot, savedRoot, renamed>>
    BY DEF OpenTable
  <1>2. PICK t \in Needs(Head(program)) :
          /\ open[t] = None /\ cache[t] # None
          /\ IF cache[t].root # None
             THEN /\ open' = [open EXCEPT ![t] = [root |-> cache[t].root, len |-> cache[t].count]]
                  /\ UNCHANGED <<rows, cats, pageCount, cache>>
             ELSE /\ NewTree
                  /\ open' = [open EXCEPT ![t] = [root |-> pageCount, len |-> 0]]
                  /\ cache' = [cache EXCEPT ![t] = Meta(pageCount, 0)]
                  /\ cats' = Persist([cats EXCEPT ![pageCount] = NoCatalog],
                                     t, Meta(pageCount, 0))
    BY DEF OpenTable
  <1>3. CASE cache[t].root # None
    BY <1>1, <1>2, <1>3, OpenOldTrees
  <1>4. CASE cache[t].root = None
    <2>1. pageCount < NumPages /\ pageCount' = pageCount + 1
      BY <1>2, <1>4 DEF NewTree
    <2> QED BY <1>1, <1>2, <1>4, <2>1, OpenNewTrees
  <1> QED BY <1>3, <1>4

LEMMA NextTreesInv == CatalogInv /\ TreesInv /\ [Next]_vars => TreesInv'
  <1> SUFFICES ASSUME CatalogInv, TreesInv, [Next]_vars, ~stale' PROVE TreesInv'
    BY DEF TreesInv
  <1>1. CASE UNCHANGED vars
    BY <1>1, QuietTrees DEF vars, file, trees, history, catalogVars
  <1>2. CASE Open
    <2>1. ~stale
      BY <1>2 DEF Open
    <2> QED BY <1>2, <2>1, BeginTrees
  <1>3. CASE Exit \/ Crash \/ DelPanics \/ Overflow
    <2>1. up /\ NoProcess
      BY <1>3 DEF Exit, Crash, DelPanics, Overflow, Running, Ready
    <2>2. ~stale
      BY <2>1 DEF NoProcess
    <2> QED BY <2>1, <2>2, EndTrees
  <1>4. CASE ForgetTable \/ DropTable
    <2>1. /\ up /\ \E t : Forget(t)
          /\ UNCHANGED <<up, catRoot, savedRoot, pageCount, renamed, stale>>
      BY <1>4 DEF ForgetTable, DropTable, Statement, Idle, Running
    <2> QED BY <2>1, ForgetTrees
  <1>5. CASE \/ CreateTable \/ CreateTrigger \/ DropTrigger \/ RenameTable \/ Save \/ OpenTable
             \/ Flush \/ SetCatalogRoot
    <2>1. ~stale
      BY <1>5 DEF CreateTable, CreateTrigger, DropTrigger, RenameTable, Save, OpenTable, Flush,
                  SetCatalogRoot, Statement, history
    <2> QED BY <1>5, <2>1, StatementTrees, RenameTrees, SaveTrees, OpenTrees, HeaderTrees
  <1>6. CASE Put \/ Del
    BY <1>6, CountTrees
  <1> QED BY <1>1, <1>2, <1>3, <1>4, <1>5, <1>6, Quiet, QuietTrees DEF Next, Continue

---------------------------------------------------------------------------
RowsInv == DOMAIN rows = Pages

LEMMA InitRows == Init => RowsInv
  BY DEF Init, RowsInv

LEMMA NextRows == CatalogInv /\ RowsInv /\ [Next]_vars => RowsInv'
  <1> SUFFICES ASSUME CatalogInv, RowsInv, [Next]_vars PROVE RowsInv'
    OBVIOUS
  <1>1. rows' = rows \/ \E q, f : rows' = [rows EXCEPT ![q] = f]
    <2>1. CASE UNCHANGED vars
      BY <2>1 DEF vars, file
    <2>2. CASE \/ CreateTable \/ DropTable \/ RenameTable \/ CreateTrigger \/ DropTrigger \/ Save
               \/ ForgetTable \/ Flush \/ SetCatalogRoot \/ Exit \/ Crash \/ Overflow
      BY <2>2 DEF CreateTable, DropTable, RenameTable, CreateTrigger, DropTrigger, Save,
                  ForgetTable, Flush, SetCatalogRoot, Exit, Crash, Overflow
    <2>3. CASE OpenTable
      <3>1. rows' = rows \/ NewTree
        BY <2>3 DEF OpenTable
      <3> QED BY <3>1 DEF NewTree
    <2>4. CASE Put \/ Del
      BY <2>4, CountStep DEF CatalogInv
    <2>5. CASE DelPanics
      BY <2>5 DEF DelPanics
    <2>6. CASE Open
      <3>1. rows' = rows \/ rows' = [rows EXCEPT ![savedCount] = NoRows]
        BY <2>6 DEF Open
      <3> QED BY <3>1
    <2> QED BY <2>1, <2>2, <2>3, <2>4, <2>5, <2>6, Quiet DEF Next, Continue, catalogVars
  <1> QED BY <1>1 DEF RowsInv

\* The page a scan of the table reads: none, or one that only this table has.
LEMMA OwnPage ==
    ASSUME CatalogInv, TreesInv, up, ~stale, NEW t \in Names \ renamed,
           cache[t] # None, cache[t].root # Unset
    PROVE  LET r == IF open[t] # None THEN open[t].root ELSE cache[t].root
           IN  /\ r \in Pages \union {None}
               /\ r \in Pages => RefersTo(t, r) /\ r \in 1 .. pageCount - 1
  <1> DEFINE r == IF open[t] # None THEN open[t].root ELSE cache[t].root
  <1>1. /\ open \in [Names -> Handles \union {None}] /\ cache \in [Names -> MemMeta \union {None}]
        /\ HandlesMatch /\ RootsCounted
    BY DEF CatalogInv, CatalogType, TreesInv
  <1>2. r \in Pages \union {None}
    BY <1>1 DEF HandlesMatch, MemMeta
  <1>3. r \in Pages => RefersTo(t, r)
    BY DEF RefersTo
  <1> QED BY <1>1, <1>2, <1>3 DEF RootsCounted

\* What a table shows does not change when its handle, its record and the page
\* it is on stay.
LEMMA SameVisible ==
    ASSUME NEW t, open'[t] = open[t], cache'[t] = cache[t],
           LET r == IF open[t] # None THEN open[t].root ELSE cache[t].root
           IN  r = None \/ rows'[Page(r)] = rows[Page(r)]
    PROVE  Visible(t)' = Visible(t)
  BY DEF Visible, Scan, Page

LEMMA StepIsolated ==
    ASSUME CatalogInv, TreesInv, RowsInv, [Next]_vars,
           up, up', program # << >>, ~stale,
           NEW t \in Names \ (renamed \union {Head(program).table}),
           cache[t] # None, cache[t].root # Unset
    PROVE  Visible(t)' = Visible(t)
  <1> DEFINE h == Head(program).table
             r == IF open[t] # None THEN open[t].root ELSE cache[t].root
  <1>1. /\ open \in [Names -> Handles \union {None}] /\ cache \in [Names -> MemMeta \union {None}]
    BY DEF CatalogInv, CatalogType
  <1>2. /\ r \in Pages \union {None}
        /\ r \in Pages => RefersTo(t, r) /\ r \in 1 .. pageCount - 1
    BY OwnPage
  <1>3. r \in Pages => Page(r) = r
    BY PageNotSymbol DEF Page
  <1> HIDE DEF r
  <1>4. CASE UNCHANGED <<rows, open, cache>>
    BY <1>4, SameVisible
  <1>5. CASE Save \/ ForgetTable
    <2>1. \/ \E m : cache' = [cache EXCEPT ![h] = m] /\ UNCHANGED <<rows, open>>
          \/ open' = [open EXCEPT ![h] = None] /\ cache' = [cache EXCEPT ![h] = None] /\ UNCHANGED rows
      BY <1>5 DEF Save, SaveMeta, ForgetTable, Forget
    <2>2. open'[t] = open[t] /\ cache'[t] = cache[t] /\ rows' = rows
      BY <1>1, <2>1
    <2> QED BY <2>2, SameVisible
  <1>6. CASE Put \/ Del
    <2>1. h \in Names /\ open[h] # None /\ cache' = cache
      BY <1>6, CountStep DEF CatalogInv, OpenTables
    <2>2. PICK n \in 0 .. SizeWidth - 1 : open' = [open EXCEPT ![h].len = n]
      BY <1>6, CountStep DEF CatalogInv
    <2>3. PICK f : rows' = [rows EXCEPT ![Page(open[h].root)] = f]
      BY <1>6, CountStep DEF CatalogInv
    <2>4. open'[t] = open[t]
      BY <1>1, <2>2
    <2>5. r \in Pages => r # Page(open[h].root)
      <3>1. CASE open[h].root = Unset
        BY <1>2, <3>1 DEF Page
      <3>2. CASE open[h].root # Unset
        <4>1. open[h].root \in Pages /\ RefersTo(h, open[h].root)
          BY <1>1, <2>1, <3>2 DEF Handles, RefersTo
        <4>2. RootsDiffer
          BY DEF TreesInv
        <4> HIDE DEF RefersTo
        <4>3. r \in Pages => r # open[h].root
          BY <1>2, <2>1, <4>1, <4>2 DEF RootsDiffer
        <4> QED BY <3>2, <4>3 DEF Page
      <3> QED BY <3>1, <3>2
    <2>6. r = None \/ rows'[Page(r)] = rows[Page(r)]
      BY <1>2, <1>3, <2>3, <2>5 DEF RowsInv
    <2> QED BY <2>1, <2>4, <2>6, SameVisible DEF r
  <1>7. CASE OpenTable
    <2>1. PICK u \in Needs(Head(program)) :
            /\ open[u] = None /\ cache[u] # None
            /\ IF cache[u].root # None
               THEN /\ open' = [open EXCEPT ![u] = [root |-> cache[u].root, len |-> cache[u].count]]
                    /\ UNCHANGED <<rows, cats, pageCount, cache>>
               ELSE /\ NewTree
                    /\ open' = [open EXCEPT ![u] = [root |-> pageCount, len |-> 0]]
                    /\ cache' = [cache EXCEPT ![u] = Meta(pageCount, 0)]
                    /\ cats' = Persist([cats EXCEPT ![pageCount] = NoCatalog],
                                       u, Meta(pageCount, 0))
      BY <1>7 DEF OpenTable
    <2>2. rows' = rows \/ rows' = [rows EXCEPT ![pageCount] = NoRows]
      BY <2>1 DEF NewTree
    <2>3. r \in Pages => rows'[r] = rows[r]
      <3>1. r \in Pages => r # pageCount
        BY <1>2, WidthFacts DEF CatalogInv, CatalogType, Pages
      <3> QED BY <2>2, <3>1 DEF RowsInv
    <2>4. CASE u # t
      <3>1. open'[t] = open[t] /\ cache'[t] = cache[t]
        BY <1>1, <2>1, <2>4
      <3> QED BY <1>2, <1>3, <2>3, <3>1, SameVisible DEF r
    <2>5. CASE u = t /\ cache[t].root # None
      <3>1. /\ open'[t] = [root |-> cache[t].root, len |-> cache[t].count]
            /\ cache' = cache /\ rows' = rows /\ open[t] = None
        BY <1>1, <2>1, <2>5
      <3>2. open'[t] # None
        <4>1. cache[t] \in MemMeta
          BY <1>1
        <4>2. open'[t] \in Handles
          BY <3>1, <4>1, <2>5 DEF MemMeta, Handles
        <4> QED BY <4>2, HandleIsSome
      <3> QED BY <3>1, <3>2 DEF Visible, Scan, Page
    <2>6. CASE u = t /\ cache[t].root = None
      <3>1. /\ open'[t] = [root |-> pageCount, len |-> 0] /\ open[t] = None
            /\ cache'[t] = Meta(pageCount, 0) /\ pageCount < NumPages
        BY <1>1, <2>1, <2>6 DEF NewTree
      <3>2. pageCount \in Pages
        BY <3>1, WidthFacts DEF CatalogInv, CatalogType, Pages
      <3>3. open'[t] # None /\ cache'[t] # None
        <4>1. open'[t] \in Handles /\ cache'[t] \in MemMeta
          BY <3>1, <3>2, WidthFacts DEF Handles, MemMeta, Meta
        <4> QED BY <4>1, HandleIsSome, MetaIsSome
      <3> QED BY <2>6, <3>1, <3>3 DEF Visible, Scan, NoRows
    <2> QED BY <2>4, <2>5, <2>6
  <1>8. CASE Next
    <2>1. CASE Flush \/ SetCatalogRoot
      BY <2>1, <1>4 DEF Flush, SetCatalogRoot, trees
    <2>2. ~ (Exit \/ Crash \/ DelPanics \/ Overflow)
      BY DEF Exit, Crash, DelPanics, Overflow, NoProcess
    <2>3. ~ (Open \/ CreateTable \/ DropTable \/ RenameTable \/ CreateTrigger \/ DropTrigger)
      BY DEF Open, CreateTable, DropTable, RenameTable, CreateTrigger, DropTrigger, Statement, Idle
    <2>4. CASE \/ Find \/ NoTable \/ ScanTable \/ Get \/ Check \/ Fire \/ RolledBack
               \/ BadBody \/ NoKey \/ Close \/ Shorten \/ Insert \/ Delete \/ Update \/ Select
               \/ Begin \/ Commit \/ Rollback
      BY <2>4, <1>4, Quiet DEF catalogVars
    <2> QED BY <1>5, <1>6, <1>7, <1>8, <2>1, <2>2, <2>3, <2>4 DEF Next, Continue
  <1>9. CASE UNCHANGED vars
    BY <1>9, <1>4 DEF vars, file, trees
  <1> QED BY <1>8, <1>9

LEMMA TreesInvariance == Spec => [](CatalogInv /\ TreesInv /\ RowsInv)
  <1>1. CatalogInv /\ TreesInv /\ RowsInv /\ [Next]_vars => (CatalogInv /\ TreesInv /\ RowsInv)'
    BY NextCatalogInv, NextTreesInv, NextRows
  <1> QED BY <1>1, InitCatalogInv, InitTreesInv, InitRows, PTL DEF Spec

\* Statements of one table leave what the others show as it is: no page belongs
\* to two tables, whatever was created, dropped, renamed, rolled back or lost by
\* a crash before, as long as the page count was never behind the tables.
THEOREM Isolation == Spec => StatementsIsolated
  <1>1. CatalogInv /\ TreesInv /\ RowsInv /\ [Next]_vars =>
          [up /\ up' /\ program # << >> /\ ~stale =>
             \A t \in Names \ (renamed \union {Head(program).table}) :
                 cache[t] # None /\ cache[t].root # Unset => Visible(t)' = Visible(t)]_vars
    BY StepIsolated
  <1> QED BY <1>1, TreesInvariance, PTL DEF Spec, StatementsIsolated
---------------------------------------------------------------------------
(***************************************************************************)
(* The program of a statement: what its operations are, that those of the  *)
(* triggers' bodies come first and are few, and that a row that is put is  *)
(* counted by a save that follows.                                         *)
(***************************************************************************)

\* An operation, with an argument in A.
Known(A) ==
    {o \in [do : Ops, table : Names \union {None}, arg : A, nested : BOOLEAN] :
        /\ o.do \in {"put", "check"} => o.arg \in Rows \union {None}
        /\ o.do = "put" => o.table \in Names
        /\ o.do = "del" => o.arg \in Keys
        /\ o.do = "get" => o.arg \in [key : Keys, row : Rows \union {None}]
        /\ o.do \in {"fire", "get", "shorten"} => ~o.nested}

RowArgs == Rows \union Keys \union [key : Keys, row : Rows \union {None}]
               \union {None, "insert", "delete", "update", "select"}

\* Does a save of the table come after the i-th operation?
Saves(q, i) == \E j \in DOMAIN q : j > i /\ q[j].do = "save" /\ q[j].table = q[i].table

Planned(q) == \A i \in DOMAIN q : q[i].do = "put" => Saves(q, i)

\* The operations of bodies come before the others.
Prefixed(q) == \A i, j \in DOMAIN q : i < j /\ q[j].nested => q[i].nested

NestedAt(q) == {i \in DOMAIN q : q[i].nested}
ScansAt(q)  == {i \in DOMAIN q : q[i].nested /\ q[i].do = "scan"}

\* The operations of bodies still to do, with those that a scan may turn into.
Weight(q) == Cardinality(NestedAt(q)) + Cardinality(Keys) * Cardinality(ScansAt(q))

MostNested == (4 + Cardinality(Keys)) * Cardinality(TriggerDefs)

LEMMA KeysCounted == Cardinality(Keys) \in Nat /\ Cardinality(TriggerDefs) \in Nat
  BY KeysAssumption, TriggersAssumption, FS_CardinalityType

LEMMA OpKnown ==
    ASSUME NEW A, NEW do \in Ops, NEW t \in Names \union {None}, NEW arg \in A,
           NEW nested \in BOOLEAN,
           do \in {"put", "check"} => arg \in Rows \union {None},
           do = "put" => t \in Names, do = "del" => arg \in Keys,
           do = "get" => arg \in [key : Keys, row : Rows \union {None}],
           do \in {"fire", "get", "shorten"} => ~nested
    PROVE  /\ Op(do, t, arg, nested) \in Known(A)
           /\ Op(do, t, arg, nested).do = do /\ Op(do, t, arg, nested).table = t
           /\ Op(do, t, arg, nested).arg = arg /\ Op(do, t, arg, nested).nested = nested
  BY DEF Known, Op

LEMMA KnownGrows ==
    ASSUME NEW A, NEW B, A \subseteq B
    PROVE  Known(A) \subseteq Known(B) /\ Seq(Known(A)) \subseteq Seq(Known(B))
  <1>1. Known(A) \subseteq Known(B)
    BY DEF Known
  <1> HIDE DEF Known
  <1> QED BY <1>1

LEMMA SeqGrows ==
    ASSUME NEW A, NEW B, A \subseteq B
    PROVE  Seq(A) \subseteq Seq(B)
  OBVIOUS

LEMMA SeqElements ==
    ASSUME NEW A, NEW q \in Seq(A)
    PROVE  \A i \in DOMAIN q : q[i] \in A
  OBVIOUS

LEMMA PlannedJoin ==
    ASSUME NEW T, NEW a \in Seq(T), NEW b \in Seq(T), Planned(a), Planned(b)
    PROVE  Planned(a \o b)
  <1> DEFINE c == a \o b
             m == Len(a)
  <1>1. /\ m \in Nat /\ DOMAIN a = 1 .. m /\ DOMAIN b = 1 .. Len(b) /\ Len(b) \in Nat
        /\ DOMAIN c = 1 .. m + Len(b)
        /\ \A i \in DOMAIN a : i \in DOMAIN c /\ c[i] = a[i]
        /\ \A i \in DOMAIN b : m + i \in DOMAIN c /\ c[m + i] = b[i]
        /\ \A i \in DOMAIN c : \/ i \in DOMAIN a
                               \/ i > m /\ i - m \in DOMAIN b /\ c[i] = b[i - m]
    BY JoinFacts
  <1> HIDE DEF c, m
  <1> SUFFICES ASSUME NEW i \in DOMAIN c, c[i].do = "put" PROVE Saves(c, i)
    BY DEF Planned, c
  <1>2. CASE i \in DOMAIN a
    <2>1. PICK j \in DOMAIN a : j > i /\ a[j].do = "save" /\ a[j].table = a[i].table
      BY <1>1, <1>2 DEF Planned, Saves
    <2> QED BY <1>1, <1>2, <2>1 DEF Saves
  <1>3. CASE i \notin DOMAIN a
    <2>1. i - m \in DOMAIN b /\ c[i] = b[i - m]
      BY <1>1, <1>3
    <2>2. PICK j \in DOMAIN b : j > i - m /\ b[j].do = "save" /\ b[j].table = b[i - m].table
      BY <2>1 DEF Planned, Saves
    <2>3. m + j > i
      BY <1>1, <2>1, <2>2
    <2> QED BY <1>1, <2>1, <2>2, <2>3 DEF Saves
  <1> QED BY <1>2, <1>3

LEMMA WeightJoin ==
    ASSUME NEW T, NEW a \in Seq(T), NEW b \in Seq(T)
    PROVE  Weight(a) \in Nat /\ Weight(b) \in Nat /\ Weight(a \o b) = Weight(a) + Weight(b)
  <1> DEFINE Z == {o \in T : o.nested}
             Y == {o \in T : o.nested /\ o.do = "scan"}
  <1>1. ASSUME NEW q \in Seq(T)
        PROVE  NestedAt(q) = Marked(q, Z) /\ ScansAt(q) = Marked(q, Y)
    <2>1. \A i \in DOMAIN q : q[i] \in T
      OBVIOUS
    <2> QED BY <2>1, Zenon DEF NestedAt, ScansAt, Marked
  <1> HIDE DEF Y, Z
  <1>2. a \o b \in Seq(T)
    OBVIOUS
  <1>3. /\ Cardinality(Marked(a, Z)) \in Nat /\ Cardinality(Marked(b, Z)) \in Nat
        /\ Cardinality(Marked(a, Y)) \in Nat /\ Cardinality(Marked(b, Y)) \in Nat
    BY MarkedCounted
  <1>4. /\ Cardinality(Marked(a \o b, Z)) = Cardinality(Marked(a, Z)) + Cardinality(Marked(b, Z))
        /\ Cardinality(Marked(a \o b, Y)) = Cardinality(Marked(a, Y)) + Cardinality(Marked(b, Y))
    BY MarkedJoin
  <1>5. /\ Weight(a) = Cardinality(Marked(a, Z)) + Cardinality(Keys) * Cardinality(Marked(a, Y))
        /\ Weight(b) = Cardinality(Marked(b, Z)) + Cardinality(Keys) * Cardinality(Marked(b, Y))
        /\ Weight(a \o b)
             = Cardinality(Marked(a \o b, Z)) + Cardinality(Keys) * Cardinality(Marked(a \o b, Y))
    BY <1>1, <1>2, Zenon DEF Weight
  <1>6. ASSUME NEW k \in Nat, NEW x \in Nat, NEW y \in Nat, NEW u \in Nat, NEW v \in Nat
        PROVE  /\ (x + y) + k * (u + v) = (x + k * u) + (y + k * v)
               /\ x + k * u \in Nat
    OBVIOUS
  <1> DEFINE K == Cardinality(Keys)
             x == Cardinality(Marked(a, Z))
             y == Cardinality(Marked(b, Z))
             u == Cardinality(Marked(a, Y))
             v == Cardinality(Marked(b, Y))
  <1>7. /\ K \in Nat /\ x \in Nat /\ y \in Nat /\ u \in Nat /\ v \in Nat
        /\ Weight(a) = x + K * u /\ Weight(b) = y + K * v
        /\ Weight(a \o b) = (x + y) + K * (u + v)
    BY <1>3, <1>4, <1>5, KeysCounted, Zenon
  <1> HIDE DEF K, x, y, u, v
  <1>8. (x + y) + K * (u + v) = (x + K * u) + (y + K * v) /\ x + K * u \in Nat /\ y + K * v \in Nat
    BY <1>6, <1>7
  <1> QED BY <1>7, <1>8, Zenon

LEMMA WeightFlat ==
    ASSUME NEW q, \A i \in DOMAIN q : ~q[i].nested
    PROVE  Weight(q) = 0
  <1>1. NestedAt(q) = {} /\ ScansAt(q) = {}
    BY DEF NestedAt, ScansAt
  <1> QED BY <1>1, KeysCounted, FS_EmptySet DEF Weight

\* Without a scan, the weight is at most the length.
LEMMA WeightLen ==
    ASSUME NEW T, NEW q \in Seq(T), \A i \in DOMAIN q : q[i].do # "scan"
    PROVE  Weight(q) \in Nat /\ Weight(q) <= Len(q)
  <1> DEFINE Z == {o \in T : o.nested}
  <1>1. NestedAt(q) = Marked(q, Z)
    <2>1. \A i \in DOMAIN q : q[i] \in T
      OBVIOUS
    <2> QED BY <2>1, Zenon DEF NestedAt, Marked
  <1> HIDE DEF Z
  <1>2. ScansAt(q) = {}
    BY DEF ScansAt
  <1>3. Weight(q) = Cardinality(Marked(q, Z)) + Cardinality(Keys) * 0
    BY <1>1, <1>2, FS_EmptySet, Zenon DEF Weight
  <1> QED BY <1>3, MarkedCounted, KeysCounted

InsertShape(t, nested) ==
    {o \in Known(RowArgs) : /\ o.table = t /\ o.nested = nested
                            /\ o.do \in {"find", "check", "fire", "put", "save"}}

LEMMA RowOpsFacts ==
    ASSUME NEW t \in Names, NEW r \in Rows \union {None}, NEW nested \in BOOLEAN
    PROVE  /\ RowOps(t, r, nested) \in Seq(InsertShape(t, nested))
           /\ nested => Len(RowOps(t, r, nested)) = 2
  <1>1. /\ Op("check", t, r, nested) \in InsertShape(t, nested)
        /\ Op("put", t, r, nested) \in InsertShape(t, nested)
        /\ Op("fire", t, "insert", FALSE) \in InsertShape(t, FALSE)
    <2>1. /\ r \in RowArgs /\ "insert" \in RowArgs /\ t \in Names \union {None}
          /\ "check" \in Ops /\ "put" \in Ops /\ "fire" \in Ops /\ FALSE \in BOOLEAN
      BY DEF RowArgs, Ops
    <2>2. Op("check", t, r, nested) \in InsertShape(t, nested)
      BY <2>1 DEF InsertShape, Op, Known
    <2>3. Op("put", t, r, nested) \in InsertShape(t, nested)
      BY <2>1 DEF InsertShape, Op, Known
    <2>4. Op("fire", t, "insert", FALSE) \in InsertShape(t, FALSE)
      BY <2>1 DEF InsertShape, Op, Known
    <2> QED BY <2>2, <2>3, <2>4
  <1> DEFINE S == InsertShape(t, nested)
             check == Op("check", t, r, nested)
             fire == Op("fire", t, "insert", nested)
             put == Op("put", t, r, nested)
  <1>2. check \in S /\ put \in S /\ (~nested => fire \in S)
    <2>1. check \in S /\ put \in S
      BY <1>1, Zenon
    <2>2. ASSUME ~nested PROVE fire \in S
      <3>1. nested = FALSE
        BY <2>2
      <3> QED BY <1>1, <3>1, Zenon
    <2> QED BY <2>1, <2>2
  <1>3. RowOps(t, r, nested) = IF nested THEN <<check, put>> ELSE <<check, fire, put, fire>>
    BY Zenon DEF RowOps
  <1> HIDE DEF S, check, fire, put
  <1>4. <<check, put>> \in Seq(S) /\ Len(<<check, put>>) = 2
    BY <1>2
  <1>5. ~nested => <<check, fire, put, fire>> \in Seq(S)
    BY <1>2
  <1>6. RowOps(t, r, nested) \in Seq(S) /\ (nested => Len(RowOps(t, r, nested)) = 2)
    BY <1>3, <1>4, <1>5
  <1> QED BY <1>6 DEF S

\* An insert counts what it puts.
LEMMA InsertOpsFacts ==
    ASSUME NEW t \in Names, NEW n \in Nat, NEW rs \in [1 .. n -> Rows \union {None}],
           NEW nested \in BOOLEAN
    PROVE  /\ InsertOps(t, rs, nested) \in Seq(InsertShape(t, nested))
           /\ Planned(InsertOps(t, rs, nested))
           /\ nested => Len(InsertOps(t, rs, nested)) = 2 * n + 2
  <1> DEFINE S == InsertShape(t, nested)
             find == Op("find", t, None, nested)
             save == Op("save", t, None, nested)
             ops == [i \in DOMAIN rs |-> RowOps(t, rs[i], nested)]
             mid == FlattenSeq(ops)
             B == {q \in Seq(S) : nested => Len(q) = 2}
             F == [k \in Nat |-> {q \in Seq(S) : nested => Len(q) = 2 * k}]
  <1>1. find \in S /\ save \in S /\ save.do = "save" /\ save.table = t
    BY DEF InsertShape, Known, Op, RowArgs, Ops
  <1>2. ops \in [1 .. n -> B]
    BY RowOpsFacts
  <1> HIDE DEF S, find, save, ops
  <1>3. << >> \in F[0] /\ \A b \in B : b \in F[1]
    OBVIOUS
  <1>4. ASSUME NEW k \in Nat, NEW a \in F[k], NEW b \in B
        PROVE  a \o b \in F[k + 1]
    <2>1. a \in Seq(S) /\ b \in Seq(S) /\ (nested => Len(a) = 2 * k /\ Len(b) = 2)
      OBVIOUS
    <2>2. a \o b \in Seq(S) /\ Len(a \o b) = Len(a) + Len(b)
      BY <2>1
    <2>3. ASSUME nested PROVE Len(a \o b) = 2 * (k + 1)
      <3>1. Len(a) = 2 * k /\ Len(b) = 2 /\ Len(a \o b) = Len(a) + Len(b)
        BY <2>1, <2>2, <2>3
      <3> QED BY <3>1
    <2>4. F[k + 1] = {q \in Seq(S) : nested => Len(q) = 2 * (k + 1)}
      <3>1. k + 1 \in Nat
        OBVIOUS
      <3> QED BY <3>1
    <2> HIDE DEF F
    <2> QED BY <2>2, <2>3, <2>4
  <1> HIDE DEF F, B
  <1>5. mid \in F[n]
    BY <1>2, <1>3, <1>4, FlattenFacts
  <1>6. mid \in Seq(S) /\ (nested => Len(mid) = 2 * n)
    BY <1>5 DEF F
  <1> HIDE DEF mid
  <1> DEFINE front == <<find>> \o mid
             q == front \o <<save>>
  <1>7. front \in Seq(S) /\ Len(front) = Len(mid) + 1 /\ <<save>> \in Seq(S) /\ Len(<<save>>) = 1
        /\ DOMAIN <<save>> = {1} /\ <<save>>[1] = save
    BY <1>1, <1>6
  <1>8. q = InsertOps(t, rs, nested)
    BY DEF InsertOps, mid, ops, find, save
  <1> HIDE DEF front
  <1> DEFINE m == Len(front)
  <1>9. /\ m \in Nat /\ DOMAIN front = 1 .. m /\ q \in Seq(S) /\ Len(q) = m + 1
        /\ \A i \in DOMAIN <<save>> : m + i \in DOMAIN q /\ q[m + i] = <<save>>[i]
        /\ \A i \in DOMAIN q : \/ i \in DOMAIN front
                               \/ i > m /\ i - m \in DOMAIN <<save>> /\ q[i] = <<save>>[i - m]
    BY <1>7, JoinFacts
  <1> HIDE DEF q, m
  <1>10. m + 1 \in DOMAIN q /\ q[m + 1] = save
    BY <1>7, <1>9
  <1>11. \A i \in DOMAIN q : q[i].table = t
    BY <1>9 DEF S, InsertShape
  <1>12. Planned(q)
    <2> SUFFICES ASSUME NEW i \in DOMAIN q, q[i].do = "put" PROVE Saves(q, i)
      BY DEF Planned
    <2>1. i \in 1 .. m
      <3>1. CASE i \in DOMAIN front
        BY <1>9, <3>1
      <3>2. CASE i - m \in DOMAIN <<save>> /\ q[i] = <<save>>[i - m]
        BY <1>1, <1>7, <3>2
      <3> QED BY <1>9, <3>1, <3>2
    <2>2. m + 1 > i
      BY <1>9, <2>1
    <2> QED BY <1>1, <1>10, <1>11, <2>2 DEF Saves
  <1> QED BY <1>6, <1>7, <1>8, <1>9, <1>12 DEF S, m

BodyShape ==
    {o \in Known(RowArgs) : /\ o.nested
                            /\ o.do \in {"find", "check", "put", "save", "scan", "error"}}

\* The body of a trigger counts what it puts, and is short.
LEMMA BodyFacts ==
    ASSUME defaults \in [Names -> Rows \union {None}], NEW g \in TriggerDefs
    PROVE  /\ BodyOps(g) \in Seq(BodyShape) /\ Planned(BodyOps(g))
           /\ Weight(BodyOps(g)) \in Nat /\ Weight(BodyOps(g)) <= 4 + Cardinality(Keys)
  <1> DEFINE q == BodyOps(g)
  <1>1. g.into \in Names /\ g.does \in {"insert", "delete", "error"}
    BY TriggersAssumption
  <1>2. Cardinality(Keys) \in Nat
    BY KeysCounted
  <1>3. CASE g.does = "insert"
    <2> DEFINE rs == <<defaults[g.into]>>
    <2>1. rs \in [1 .. 1 -> Rows \union {None}]
      BY <1>1
    <2>2. q = InsertOps(g.into, rs, TRUE)
      BY <1>3 DEF BodyOps
    <2> HIDE DEF q, rs
    <2> DEFINE S == InsertShape(g.into, TRUE)
    <2>3. q \in Seq(S) /\ Planned(q) /\ Len(q) = 4
      <3>1. 1 \in Nat /\ TRUE \in BOOLEAN /\ 2 * 1 + 2 = 4
        OBVIOUS
      <3>2. q \in Seq(S) /\ Planned(q) /\ Len(q) = 2 * 1 + 2
        BY <1>1, <2>1, <2>2, <3>1, InsertOpsFacts, Zenon
      <3> QED BY <3>1, <3>2
    <2>4. S \subseteq BodyShape /\ \A o \in S : o.do # "scan"
      BY DEF InsertShape, BodyShape, Known
    <2> HIDE DEF S
    <2>5. q \in Seq(BodyShape)
      BY <2>3, <2>4, SeqGrows
    <2>6. \A i \in DOMAIN q : q[i].do # "scan"
      <3>1. \A i \in DOMAIN q : q[i] \in S
        BY <2>3, SeqElements
      <3> QED BY <2>4, <3>1
    <2>7. Weight(q) \in Nat /\ Weight(q) <= 4
      BY <2>3, <2>6, WeightLen
    <2> QED BY <1>2, <2>3, <2>5, <2>7 DEF q
  <1>4. CASE g.does = "delete"
    <2> DEFINE o == Op("scan", g.into, "delete", TRUE)
    <2>1. o \in BodyShape /\ o.do = "scan"
      <3>1. "scan" \in Ops /\ None \in RowArgs /\ "delete" \in RowArgs
        BY DEF RowArgs, Ops
      <3> QED BY <1>1, <3>1 DEF BodyShape, Known, Op
    <2>2. q = <<o>>
      BY <1>4 DEF BodyOps
    <2> HIDE DEF q, o
    <2>3. q \in Seq(BodyShape) /\ DOMAIN q = {1} /\ q[1] = o
      BY <2>1, <2>2
    <2>4. Planned(q) /\ NestedAt(q) = {1} /\ ScansAt(q) = {1}
      BY <2>1, <2>3 DEF Planned, NestedAt, ScansAt, BodyShape
    <2>5. Weight(q) = 1 + Cardinality(Keys)
      BY <1>2, <2>4, FS_Singleton DEF Weight
    <2> QED BY <1>2, <2>3, <2>4, <2>5 DEF q
  <1>5. CASE g.does = "error"
    <2> DEFINE o == Op("error", None, None, TRUE)
    <2>1. o \in BodyShape /\ o.do = "error"
      <3>1. "error" \in Ops /\ None \in RowArgs /\ "delete" \in RowArgs
        BY DEF RowArgs, Ops
      <3> QED BY <1>1, <3>1 DEF BodyShape, Known, Op
    <2>2. q = <<o>>
      BY <1>5 DEF BodyOps
    <2> HIDE DEF q, o
    <2>3. q \in Seq(BodyShape) /\ DOMAIN q = {1} /\ q[1] = o
      BY <2>1, <2>2
    <2>4. Planned(q) /\ NestedAt(q) = {1} /\ ScansAt(q) = {}
      BY <2>1, <2>3 DEF Planned, NestedAt, ScansAt, BodyShape
    <2>5. Weight(q) = 1 + Cardinality(Keys) * 0
      BY <1>2, <2>4, FS_Singleton, FS_EmptySet DEF Weight
    <2> QED BY <1>2, <2>3, <2>4, <2>5 DEF q
  <1> QED BY <1>1, <1>3, <1>4, <1>5

\* What the triggers of an event have to do, one after the other.
LEMMA FireFacts ==
    ASSUME defaults \in [Names -> Rows \union {None}], NEW G, G \subseteq TriggerDefs,
           NEW bodies \in SetToSeqs(G)
    PROVE  LET q == FlattenSeq([i \in DOMAIN bodies |-> BodyOps(bodies[i])])
           IN  q \in Seq(BodyShape) /\ Planned(q) /\ Weight(q) \in Nat /\ Weight(q) <= MostNested
  <1> DEFINE S == BodyShape
             K == Cardinality(Keys)
             n == Cardinality(G)
             ops == [i \in DOMAIN bodies |-> BodyOps(bodies[i])]
             q == FlattenSeq(ops)
             B == {b \in Seq(S) : Planned(b) /\ Weight(b) \in Nat /\ Weight(b) <= 4 + K}
             F == [k \in Nat |-> {b \in Seq(S) : Planned(b) /\ Weight(b) <= (4 + K) * k}]
  <1>1. n \in Nat /\ n <= Cardinality(TriggerDefs) /\ bodies \in [1 .. n -> G]
    BY TriggersAssumption, FS_Subset, FS_CardinalityType DEF SetToSeqs
  <1>2. ops \in [1 .. n -> B]
    BY <1>1, BodyFacts
  <1>3. K \in Nat
    BY KeysCounted
  <1> HIDE DEF S, ops, K, n
  <1>4. << >> \in F[0]
    <2>1. << >> \in Seq(S) /\ Planned(<< >>) /\ Weight(<< >>) = 0
      BY WeightFlat DEF Planned
    <2> QED BY <1>3, <2>1
  <1>5. \A b \in B : b \in F[1]
    BY <1>3
  <1>6. ASSUME NEW k \in Nat, NEW a \in F[k], NEW b \in B
        PROVE  a \o b \in F[k + 1]
    <2>1. /\ a \in Seq(S) /\ b \in Seq(S) /\ Planned(a) /\ Planned(b)
          /\ Weight(a) <= (4 + K) * k /\ Weight(b) <= 4 + K
      OBVIOUS
    <2>2. /\ a \o b \in Seq(S) /\ Planned(a \o b)
          /\ Weight(a) \in Nat /\ Weight(b) \in Nat /\ Weight(a \o b) = Weight(a) + Weight(b)
      BY <2>1, PlannedJoin, WeightJoin
    <2>3. (4 + K) * (k + 1) = (4 + K) * k + (4 + K) /\ (4 + K) * k \in Nat
      BY <1>3
    <2>4. Weight(a \o b) <= (4 + K) * (k + 1)
      BY <1>3, <2>1, <2>2, <2>3
    <2>5. F[k + 1] = {c \in Seq(S) : Planned(c) /\ Weight(c) <= (4 + K) * (k + 1)}
      <3>1. k + 1 \in Nat
        OBVIOUS
      <3> QED BY <3>1
    <2> HIDE DEF F
    <2> QED BY <2>2, <2>4, <2>5
  <1> HIDE DEF F, B
  <1>7. q \in F[n]
    BY <1>1, <1>2, <1>4, <1>5, <1>6, FlattenFacts
  <1> HIDE DEF q
  <1>8. q \in Seq(S) /\ Planned(q) /\ Weight(q) <= (4 + K) * n
    BY <1>1, <1>7 DEF F
  <1>9. Weight(q) \in Nat
    <2>1. << >> \in Seq(S)
      OBVIOUS
    <2> QED BY <1>8, <2>1, WeightJoin
  <1>10. (4 + K) * n <= MostNested
    <2>1. Cardinality(TriggerDefs) \in Nat /\ MostNested = (4 + K) * Cardinality(TriggerDefs)
      BY KeysCounted DEF MostNested, K
    <2>2. \A d \in Nat : n <= d => (4 + K) * n <= (4 + K) * d
      BY <1>1, <1>3
    <2> QED BY <1>1, <2>1, <2>2
  <1>11. MostNested \in Nat
    BY KeysCounted DEF MostNested
  <1>12. (4 + K) * n \in Nat
    BY <1>1, <1>3
  <1>13. Weight(q) <= MostNested
    BY <1>8, <1>9, <1>10, <1>11, <1>12
  <1> QED BY <1>8, <1>9, <1>13 DEF q, ops, S

\* There is an order of the keys: each at the place of its rank.
LEMMA SortedFacts ==
    ASSUME NEW S, S \subseteq Keys
    PROVE  /\ Cardinality(S) \in Nat /\ Cardinality(S) <= Cardinality(Keys)
           /\ Sorted(S) \in [1 .. Cardinality(S) -> S]
  <1> DEFINE n == Cardinality(S)
             D == 1 .. n
             Upto(k) == {j \in S : j <= k}
  <1>1. IsFiniteSet(S) /\ n \in Nat /\ n <= Cardinality(Keys) /\ S \subseteq Int
    BY KeysAssumption, FS_Subset, FS_CardinalityType
  <1>2. PICK s \in Bijection(1 .. n, S) : TRUE
    BY <1>1, FS_CardinalityType DEF ExistsBijection
  <1>3. s \in [D -> S] /\ \A i, j \in D : s[i] = s[j] => i = j
    BY <1>2 DEF Bijection, Injection, IsInjective
  <1>4. \A k \in S : IsFiniteSet(Upto(k)) /\ Cardinality(Upto(k)) \in D
    <2> TAKE k \in S
    <2>1. Upto(k) \in SUBSET S /\ Upto(k) # {} /\ k \in Int
      BY <1>1
    <2> HIDE DEF Upto
    <2>2. IsFiniteSet(Upto(k)) /\ Cardinality(Upto(k)) <= n /\ Cardinality(Upto(k)) \in Nat
      BY <1>1, <2>1, FS_Subset, FS_CardinalityType
    <2>3. Cardinality(Upto(k)) # 0
      BY <2>1, <2>2, FS_EmptySet
    <2> QED BY <1>1, <2>2, <2>3
  <1>5. \A k, l \in S : k < l => Cardinality(Upto(k)) < Cardinality(Upto(l))
    <2> SUFFICES ASSUME NEW k \in S, NEW l \in S, k < l
                 PROVE  Cardinality(Upto(k)) < Cardinality(Upto(l))
      OBVIOUS
    <2>1. Upto(k) \in SUBSET Upto(l) /\ l \in Upto(l) /\ l \notin Upto(k)
      <3>1. k \in Int /\ l \in Int /\ \A j \in S : j \in Int
        BY <1>1
      <3>2. l <= l /\ ~(l <= k) /\ \A j \in S : j <= k => j <= l
        BY <3>1
      <3>3. Upto(k) = {j \in S : j <= k} /\ Upto(l) = {j \in S : j <= l}
        OBVIOUS
      <3> HIDE DEF Upto
      <3> QED BY <3>2, <3>3
    <2>2. Cardinality(Upto(k)) \in Nat /\ Cardinality(Upto(l)) \in Nat /\ IsFiniteSet(Upto(l))
      BY <1>1, <1>4
    <2> HIDE DEF Upto
    <2>3. Cardinality(Upto(k)) <= Cardinality(Upto(l)) /\ Cardinality(Upto(k)) # Cardinality(Upto(l))
      BY <2>1, <2>2, FS_Subset
    <2> QED BY <2>2, <2>3
  <1> DEFINE g == [i \in D |-> Cardinality(Upto(s[i]))]
  <1>6. g \in [D -> D] /\ \A i \in D : g[i] = Cardinality(Upto(s[i]))
    BY <1>3, <1>4
  <1>7. \A i, j \in D : g[i] = g[j] => i = j
    <2> SUFFICES ASSUME NEW i \in D, NEW j \in D, g[i] = g[j] PROVE i = j
      OBVIOUS
    <2> HIDE DEF Upto, g
    <2>1. s[i] \in S /\ s[j] \in S /\ s[i] \in Int /\ s[j] \in Int
      BY <1>1, <1>3
    <2>2. g[i] \in Int /\ g[j] \in Int /\ ~(g[i] < g[j]) /\ ~(g[j] < g[i])
      BY <1>1, <1>6
    <2>3. ~(s[i] < s[j]) /\ ~(s[j] < s[i])
      BY <1>5, <1>6, <2>1, <2>2
    <2>4. s[i] = s[j]
      BY <2>1, <2>3
    <2> QED BY <1>3, <2>4
  <1> HIDE DEF g
  <1>8. \A m \in D : \E i \in D : g[i] = m
    <2>1. IsFiniteSet(D) /\ g \in Injection(D, D)
      BY <1>1, <1>6, <1>7, IntervalCardinality DEF Injection, IsInjective
    <2>2. g \in Surjection(D, D)
      BY <2>1, FS_Injection
    <2> QED BY <2>2 DEF Surjection
  <1> DEFINE at == [m \in D |-> CHOOSE i \in D : g[i] = m]
             q == [m \in D |-> s[at[m]]]
  <1>9. \A m \in D : at[m] \in D /\ g[at[m]] = m
    BY <1>8
  <1> HIDE DEF at
  <1>10. q \in [D -> S] /\ \A m \in D : q[m] = s[at[m]] /\ Cardinality(Upto(q[m])) = m
    BY <1>3, <1>6, <1>9
  <1> HIDE DEF q, Upto
  <1>11. \A i, j \in D : i # j => q[i] # q[j]
    BY <1>10
  <1>12. \A i, j \in D : i < j => q[i] < q[j]
    <2> SUFFICES ASSUME NEW i \in D, NEW j \in D, i < j PROVE q[i] < q[j]
      OBVIOUS
    <2>1. q[i] \in Int /\ q[j] \in Int /\ q[i] \in S /\ q[j] \in S /\ i \in Int /\ j \in Int
      BY <1>1, <1>10
    <2>2. ~(q[j] < q[i])
      BY <1>5, <1>10, <2>1
    <2> QED BY <1>11, <2>1, <2>2
  <1>13. q \in SetToSeqs(S)
    BY <1>10, <1>11 DEF SetToSeqs
  <1>14. \A i, j \in DOMAIN q : i < j => q[i] < q[j]
    BY <1>10, <1>12
  <1>15. Sorted(S) \in SetToSeqs(S)
    BY <1>13, <1>14 DEF Sorted
  <1> QED BY <1>1, <1>15 DEF SetToSeqs

DeleteShape(t, nested) ==
    {o \in Known(RowArgs) : o.table = t /\ o.nested = nested /\ o.do \in {"fire", "del"}}

LEMMA DeleteOpsFacts ==
    ASSUME NEW t \in Names, NEW ks, ks \subseteq Keys, NEW nested \in BOOLEAN
    PROVE  /\ DeleteOps(t, ks, nested) \in Seq(DeleteShape(t, nested))
           /\ nested => Len(DeleteOps(t, ks, nested)) <= Cardinality(Keys)
  <1> DEFINE S == DeleteShape(t, nested)
             n == Cardinality(ks)
             fire == Op("fire", t, "delete", FALSE)
             del(i) == Op("del", t, Sorted(ks)[i], nested)
             ops == [i \in 1 .. n |-> IF nested THEN <<del(i)>> ELSE <<fire, del(i), fire>>]
             q == FlattenSeq(ops)
             B == {b \in Seq(S) : nested => Len(b) = 1}
             F == [k \in Nat |-> {b \in Seq(S) : nested => Len(b) = k}]
  <1>1. n \in Nat /\ n <= Cardinality(Keys) /\ \A i \in 1 .. n : Sorted(ks)[i] \in Keys
    BY SortedFacts
  <1>2. "fire" \in Ops /\ "del" \in Ops /\ "delete" \in RowArgs /\ Keys \subseteq RowArgs
    BY DEF Ops, RowArgs
  <1>3. \A i \in 1 .. n : del(i) \in S
    <2> SUFFICES ASSUME NEW i \in 1 .. n PROVE del(i) \in S
      OBVIOUS
    <2>1. Sorted(ks)[i] \in Keys /\ Sorted(ks)[i] \in RowArgs
      BY <1>1, <1>2
    <2> QED BY <1>2, <2>1 DEF DeleteShape, Known, Op
  <1>4. ~nested => fire \in S
    <2> SUFFICES ASSUME nested = FALSE PROVE fire \in S
      OBVIOUS
    <2> QED BY <1>2 DEF DeleteShape, Known, Op
  <1> HIDE DEF S, del, fire
  <1>5. ops \in [1 .. n -> B]
    <2>1. ASSUME NEW i \in 1 .. n, nested PROVE <<del(i)>> \in Seq(S) /\ Len(<<del(i)>>) = 1
      BY <1>3
    <2>2. ASSUME NEW i \in 1 .. n, ~nested PROVE <<fire, del(i), fire>> \in Seq(S)
      BY <1>3, <1>4, <2>2
    <2>3. \A i \in 1 .. n : (IF nested THEN <<del(i)>> ELSE <<fire, del(i), fire>>) \in B
      BY <2>1, <2>2
    <2> HIDE DEF B
    <2> QED BY <2>3
  <1>6. DeleteOps(t, ks, nested) = q
    BY Zenon DEF DeleteOps, fire, del
  <1> HIDE DEF ops
  <1>7. << >> \in F[0] /\ \A b \in B : b \in F[1]
    OBVIOUS
  <1>8. ASSUME NEW k \in Nat, NEW a \in F[k], NEW b \in B
        PROVE  a \o b \in F[k + 1]
    <2>1. a \in Seq(S) /\ b \in Seq(S) /\ (nested => Len(a) = k /\ Len(b) = 1)
      OBVIOUS
    <2>2. a \o b \in Seq(S) /\ Len(a \o b) = Len(a) + Len(b)
      BY <2>1
    <2>3. nested => Len(a \o b) = k + 1
      BY <2>1, <2>2
    <2>4. F[k + 1] = {c \in Seq(S) : nested => Len(c) = k + 1}
      <3>1. k + 1 \in Nat
        OBVIOUS
      <3> QED BY <3>1
    <2> HIDE DEF F
    <2> QED BY <2>2, <2>3, <2>4
  <1> HIDE DEF F, B
  <1>9. q \in F[n]
    BY <1>1, <1>5, <1>7, <1>8, FlattenFacts
  <1> HIDE DEF q
  <1>10. q \in Seq(S) /\ (nested => Len(q) = n)
    BY <1>1, <1>9 DEF F
  <1>11. nested => Len(q) <= Cardinality(Keys)
    BY <1>1, <1>10
  <1> QED BY <1>6, <1>10, <1>11 DEF S

LEMMA UpdateOpsFacts ==
    ASSUME NEW t \in Names, NEW k \in Keys, NEW r \in Rows
    PROVE  /\ UpdateOps(t, k, r) \in Seq(Known(RowArgs))
           /\ \A i \in DOMAIN UpdateOps(t, k, r) : /\ ~UpdateOps(t, k, r)[i].nested
                                                   /\ UpdateOps(t, k, r)[i].do \notin {"forget", "shorten"}
  <1> DEFINE S == {o \in Known(RowArgs) : ~o.nested /\ o.do \notin {"forget", "shorten"}}
             fire == Op("fire", t, "update", FALSE)
             del == Op("del", t, k, FALSE)
             put == Op("put", t, r, FALSE)
             q == <<fire, del, put, fire>>
  <1>1. fire \in S /\ del \in S /\ put \in S
    BY DEF Known, Op, RowArgs, Ops
  <1>2. S \subseteq Known(RowArgs) /\ \A o \in S : ~o.nested /\ o.do \notin {"forget", "shorten"}
    OBVIOUS
  <1>3. UpdateOps(t, k, r) = q
    BY Zenon DEF UpdateOps
  <1> HIDE DEF S, fire, del, put
  <1>4. q \in Seq(S)
    BY <1>1
  <1> HIDE DEF q
  <1>5. q \in Seq(Known(RowArgs)) /\ \A i \in DOMAIN q : q[i] \in S
    BY <1>2, <1>4, SeqGrows, SeqElements
  <1> QED BY <1>2, <1>3, <1>5

---------------------------------------------------------------------------
\* What is left of the statement: operations, those of bodies first and few.
ProgramType == \E A : program \in Seq(Known(A))

Undoing == {"forget", "shorten"}

\* A table to be shortened is open, and not to be forgotten before.
Undone(q) ==
    \A i \in DOMAIN q : q[i].do = "shorten" =>
        /\ q[i].table \in Names /\ open[q[i].table] # None /\ q[i].arg \in Nat
        /\ \A j \in DOMAIN q : q[j].do = "forget" => q[j].table # q[i].table

\* A rollback deletes rows, and does nothing else.
Apart(q) ==
    (\E i \in DOMAIN q : q[i].do \in Undoing) =>
        \A i \in DOMAIN q : q[i].do \in Undoing \union {"del", "rolledBack"}

\* Handles are kept, but for the one that is to be forgotten.
OpenKept ==
    \A t \in Names : /\ open[t] # None
                     /\ Head(program).do = "forget" => Head(program).table # t
                     => open'[t] # None

ProgramInv ==
    /\ ProgramType
    /\ Prefixed(program)
    /\ Weight(program) <= MostNested
    /\ Undone(program) /\ Apart(program)

DefaultsType == defaults \in [Names -> Rows \union {None}]

LEMMA MostNestedType == MostNested \in Nat
  BY KeysCounted DEF MostNested

\* A statement begins: it is outside of a body.
LEMMA FlatProgram ==
    ASSUME NEW A, program' \in Seq(Known(A)), \A i \in DOMAIN program' : ~program'[i].nested,
           Undone(program)', Apart(program')
    PROVE  ProgramInv'
  <1>1. Weight(program') = 0
    BY WeightFlat
  <1>2. Prefixed(program') /\ Undone(program)' /\ Apart(program')
    BY DEF Prefixed
  <1>3. ProgramType'
    BY Zenon DEF ProgramType
  <1>4. Weight(program') <= MostNested
    BY <1>1, MostNestedType
  <1> QED BY <1>2, <1>3, <1>4 DEF ProgramInv

LEMMA NothingUndone ==
    ASSUME NEW q, \A i \in DOMAIN q : q[i].do \notin Undoing
    PROVE  Undone(q) /\ Undone(q)' /\ Apart(q)
  BY DEF Undone, Undoing, Apart

\* The first operation is replaced by those it leads to.
LEMMA JoinProgram ==
    ASSUME ProgramInv, program # << >>, NEW A, NEW f \in Seq(Known(A)),
           program' = f \o Tail(program), OpenKept, \A i \in DOMAIN f : f[i].do \notin Undoing,
           Head(program).do \in Undoing \union {"del", "rolledBack"} => \A i \in DOMAIN f : f[i].do = "del",
           \/ /\ Head(program).nested
              /\ \A i \in DOMAIN f : f[i].nested
              /\ Weight(f) <= Weight(<<Head(program)>>)
           \/ /\ ~Head(program).nested
              /\ Weight(f) <= MostNested
              /\ (\A i \in DOMAIN f : f[i].nested) \/ (\A i \in DOMAIN f : ~f[i].nested)
    PROVE  ProgramInv'
  <1> DEFINE h == <<Head(program)>>
             q == Tail(program)
             c == f \o q
             m == Len(f)
  <1>1. PICK B : program \in Seq(Known(B))
    BY DEF ProgramInv, ProgramType
  <1> DEFINE C == Known(A \union B)
  <1>2. f \in Seq(C) /\ program \in Seq(C)
    BY <1>1, KnownGrows, Zenon
  <1>3. ProgramType'
    <2>1. program' \in Seq(C)
      <3> HIDE DEF C
      <3> QED BY <1>2
    <2> QED BY <2>1, Zenon DEF ProgramType
  <1> HIDE DEF C
  <1>4. h \in Seq(C) /\ q \in Seq(C) /\ program = h \o q
    BY <1>2
  <1>5. /\ Weight(h) \in Nat /\ Weight(q) \in Nat /\ Weight(f) \in Nat
        /\ Weight(program) = Weight(h) + Weight(q) /\ Weight(c) = Weight(f) + Weight(q)
    <2> HIDE DEF h, q
    <2> QED BY <1>2, <1>4, WeightJoin
  <1>6. /\ \A i \in DOMAIN q : i + 1 \in DOMAIN program /\ q[i] = program[i + 1] /\ i \in Nat /\ i >= 1
        /\ 1 \in DOMAIN program /\ Head(program) = program[1]
    BY <1>2, TailPlaces
  <1>7. Prefixed(q)
    <2> SUFFICES ASSUME NEW i \in DOMAIN q, NEW j \in DOMAIN q, i < j, q[j].nested PROVE q[i].nested
      BY DEF Prefixed
    <2>1. i + 1 < j + 1
      BY <1>6
    <2> QED BY <1>6, <2>1 DEF ProgramInv, Prefixed
  <1>8. ~Head(program).nested => \A i \in DOMAIN q : ~q[i].nested
    <2> SUFFICES ASSUME ~Head(program).nested, NEW i \in DOMAIN q, q[i].nested PROVE FALSE
      OBVIOUS
    <2>1. 1 < i + 1
      BY <1>6
    <2> QED BY <1>6, <2>1 DEF ProgramInv, Prefixed
  <1>9. Weight(program) <= MostNested
    BY DEF ProgramInv
  <1>10. Weight(c) <= MostNested
    <2>1. CASE Head(program).nested
      BY <1>5, <1>9, <2>1, MostNestedType
    <2>2. CASE ~Head(program).nested
      <3>1. Weight(q) = 0
        BY <1>8, <2>2, WeightFlat
      <3> QED BY <1>5, <2>2, <3>1, MostNestedType
    <2> QED BY <2>1, <2>2
  <1>11. /\ m \in Nat /\ DOMAIN f = 1 .. m
         /\ \A i \in DOMAIN f : c[i] = f[i]
         /\ \A i \in DOMAIN c : \/ i \in DOMAIN f /\ c[i] = f[i]
                                \/ i > m /\ i - m \in DOMAIN q /\ c[i] = q[i - m]
         /\ DOMAIN c \subseteq Nat
    <2> HIDE DEF q
    <2>1. /\ m \in Nat /\ DOMAIN f = 1 .. m
          /\ \A i \in DOMAIN f : c[i] = f[i]
          /\ \A i \in DOMAIN c : \/ i \in DOMAIN f
                                 \/ i > m /\ i - m \in DOMAIN q /\ c[i] = q[i - m]
      BY <1>2, <1>4, JoinFacts
    <2>2. DOMAIN c \subseteq Nat
      BY <1>2, <1>4
    <2> QED BY <2>1, <2>2
  <1>12. Prefixed(c)
    <2> HIDE DEF c, q, m
    <2> SUFFICES ASSUME NEW i \in DOMAIN c, NEW j \in DOMAIN c, i < j, c[j].nested PROVE c[i].nested
      BY DEF Prefixed
    <2>1. i \in Nat /\ j \in Nat
      BY <1>11
    <2>2. CASE Head(program).nested
      <3>1. \A l \in DOMAIN f : f[l].nested
        BY <2>2
      <3>2. CASE i \in DOMAIN f
        BY <1>11, <3>1, <3>2
      <3>3. CASE i \notin DOMAIN f
        <4>1. i > m /\ i - m \in DOMAIN q /\ c[i] = q[i - m]
          BY <1>11, <3>3
        <4>2. j > m /\ j \notin DOMAIN f
          BY <1>11, <2>1, <4>1
        <4>3. j - m \in DOMAIN q /\ c[j] = q[j - m] /\ i - m < j - m
          BY <1>11, <2>1, <4>1, <4>2
        <4> QED BY <1>7, <4>1, <4>3 DEF Prefixed
      <3> QED BY <3>2, <3>3
    <2>3. CASE ~Head(program).nested
      <3>1. j \in DOMAIN f /\ f[j].nested
        BY <1>8, <1>11, <2>3
      <3>2. \A l \in DOMAIN f : f[l].nested
        BY <2>3, <3>1
      <3>3. i \in DOMAIN f
        BY <1>11, <2>1, <3>1
      <3> QED BY <1>11, <3>2, <3>3
    <2> QED BY <2>2, <2>3
  <1>13. Undone(program)'
    <2>1. \A i \in DOMAIN c : \/ c[i].do \notin Undoing
                             \/ \E j \in DOMAIN program : j # 1 /\ c[i] = program[j]
      <3> SUFFICES ASSUME NEW i \in DOMAIN c, c[i].do \in Undoing
                   PROVE  \E j \in DOMAIN program : j # 1 /\ c[i] = program[j]
        OBVIOUS
      <3>1. i - m \in DOMAIN q /\ c[i] = q[i - m]
        BY <1>11
      <3>2. (i - m) + 1 # 1 /\ (i - m) + 1 \in DOMAIN program /\ c[i] = program[(i - m) + 1]
        BY <1>6, <3>1
      <3> QED BY <3>2
    <2>2. Undone(program)
      BY DEF ProgramInv
    <2>3. 1 \in DOMAIN program /\ Head(program) = program[1]
      BY <1>6
    <2>4. program' = c
      OBVIOUS
    <2> HIDE DEF c, q
    <2>5. \A i \in DOMAIN c : c[i].do = "shorten" =>
            /\ c[i].table \in Names /\ open'[c[i].table] # None /\ c[i].arg \in Nat
            /\ \A j \in DOMAIN c : c[j].do = "forget" => c[j].table # c[i].table
      <3> TAKE i \in DOMAIN c
      <3> HAVE c[i].do = "shorten"
      <3>1. PICK k \in DOMAIN program : c[i] = program[k]
        BY <2>1 DEF Undoing
      <3>2. /\ c[i].table \in Names /\ open[c[i].table] # None /\ c[i].arg \in Nat
            /\ \A j \in DOMAIN program : program[j].do = "forget" => program[j].table # c[i].table
        BY <2>2, <3>1 DEF Undone
      <3>3. open'[c[i].table] # None
        BY <2>3, <3>2 DEF OpenKept
      <3>4. \A j \in DOMAIN c : c[j].do = "forget" => c[j].table # c[i].table
        BY <2>1, <3>2 DEF Undoing
      <3> QED BY <3>2, <3>3, <3>4
    <2> QED BY <2>4, <2>5 DEF Undone
  <1>14. Apart(program')
    <2>1. \A i \in DOMAIN c : \/ i \in DOMAIN f /\ c[i] = f[i]
                             \/ \E j \in DOMAIN program : c[i] = program[j]
      BY <1>6, <1>11
    <2>2. 1 \in DOMAIN program /\ Head(program) = program[1] /\ Apart(program) /\ program' = c
      BY <1>6 DEF ProgramInv
    <2> HIDE DEF c, q
    <2> SUFFICES ASSUME NEW k \in DOMAIN c, c[k].do \in Undoing, NEW i \in DOMAIN c
                 PROVE  c[i].do \in Undoing \union {"del", "rolledBack"}
      BY <2>2 DEF Apart
    <2>3. \A j \in DOMAIN program : program[j].do \in Undoing \union {"del", "rolledBack"}
      BY <2>1, <2>2 DEF Apart
    <2>4. CASE i \in DOMAIN f /\ c[i] = f[i]
      BY <2>2, <2>3, <2>4
    <2>5. CASE \E j \in DOMAIN program : c[i] = program[j]
      BY <2>3, <2>5
    <2> QED BY <2>1, <2>4, <2>5
  <1> QED BY <1>3, <1>10, <1>12, <1>13, <1>14 DEF ProgramInv

\* The variables that neither the catalog's part nor the program is about,
\* and that there is nothing in memory without a process.
DataType ==
    /\ rows \in [Pages -> [Keys -> Vals \union {None}]]
    /\ DefaultsType
    /\ cons \in [Names -> ConstraintDefs \union {None}]
    /\ session \in 0 .. Len(Statements) /\ statements \in Nat
    /\ stale \in BOOLEAN
    /\ snap # None => snap.counts \in [Names -> Nat \union {None}]
    /\ renamed \subseteq Names /\ unsaved \subseteq Names /\ uncounted \subseteq Names
    /\ ~up => /\ program = << >> /\ snap = None /\ trig = {} /\ unsaved = {} /\ catRoot = None
              /\ cache = NoTables /\ defaults = NoTables /\ open = NoTables /\ cons = NoTables

DataInv == CatalogInv /\ ProgramInv /\ DataType

LEMMA HeadKnown ==
    ASSUME ProgramInv, program # << >>
    PROVE  /\ \E A : Head(program) \in Known(A)
           /\ Head(program).nested \in BOOLEAN
           /\ Head(program).table \in Names \union {None}
           /\ Head(program).do \in {"put", "check"} => Head(program).arg \in Rows \union {None}
           /\ Head(program).do = "del" => Head(program).arg \in Keys
           /\ Head(program).do = "get" => Head(program).arg \in [key : Keys, row : Rows \union {None}]
           /\ Head(program).do \in {"fire", "get", "shorten"} => ~Head(program).nested
  <1>1. PICK A : program \in Seq(Known(A))
    BY DEF ProgramInv, ProgramType
  <1> DEFINE T == Known(A)
  <1>2. Head(program) \in T
    <2>1. program \in Seq(T)
      BY <1>1
    <2> HIDE DEF T
    <2> QED BY <2>1
  <1> QED BY <1>2 DEF Known

LEMMA HeadPlace ==
    ASSUME ProgramInv, program # << >>
    PROVE  1 \in DOMAIN program /\ Head(program) = program[1]
  <1>1. PICK A : program \in Seq(Known(A))
    BY DEF ProgramInv, ProgramType
  <1> DEFINE T == Known(A)
  <1>2. program \in Seq(T)
    BY <1>1
  <1> HIDE DEF T
  <1> QED BY <1>2

LEMMA TailProgram ==
    ASSUME ProgramInv, program # << >>, program' = Tail(program), OpenKept
    PROVE  ProgramInv'
  <1>1. PICK A : program \in Seq(Known(A))
    BY DEF ProgramInv, ProgramType
  <1> DEFINE T == Known(A)
             f == << >>
             h == <<Head(program)>>
  <1>2. f \in Seq(T) /\ program' = f \o Tail(program) /\ h \in Seq(T)
    <2>1. program \in Seq(T)
      BY <1>1
    <2> HIDE DEF T
    <2> QED BY <2>1
  <1>3. Weight(h) \in Nat
    <2> HIDE DEF T
    <2> QED BY <1>2, WeightJoin
  <1>4. Weight(f) = 0 /\ \A i \in DOMAIN f : f[i].nested /\ ~f[i].nested /\ f[i].do \notin Undoing /\ f[i].do = "del"
    <2>1. ~ \E i \in DOMAIN f : TRUE
      OBVIOUS
    <2> QED BY <2>1, WeightFlat
  <1> HIDE DEF f
  <1>5. Weight(f) <= Weight(h) /\ Weight(f) <= MostNested
    BY <1>3, <1>4, MostNestedType
  <1>6. Head(program).nested \/ ~Head(program).nested
    OBVIOUS
  <1> QED BY <1>2, <1>4, <1>5, <1>6, JoinProgram

\* Where the tree of an open table is.
LEMMA TreePage ==
    ASSUME CatalogInv, DataType, NEW t \in Names, open[t] # None
    PROVE  /\ open[t] \in Handles /\ Page(open[t].root) \in Pages
           /\ rows[Page(open[t].root)] \in [Keys -> Vals \union {None}]
           /\ Present(Scan(open[t].root, open[t].len)) \subseteq Keys
  <1>1. open[t] \in Handles
    BY DEF CatalogInv, CatalogType
  <1>2. Page(open[t].root) \in Pages
    BY <1>1, WidthFacts DEF Handles, Page, Pages
  <1>3. rows[Page(open[t].root)] \in [Keys -> Vals \union {None}]
    BY <1>2 DEF DataType
  <1>4. DOMAIN Scan(open[t].root, open[t].len) = Keys
    BY <1>3 DEF Scan, NoRows
  <1> QED BY <1>1, <1>2, <1>3, <1>4 DEF Present

\* An operation has the tables it needs.
LEMMA ReadyFacts ==
    ASSUME NEW do, Ready(do)
    PROVE  /\ up /\ program # << >> /\ Head(program).do = do
           /\ do \in {"put", "del", "get", "scan"} => 
                /\ Head(program).table \in Names
                /\ open[Head(program).table] # None /\ cache[Head(program).table] # None
  BY DEF Ready, Running, Needs, OpenTables

\* A statement begins, or the end of the session.
LEMMA BeginProgram ==
    ASSUME DataInv, Insert \/ Delete \/ Update \/ Select \/ Begin \/ Commit \/ Rollback \/ Close
    PROVE  /\ ProgramInv'
           /\ Planned(program')
  <1> DEFINE S == {o \in Known(RowArgs) : ~o.nested /\ o.do \notin Undoing}
             R == {o \in S : o.do # "put"}
  <1>0. ASSUME program' \in Seq(R) PROVE program' \in Seq(S) /\ Planned(program')
    <2>1. R \subseteq S /\ \A o \in R : o.do # "put"
      OBVIOUS
    <2> HIDE DEF R, S
    <2>2. \A i \in DOMAIN program' : program'[i] \in R
      BY <1>0, SeqElements
    <2> QED BY <1>0, <2>1, <2>2, SeqGrows DEF Planned
  <1>1. ASSUME program' \in Seq(S) PROVE ProgramInv'
    <2>1. \A o \in S : ~o.nested /\ o.do \notin Undoing
      OBVIOUS
    <2>2. S \subseteq Known(RowArgs)
      OBVIOUS
    <2> HIDE DEF S
    <2>3. \A i \in DOMAIN program' : program'[i] \in S
      BY <1>1, SeqElements
    <2>4. program' \in Seq(Known(RowArgs))
      BY <1>1, <2>2, SeqGrows
    <2>5. Undone(program)' /\ Apart(program')
      BY <2>1, <2>3 DEF Undone, Undoing, Apart
    <2> QED BY <2>1, <2>3, <2>4, <2>5, FlatProgram
  <1>2. CASE Insert
    <2>1. PICK t \in Names, rs \in BoundedSeq(Rows, MaxRows) : program' = InsertOps(t, rs, FALSE)
      BY <1>2 DEF Insert, Run
    <2>2. PICK n \in Nat : rs \in [1 .. n -> Rows]
      BY BoundsAssumption DEF BoundedSeq, SeqOf
    <2>3. rs \in [1 .. n -> Rows \union {None}] /\ FALSE \in BOOLEAN
      BY <2>2
    <2>4. program' \in Seq(InsertShape(t, FALSE)) /\ Planned(program')
      BY <2>1, <2>3, InsertOpsFacts
    <2>5. InsertShape(t, FALSE) \subseteq S
      BY DEF InsertShape, Undoing
    <2> HIDE DEF S
    <2>6. program' \in Seq(S)
      BY <2>4, <2>5, SeqGrows
    <2> QED BY <1>1, <2>4, <2>6
  <1>3. CASE Delete \/ Update \/ Select
    <2>1. \E o \in R : program' = <<o>>
      <3>1. ASSUME NEW t \in Names PROVE /\ Op("scan", t, "delete", FALSE) \in R
                                         /\ Op("scan", t, "select", FALSE) \in R
        BY DEF Known, Op, RowArgs, Ops, Undoing
      <3>2. ASSUME NEW t \in Names, NEW k \in Keys, NEW r \in Rows \union {None}
            PROVE  Op("get", t, [key |-> k, row |-> r], FALSE) \in R
        <4>1. /\ [key |-> k, row |-> r] \in [key : Keys, row : Rows \union {None}]
              /\ [key |-> k, row |-> r] \in RowArgs /\ "get" \in Ops
          BY DEF RowArgs, Ops
        <4> QED BY <4>1 DEF Known, Op, Undoing
      <3> HIDE DEF R
      <3>3. CASE Delete
        <4>1. \E t \in Names : \/ program' = <<Op("scan", t, "delete", FALSE)>>
                              \/ \E k \in Keys :
                                   program' = <<Op("get", t, [key |-> k, row |-> None], FALSE)>>
          BY <3>3 DEF Delete, Run
        <4> QED BY <3>1, <3>2, <4>1
      <3>4. CASE Update
        <4>1. \E t \in Names, k \in Keys, r \in Rows :
                program' = <<Op("get", t, [key |-> k, row |-> r], FALSE)>>
          BY <3>4 DEF Update, Run
        <4> QED BY <3>2, <4>1
      <3>5. CASE Select
        <4>1. \E t \in Names : program' = <<Op("scan", t, "select", FALSE)>>
          BY <3>5 DEF Select, Run
        <4> QED BY <3>1, <4>1
      <3> QED BY <1>3, <3>3, <3>4, <3>5
    <2> HIDE DEF R
    <2>2. program' \in Seq(R)
      BY <2>1
    <2> HIDE DEF S
    <2> QED BY <1>0, <1>1, <2>2
  <1>4. CASE Begin \/ Commit
    <2>1. program' = << >>
      BY <1>4 DEF Begin, Commit, Run
    <2> HIDE DEF R, S
    <2> QED BY <1>0, <1>1, <2>1
  <1>5. CASE Close
    <2> DEFINE a == Op("flush", None, None, FALSE)
               b == Op("root", None, None, FALSE)
               c == Op("exit", None, None, FALSE)
    <2>1. a \in R /\ b \in R /\ c \in R
      BY DEF Known, Op, RowArgs, Ops, Undoing
    <2>2. program' = <<a, b, c>>
      BY <1>5 DEF Close
    <2> HIDE DEF R, S, a, b, c
    <2> QED BY <1>0, <1>1, <2>1, <2>2
  <1>6. CASE Rollback
    <2> DEFINE N == {t \in Names : open[t] # None /\ snap.counts[t] = None}
               O == {t \in Names : open[t] # None /\ snap.counts[t] # None}
               A == {None, snap.view} \union {snap.counts[t] : t \in Names}
               T == {o \in Known(A) : /\ ~o.nested
                                      /\ o.do = "forget" => o.table \in N
                                      /\ o.do = "shorten" => o.table \in O /\ o.arg \in Nat
                                      /\ o.do \in Undoing \union {"rolledBack"}}
               last == Op("rolledBack", None, snap.view, FALSE)
    <2>1. PICK new \in SetToSeqs(N), old \in SetToSeqs(O) :
            program' = [i \in DOMAIN new |-> Op("forget", new[i], None, FALSE)]
                       \o [i \in DOMAIN old |-> Op("shorten", old[i], snap.counts[old[i]], FALSE)]
                       \o <<last>>
      BY <1>6, Zenon DEF Rollback, Run
    <2>2. PICK k \in Nat, m \in Nat : new \in [1 .. k -> N] /\ old \in [1 .. m -> O]
      <3>1. N \in SUBSET Names /\ O \in SUBSET Names
        OBVIOUS
      <3> HIDE DEF N, O
      <3>2. Cardinality(N) \in Nat /\ Cardinality(O) \in Nat
        BY <3>1, NamesAssumption, FS_Subset, FS_CardinalityType
      <3> QED BY <3>2 DEF SetToSeqs
    <2>3. last \in T
      BY DEF Known, Op, Ops
    <2>4. \A t \in N : Op("forget", t, None, FALSE) \in T
      BY DEF Known, Op, Ops, Undoing
    <2>5. \A t \in O : Op("shorten", t, snap.counts[t], FALSE) \in T
      <3> TAKE t \in O
      <3>1. t \in Names /\ snap.counts[t] \in Nat /\ snap.counts[t] \in A /\ "shorten" \in Ops
        BY <1>6 DEF DataInv, DataType, Rollback, Ops
      <3> HIDE DEF A, O, N
      <3> QED BY <3>1 DEF Known, Op, Undoing
    <2>6. T \subseteq Known(A)
      OBVIOUS
    <2>14. \A o \in T : /\ ~o.nested
                        /\ o.do = "forget" => o.table \in N
                        /\ o.do = "shorten" => o.table \in O /\ o.arg \in Nat
                        /\ o.do \in Undoing \union {"rolledBack"}
      OBVIOUS
    <2>15. open' = open /\ \A t \in O : t \in Names /\ open[t] # None /\ t \notin N
      BY <1>6, Zenon DEF Rollback, Run
    <2> DEFINE f(t) == Op("forget", t, None, FALSE)
               g(t) == Op("shorten", t, snap.counts[t], FALSE)
               x == [i \in 1 .. k |-> f(new[i])]
               y == [i \in 1 .. m |-> g(old[i])]
    <2>7. program' = x \o y \o <<last>>
      BY <2>1, <2>2
    <2>8. (\A t \in N : f(t) \in T) /\ (\A t \in O : g(t) \in T)
      BY <2>4, <2>5
    <2> HIDE DEF T, last, f, g, N, O
    <2>9. x \in [1 .. k -> T] /\ y \in [1 .. m -> T]
      BY <2>2, <2>8
    <2> HIDE DEF x, y
    <2>10. x \in Seq(T) /\ y \in Seq(T) /\ <<last>> \in Seq(T)
      BY <2>3, <2>9
    <2>11. program' \in Seq(T)
      BY <2>7, <2>10
    <2>12. \A i \in DOMAIN program' : program'[i] \in T
      BY <2>11, SeqElements
    <2>13. program' \in Seq(Known(A))
      BY <2>6, <2>11, SeqGrows
    <2>16. \A i \in DOMAIN program' :
             /\ ~program'[i].nested
             /\ program'[i].do = "forget" => program'[i].table \in N
             /\ program'[i].do = "shorten" => program'[i].table \in O /\ program'[i].arg \in Nat
             /\ program'[i].do \in Undoing \union {"rolledBack"}
      BY <2>12, <2>14
    <2>17. Undone(program)' /\ Apart(program')
      <3>1. Undone(program)'
        BY <2>15, <2>16 DEF Undone
      <3>2. Apart(program')
        BY <2>16 DEF Apart
      <3> QED BY <3>1, <3>2
    <2>18. \A i \in DOMAIN program' : ~program'[i].nested
      BY <2>16
    <2>19. Planned(program')
      BY <2>16 DEF Planned, Undoing
    <2> HIDE DEF A
    <2> QED BY <2>13, <2>17, <2>18, <2>19, FlatProgram
  <1> QED BY <1>2, <1>3, <1>4, <1>5, <1>6

\* An operation that leads to others.
LEMMA FireProgram ==
    ASSUME DataInv, Fire
    PROVE  ProgramInv'
  <1>1. Ready("fire") /\ program # << >> /\ ~Head(program).nested
    BY ReadyFacts, HeadKnown DEF Fire, DataInv
  <1> DEFINE G == {g \in trig : g.table = Head(program).table /\ g.event = Head(program).arg}
  <1>2. PICK bodies \in SetToSeqs(G) :
          program' = FlattenSeq([i \in DOMAIN bodies |-> BodyOps(bodies[i])]) \o Tail(program)
    BY DEF Fire
  <1>3. G \subseteq TriggerDefs /\ DefaultsType
    BY DEF DataInv, CatalogInv, CatalogType, DataType
  <1> DEFINE f == FlattenSeq([i \in DOMAIN bodies |-> BodyOps(bodies[i])])
  <1> HIDE DEF G
  <1>4. f \in Seq(BodyShape) /\ Weight(f) <= MostNested
    BY <1>3, FireFacts DEF DefaultsType
  <1>5. program' = f \o Tail(program)
    BY <1>2
  <1> HIDE DEF f
  <1>6. BodyShape \subseteq Known(RowArgs) /\ \A o \in BodyShape : o.nested /\ o.do \notin Undoing
    BY DEF BodyShape, Undoing
  <1>7. f \in Seq(Known(RowArgs)) /\ \A i \in DOMAIN f : f[i].nested /\ f[i].do \notin Undoing
    BY <1>4, <1>6, SeqGrows, SeqElements
  <1>8. OpenKept
    <2>1. open' = open
      BY Zenon DEF Fire, trees
    <2> QED BY <2>1 DEF OpenKept
  <1>9. Head(program).do \notin Undoing \union {"del", "rolledBack"}
    BY <1>1, ReadyFacts DEF Undoing
  <1> QED BY <1>1, <1>4, <1>5, <1>7, <1>8, <1>9, JoinProgram DEF DataInv

\* The rows a scan or a search found, to be deleted one by one.
LEMMA DeleteProgram ==
    ASSUME ProgramInv, OpenKept, program # << >>, Head(program).nested => Head(program).do = "scan",
           Head(program).do \in {"scan", "get"},
           NEW t \in Names, NEW ks, ks \subseteq Keys,
           \/ program' = DeleteOps(t, ks, Head(program).nested) \o Tail(program)
           \/ program' = << >> \o Tail(program)
    PROVE  ProgramInv'
  <1> DEFINE n == Head(program).nested
             T == DeleteShape(t, n)
  <1>1. n \in BOOLEAN
    BY HeadKnown
  <1>2. PICK f \in {DeleteOps(t, ks, n), << >>} : program' = f \o Tail(program)
    OBVIOUS
  <1>3. f \in Seq(T) /\ (n => Len(f) <= Cardinality(Keys))
    <2>1. << >> \in Seq(T) /\ Len(<< >>) <= Cardinality(Keys)
      BY KeysCounted
    <2>2. DeleteOps(t, ks, n) \in Seq(T) /\ (n => Len(DeleteOps(t, ks, n)) <= Cardinality(Keys))
      BY <1>1, DeleteOpsFacts
    <2> HIDE DEF T, n
    <2> QED BY <2>1, <2>2
  <1>4. /\ T \subseteq Known(RowArgs)
        /\ \A o \in T : o.nested = n /\ o.do # "scan" /\ o.do \notin Undoing
    BY DEF DeleteShape, Undoing
  <1> HIDE DEF T
  <1>5. /\ f \in Seq(Known(RowArgs))
        /\ \A i \in DOMAIN f : f[i].nested = n /\ f[i].do # "scan" /\ f[i].do \notin Undoing
    BY <1>3, <1>4, SeqGrows, SeqElements
  <1>8. Head(program).do \notin Undoing \union {"del", "rolledBack"}
    BY DEF Undoing
  <1>6. CASE n
    <2>1. Weight(f) <= Len(f) /\ Weight(f) \in Nat
      BY <1>3, <1>5, WeightLen
    <2>2. Weight(<<Head(program)>>) = 1 + Cardinality(Keys)
      <3> DEFINE o == Head(program)
                 h == <<o>>
      <3>1. DOMAIN h = {1} /\ h[1] = o /\ o.nested /\ o.do = "scan"
        BY <1>6
      <3> HIDE DEF h
      <3>2. NestedAt(h) = {1} /\ ScansAt(h) = {1}
        BY <3>1 DEF NestedAt, ScansAt
      <3>3. Weight(h) = 1 + Cardinality(Keys)
        <4>1. Cardinality({1}) = 1
          BY FS_Singleton
        <4>2. Weight(h) = 1 + Cardinality(Keys) * 1
          BY <3>2, <4>1, Zenon DEF Weight
        <4> QED BY <4>2, KeysCounted
      <3> QED BY <3>3, Zenon DEF h
    <2>3. Weight(f) <= Weight(<<Head(program)>>)
      <3>1. Len(f) \in Nat
        BY <1>3
      <3>2. Len(f) <= Cardinality(Keys)
        BY <1>3, <1>6, Zenon
      <3> QED BY <2>1, <2>2, <3>1, <3>2, KeysCounted
    <2>4. \A i \in DOMAIN f : f[i].nested
      BY <1>5, <1>6
    <2> QED BY <1>2, <1>5, <1>6, <1>8, <2>3, <2>4, JoinProgram
  <1>7. CASE ~n
    <2>1. \A i \in DOMAIN f : ~f[i].nested
      BY <1>5, <1>7
    <2>2. Weight(f) <= MostNested
      BY <2>1, WeightFlat, MostNestedType
    <2> QED BY <1>2, <1>5, <1>7, <1>8, <2>1, <2>2, JoinProgram
  <1> QED BY <1>6, <1>7

LEMMA FindProgram ==
    ASSUME DataInv, ScanTable \/ Get \/ Shorten
    PROVE  ProgramInv'
  <1> DEFINE t == Head(program).table
  <1>0. OpenKept
    <2>1. CASE ScanTable BY <2>1 DEF ScanTable, trees, OpenKept
    <2>2. CASE Get BY <2>2, Zenon DEF Get, trees, OpenKept
    <2>3. CASE Shorten BY <2>3, Zenon DEF Shorten, trees, OpenKept
    <2> QED BY <2>1, <2>2, <2>3
  <1>1. CASE ScanTable
    <2>1. program # << >> /\ Head(program).do = "scan" /\ t \in Names /\ open[t] # None
      BY <1>1, ReadyFacts DEF ScanTable
    <2> DEFINE found == Present(Scan(open[t].root, open[t].len))
    <2>2. t \in Names /\ found \subseteq Keys
      BY <2>1, TreePage DEF DataInv
    <2>3. program' = (IF Head(program).arg = "delete" THEN DeleteOps(t, found, Head(program).nested)
                      ELSE << >>) \o Tail(program)
      BY <1>1 DEF ScanTable
    <2> HIDE DEF found
    <2>4. \/ program' = DeleteOps(t, found, Head(program).nested) \o Tail(program)
          \/ program' = << >> \o Tail(program)
      BY <2>3, Zenon
    <2> QED BY <1>0, <2>1, <2>2, <2>4, DeleteProgram DEF DataInv
  <1>2. CASE Get
    <2> DEFINE k == Head(program).arg.key
               new == Head(program).arg.row
    <2>1. program # << >> /\ Head(program).do = "get" /\ t \in Names /\ open[t] # None
      BY <1>2, ReadyFacts, Zenon DEF Get
    <2>2. t \in Names /\ k \in Keys /\ new \in Rows \union {None} /\ Head(program).nested = FALSE
      BY <2>1, HeadKnown, TreePage DEF DataInv
    <2>3. \/ program' = << >> \o Tail(program)
          \/ program' = DeleteOps(t, {k}, FALSE) \o Tail(program)
          \/ new # None /\ program' = UpdateOps(t, k, new) \o Tail(program)
      BY <1>2, Zenon DEF Get
    <2>4. CASE new # None /\ program' = UpdateOps(t, k, new) \o Tail(program)
      <3> DEFINE f == UpdateOps(t, k, new)
      <3>1. /\ f \in Seq(Known(RowArgs))
            /\ \A i \in DOMAIN f : ~f[i].nested /\ f[i].do \notin {"forget", "shorten"}
        BY <2>2, <2>4, UpdateOpsFacts
      <3>2. program' = f \o Tail(program)
        BY <2>4
      <3> HIDE DEF f
      <3>3. Weight(f) <= MostNested
        BY <3>1, WeightFlat, MostNestedType
      <3>4. /\ ProgramInv /\ ~Head(program).nested /\ \A i \in DOMAIN f : f[i].do \notin Undoing
            /\ Head(program).do \notin Undoing \union {"del", "rolledBack"}
        BY <2>1, <2>2, <3>1 DEF DataInv, Undoing
      <3> QED BY <1>0, <2>1, <3>1, <3>2, <3>3, <3>4, JoinProgram
    <2>5. CASE \/ program' = << >> \o Tail(program)
               \/ program' = DeleteOps(t, {k}, FALSE) \o Tail(program)
      <3>1. {k} \subseteq Keys
        BY <2>2
      <3> QED BY <1>0, <2>1, <2>2, <2>5, <3>1, DeleteProgram DEF DataInv
    <2> QED BY <2>3, <2>4, <2>5, Zenon
  <1>3. CASE Shorten
    <2> DEFINE found == Present(Scan(open[t].root, open[t].len))
               ks == Sorted(found)
               go == SubSeq(ks, Head(program).arg + 1, Len(ks))
               f == [i \in DOMAIN go |-> Op("del", t, go[i], FALSE)]
    <2>1. program # << >> /\ Head(program).do = "shorten" /\ ~Head(program).nested
      BY <1>3, HeadKnown, Zenon DEF Shorten, Running, DataInv
    <2>2. program' = f \o Tail(program)
      BY <1>3, Zenon DEF Shorten
    <2>3. t \in Names /\ open[t] # None /\ Head(program).arg \in Nat
      <3>1. Undone(program) /\ 1 \in DOMAIN program /\ Head(program) = program[1]
        BY <2>1, HeadPlace DEF DataInv, ProgramInv
      <3> QED BY <2>1, <3>1 DEF Undone
    <2>4. found \subseteq Keys
      BY <2>3, TreePage DEF DataInv
    <2> HIDE DEF found
    <2>5. ks \in Seq(Keys)
      BY <2>4, SortedFacts
    <2> HIDE DEF ks
    <2>6. go \in Seq(Keys)
      <3>1. CASE Head(program).arg <= Len(ks)
        BY <2>3, <2>5, <3>1
      <3>2. CASE Head(program).arg > Len(ks)
        BY <2>3, <2>5, <3>2
      <3> QED BY <2>3, <2>5, <3>1, <3>2
    <2> HIDE DEF go
    <2> DEFINE T == {o \in Known(RowArgs) : ~o.nested /\ o.do \notin Undoing /\ o.do = "del"}
               d(k) == Op("del", t, k, FALSE)
    <2>7. \A k \in Keys : d(k) \in T
      BY <2>3 DEF Known, Op, RowArgs, Ops, Undoing
    <2>8. T \subseteq Known(RowArgs) /\ \A o \in T : ~o.nested /\ o.do \notin Undoing /\ o.do = "del"
      OBVIOUS
    <2>9. f = [i \in DOMAIN go |-> d(go[i])]
      OBVIOUS
    <2> HIDE DEF T, d, f
    <2>10. f \in Seq(T)
      BY <2>6, <2>7, <2>9
    <2>11. f \in Seq(Known(RowArgs)) /\ \A i \in DOMAIN f : ~f[i].nested /\ f[i].do \notin Undoing /\ f[i].do = "del"
      BY <2>8, <2>10, SeqGrows, SeqElements
    <2>12. Weight(f) <= MostNested
      BY <2>11, WeightFlat, MostNestedType
    <2> QED BY <1>0, <2>1, <2>2, <2>11, <2>12, JoinProgram DEF DataInv
  <1> QED BY <1>1, <1>2, <1>3

LEMMA SameProgram ==
    ASSUME ProgramInv, program' = program,
           program = << >> \/ \A t \in Names : open[t] # None => open'[t] # None
    PROVE  ProgramInv'
  <1>1. ProgramType' /\ Prefixed(program') /\ Weight(program') <= MostNested /\ Apart(program')
    BY DEF ProgramInv, ProgramType
  <1>2. Undone(program)'
    BY DEF ProgramInv, Undone
  <1> QED BY <1>1, <1>2 DEF ProgramInv

\* An error, or the end of the process.
LEMMA NoProgram ==
    ASSUME program' = << >>
    PROVE  ProgramInv'
  <1>1. program' \in Seq(Known({}))
    BY SMT
  <1>2. ~ \E i \in DOMAIN program' : TRUE
    OBVIOUS
  <1>3. Undone(program)' /\ Apart(program')
    BY <1>2 DEF Undone, Apart
  <1> QED BY <1>1, <1>2, <1>3, FlatProgram

LEMMA OperationProgram ==
    ASSUME DataInv,
           Find \/ Check \/ Put \/ Del \/ Save \/ ForgetTable \/ RolledBack \/ Flush \/ SetCatalogRoot
    PROVE  ProgramInv'
  <1> USE DEF DataInv
  <1>1. CASE Find \/ RolledBack \/ Flush \/ SetCatalogRoot
    <2>1. program # << >> /\ program' = Tail(program) /\ open' = open
      BY <1>1 DEF Find, RolledBack, Flush, SetCatalogRoot, Running, Done, trees
    <2> QED BY <2>1, TailProgram DEF OpenKept
  <1>2. CASE Check
    <2>1. CASE Fail
      BY <2>1, NoProgram DEF Fail
    <2>2. CASE ~Fail
      <3>1. program # << >> /\ program' = Tail(program) /\ open' = open
        BY <1>2, <2>2, Zenon DEF Check, Ready, Running, Done, trees
      <3> QED BY <3>1, TailProgram DEF OpenKept
    <2> QED BY <2>1, <2>2
  <1>3. CASE Put \/ Del
    <2>1. program # << >> /\ program' = Tail(program)
      BY <1>3, Zenon DEF Put, Del, Ready, Running, Done
    <2>2. \E t \in Names, n \in 0 .. SizeWidth - 1 :
            open[t] # None /\ open' = [open EXCEPT ![t].len = n]
      BY <1>3, CountStep DEF OpenTables, CatalogInv
    <2>3. OpenKept
      BY <2>2, HandleIsSome DEF OpenKept, CatalogInv, CatalogType, Handles
    <2> QED BY <2>1, <2>3, TailProgram
  <1>4. CASE Save
    <2>1. program # << >> /\ program' = Tail(program) /\ open' = open
      BY <1>4 DEF Save, Running, Done
    <2> QED BY <2>1, TailProgram DEF OpenKept
  <1>5. CASE ForgetTable
    <2>1. /\ program # << >> /\ program' = Tail(program) /\ Head(program).do = "forget"
          /\ open' = [open EXCEPT ![Head(program).table] = None]
      BY <1>5 DEF ForgetTable, Forget, Running, Done
    <2>2. OpenKept
      BY <2>1 DEF OpenKept, CatalogInv, CatalogType
    <2> QED BY <2>1, <2>2, TailProgram
  <1> QED BY <1>1, <1>2, <1>3, <1>4, <1>5

LEMMA NextProgram ==
    ASSUME DataInv, [Next]_vars
    PROVE  ProgramInv'
  <1> USE DEF DataInv
  <1>1. CASE UNCHANGED vars
    BY <1>1, SameProgram DEF vars, trees
  <1>2. CASE Insert \/ Delete \/ Update \/ Select \/ Begin \/ Commit \/ Rollback \/ Close
    BY <1>2, BeginProgram
  <1>3. CASE CreateTable \/ DropTable \/ RenameTable \/ CreateTrigger \/ DropTrigger
    <2>1. program = << >> /\ program' = program
      BY <1>3 DEF CreateTable, DropTable, RenameTable, CreateTrigger, DropTrigger, Statement, Idle
    <2> QED BY <2>1, NoProgram
  <1>4. CASE Open
    <2>1. program = << >> /\ program' = program
      BY <1>4 DEF Open, DataType
    <2> QED BY <2>1, NoProgram
  <1>5. CASE OpenTable
    <2>1. program' = program
      BY <1>5 DEF OpenTable
    <2>2. \A t \in Names : open[t] # None => open'[t] # None
      <3> PICK t \in Needs(Head(program)) :
            /\ open[t] = None
            /\ \/ open' = [open EXCEPT ![t] = [root |-> cache[t].root, len |-> cache[t].count]]
               \/ open' = [open EXCEPT ![t] = [root |-> pageCount, len |-> 0]]
        BY <1>5, Zenon DEF OpenTable
      <3> QED BY DEF CatalogInv, CatalogType
    <2> QED BY <2>1, <2>2, SameProgram
  <1>6. CASE NoTable \/ BadBody \/ NoKey \/ Crash \/ Exit \/ Overflow \/ DelPanics
    <2>1. program' = << >>
      BY <1>6 DEF NoTable, BadBody, NoKey, Crash, Exit, Overflow, DelPanics, Fail, NoProcess
    <2> QED BY <2>1, NoProgram
  <1>7. CASE ScanTable \/ Get \/ Shorten
    BY <1>7, FindProgram
  <1>8. CASE Fire
    BY <1>8, FireProgram
  <1>9. CASE Find \/ Check \/ Put \/ Del \/ Save \/ ForgetTable \/ RolledBack \/ Flush \/ SetCatalogRoot
    BY <1>9, OperationProgram
  <1> QED BY <1>1, <1>2, <1>3, <1>4, <1>5, <1>6, <1>7, <1>8, <1>9 DEF Next, Continue

LEMMA InitData == Init => DataInv
  <1> SUFFICES ASSUME Init PROVE DataInv
    OBVIOUS
  <1>1. CatalogInv
    BY InitCatalogInv
  <1>2. ProgramInv
    <2>1. program = << >> /\ ~ \E i \in DOMAIN program : TRUE
      BY DEF Init
    <2>2. program \in Seq(Known({}))
      BY <2>1, SMT
    <2>3. ProgramType
      BY <2>2, Zenon DEF ProgramType
    <2>4. Weight(program) = 0 /\ Prefixed(program) /\ Undone(program) /\ Apart(program)
      BY <2>1, WeightFlat DEF Prefixed, Undone, Apart
    <2> QED BY <2>3, <2>4, MostNestedType DEF ProgramInv
  <1>3. DataType
    <2>1. 0 \in 0 .. Len(Statements)
      BY BoundsAssumption
    <2>2. rows \in [Pages -> [Keys -> Vals \union {None}]]
      BY DEF Init, NoRows
    <2>3. NoTables \in [Names -> {None}] /\ defaults = NoTables /\ cons = NoTables
      BY EmptyCatalog DEF Init
    <2>4. DefaultsType /\ cons \in [Names -> ConstraintDefs \union {None}]
      BY <2>3 DEF DefaultsType
    <2> QED BY <2>1, <2>2, <2>4 DEF Init, DataType
  <1> QED BY <1>1, <1>2, <1>3 DEF DataInv

\* What reads only, fails or begins changes none of the data.
LEMMA QuietData ==
    ASSUME DataInv,
           \/ Find \/ NoTable \/ ScanTable \/ Get \/ Check \/ Fire \/ RolledBack
           \/ BadBody \/ NoKey \/ Close \/ Shorten \/ Insert \/ Delete \/ Update \/ Select
           \/ Begin \/ Commit \/ Rollback
    PROVE  DataType'
  <1> USE DEF DataInv
  <1> DEFINE same == UNCHANGED <<file, up, trees, cons, snap, history>>
  <1>1. CASE Find \/ ScanTable \/ Get \/ Fire \/ RolledBack \/ Close \/ Shorten
    <2>1. same /\ up
      <3>1. CASE Find BY <3>1 DEF Find, Running
      <3>2. CASE ScanTable BY <3>2 DEF ScanTable, Ready, Running
      <3>3. CASE Get BY <3>3, Zenon DEF Get, Ready, Running
      <3>4. CASE Fire BY <3>4, Zenon DEF Fire, Ready, Running
      <3>5. CASE RolledBack BY <3>5 DEF RolledBack, Running
      <3>6. CASE Close BY <3>6 DEF Close, Idle
      <3>7. CASE Shorten BY <3>7, Zenon DEF Shorten, Running
      <3> QED BY <1>1, <3>1, <3>2, <3>3, <3>4, <3>5, <3>6, <3>7
    <2> QED BY <2>1 DEF DataType, DefaultsType, file, trees, history
  <1>2. CASE NoTable \/ Check \/ BadBody \/ NoKey
    <2>1. (same \/ Fail) /\ up
      BY <1>2 DEF NoTable, Check, BadBody, NoKey, Ready, Running
    <2>2. CASE Fail
      <3>1. /\ UNCHANGED <<file, up, trees, cons, snap, session, statements, stale, renamed>>
            /\ unsaved' = {} /\ uncounted' = uncounted \union unsaved
        BY <2>2 DEF Fail
      <3> QED BY <2>1, <3>1 DEF DataType, DefaultsType, file, trees
    <2>3. CASE same
      BY <2>1, <2>3 DEF DataType, DefaultsType, file, trees, history
    <2> QED BY <2>1, <2>2, <2>3, Zenon
  <1>3. CASE Insert \/ Delete \/ Update \/ Select \/ Begin \/ Commit \/ Rollback
    <2>1. Statement
      BY <1>3 DEF Insert, Delete, Update, Select, Begin, Commit, Rollback
    <2>2. \E ops : Run(ops)
      <3>1. CASE Insert BY <3>1 DEF Insert
      <3>2. CASE Delete BY <3>2 DEF Delete
      <3>3. CASE Update BY <3>3 DEF Update
      <3>4. CASE Select BY <3>4 DEF Select
      <3>5. CASE Begin BY <3>5 DEF Begin
      <3>6. CASE Commit BY <3>6 DEF Commit
      <3>7. CASE Rollback BY <3>7 DEF Rollback
      <3> QED BY <1>3, <3>1, <3>2, <3>3, <3>4, <3>5, <3>6, <3>7
    <2>3. /\ UNCHANGED <<rows, cats, cache, defaults, trig, open, cons, renamed, unsaved, uncounted>>
          /\ UNCHANGED <<session, stale, up, catRoot>> /\ up /\ statements' = statements + 1
      BY <2>1, <2>2 DEF Run, Statement, Idle
    <2>4. snap' # None => snap'.counts \in [Names -> Nat \union {None}]
      <3>1. CASE Begin
        <4> DEFINE c == [t \in Names |-> IF open[t] = None THEN None ELSE open[t].len]
        <4>1. snap' = [counts |-> c, view |-> View]
          BY <3>1 DEF Begin
        <4>2. \A t \in Names : open[t] # None => open[t].len \in Nat
          BY WidthFacts DEF CatalogInv, CatalogType, Handles
        <4> QED BY <4>1, <4>2
      <3>2. CASE ~Begin
        <4>1. snap' = snap \/ snap' = None
          BY <1>3, <3>2 DEF Insert, Delete, Update, Select, Commit, Rollback
        <4> QED BY <4>1 DEF DataType
      <3> QED BY <3>1, <3>2
    <2> QED BY <2>3, <2>4 DEF DataType, DefaultsType
  <1> QED BY <1>1, <1>2, <1>3

LEMMA NextData ==
    ASSUME DataInv, [Next]_vars
    PROVE  DataType'
  <1> USE DEF DataInv
  <1>1. CASE UNCHANGED vars
    BY <1>1 DEF vars, file, trees, history, DataType, DefaultsType
  <1>2. CASE \/ Find \/ NoTable \/ ScanTable \/ Get \/ Check \/ Fire \/ RolledBack
             \/ BadBody \/ NoKey \/ Close \/ Shorten \/ Insert \/ Delete \/ Update \/ Select
             \/ Begin \/ Commit \/ Rollback
    BY <1>2, QuietData
  <1>3. CASE CreateTable
    <2> PICK t \in Names, c \in ConstraintDefs :
          /\ cons' = [cons EXCEPT ![t] = c]
          /\ defaults' = [defaults EXCEPT ![t] = c.default]
      BY <1>3 DEF CreateTable
    <2>1. c.default \in Rows \union {None}
      BY ConstraintsAssumption
    <2>2. /\ UNCHANGED <<rows, snap, renamed, unsaved, uncounted, session, stale, up>>
          /\ up /\ statements' = statements + 1
      BY <1>3 DEF CreateTable, Statement, Idle
    <2> QED BY <2>1, <2>2 DEF DataType, DefaultsType
  <1>4. CASE DropTable
    <2> PICK t \in Names : Forget(t)
      BY <1>4 DEF DropTable
    <2>1. /\ UNCHANGED <<rows, cons, snap, renamed, unsaved, session, stale, up>>
          /\ up /\ statements' = statements + 1
      BY <1>4 DEF DropTable, Statement, Idle
    <2> QED BY <2>1 DEF DataType, DefaultsType, Forget
  <1>5. CASE RenameTable
    <2> PICK t \in Names, u \in Names :
          /\ t # u
          /\ defaults' = [defaults EXCEPT ![t] = None, ![u] = defaults[t]]
          /\ renamed' = renamed \union {t, u}
      BY <1>5 DEF RenameTable
    <2>1. /\ UNCHANGED <<rows, cons, snap, unsaved, uncounted, session, stale, up>>
          /\ up /\ statements' = statements + 1
      BY <1>5 DEF RenameTable, Statement, Idle
    <2> QED BY <2>1 DEF DataType, DefaultsType
  <1>6. CASE CreateTrigger \/ DropTrigger
    <2>1. /\ UNCHANGED <<rows, defaults, cons, snap, renamed, unsaved, uncounted, session, stale, up>>
          /\ up /\ statements' = statements + 1
      BY <1>6 DEF CreateTrigger, DropTrigger, Statement, Idle
    <2> QED BY <2>1 DEF DataType, DefaultsType
  <1>7. CASE Open
    <2>1. NoRows \in [Keys -> Vals \union {None}]
      BY DEF NoRows
    <2>2. rows' \in [Pages -> [Keys -> Vals \union {None}]]
      BY <1>7, <2>1 DEF Open, DataType
    <2>3. /\ UNCHANGED <<defaults, cons, snap, renamed, unsaved, uncounted>>
          /\ up' /\ session' \in 0 .. Len(Statements) /\ statements' = 0
      BY <1>7, BoundsAssumption DEF Open, DataType
    <2>4. stale' \in BOOLEAN
      BY <1>7 DEF Open
    <2> QED BY <2>2, <2>3, <2>4 DEF DataType, DefaultsType
  <1>8. CASE OpenTable
    <2>1. NoRows \in [Keys -> Vals \union {None}]
      BY DEF NoRows
    <2>2. rows' = rows \/ rows' = [rows EXCEPT ![pageCount] = NoRows]
      BY <1>8 DEF OpenTable, NewTree
    <2>3. rows' \in [Pages -> [Keys -> Vals \union {None}]]
      BY <2>1, <2>2 DEF DataType
    <2>4. /\ UNCHANGED <<defaults, cons, snap, renamed, unsaved, uncounted, session, statements, stale, up>>
          /\ up
      BY <1>8 DEF OpenTable
    <2> QED BY <2>3, <2>4 DEF DataType, DefaultsType
  <1>9. CASE Put
    <2> DEFINE t == Head(program).table
               r == Head(program).arg
               p == Page(open[t].root)
    <2>1. /\ up /\ t \in Names /\ program # << >> /\ Head(program).do = "put" /\ r # None
      BY <1>9, ReadyFacts DEF Put
    <2>2. r \in Rows
      BY <2>1, HeadKnown
    <2>3. rows' = [rows EXCEPT ![p][r.key] = r.val]
      BY <1>9 DEF Put
    <2>4. rows' \in [Pages -> [Keys -> Vals \union {None}]]
      BY <2>2, <2>3 DEF DataType, Rows
    <2>5. /\ UNCHANGED <<up, defaults, cons, snap, session, statements, stale, renamed>>
          /\ unsaved' \in {unsaved, unsaved \union {t}}
          /\ uncounted' \in {uncounted, uncounted \union {t}}
      BY <1>9 DEF Put
    <2> QED BY <2>1, <2>4, <2>5 DEF DataType, DefaultsType
  <1>10. CASE Del
    <2>1. PICK p, k : rows' = [rows EXCEPT ![p][k] = None]
      BY <1>10 DEF Del
    <2>2. rows' \in [Pages -> [Keys -> Vals \union {None}]]
      <3>1. rows' = [rows EXCEPT ![p] = [rows[p] EXCEPT ![k] = None]]
        BY <2>1
      <3>2. p \in Pages => [rows[p] EXCEPT ![k] = None] \in [Keys -> Vals \union {None}]
        BY DEF DataType
      <3> QED BY <3>1, <3>2 DEF DataType
    <2>3. UNCHANGED <<up, defaults, cons, snap, history>> /\ up
      BY <1>10 DEF Del, Ready, Running
    <2> QED BY <2>2, <2>3 DEF DataType, DefaultsType, history
  <1>11. CASE Save
    <2>1. /\ UNCHANGED <<rows, up, defaults, cons, snap, session, statements, stale, renamed, uncounted>>
          /\ unsaved' \subseteq unsaved /\ up
      BY <1>11 DEF Save, Running
    <2> QED BY <2>1 DEF DataType, DefaultsType
  <1>12. CASE ForgetTable
    <2>1. /\ UNCHANGED <<rows, up, cons, snap, session, statements, stale, renamed, unsaved>>
          /\ Forget(Head(program).table) /\ up
      BY <1>12 DEF ForgetTable, Running
    <2> QED BY <2>1 DEF DataType, DefaultsType, Forget
  <1>13. CASE Flush \/ SetCatalogRoot
    <2>1. UNCHANGED <<rows, up, trees, cons, snap, history>> /\ up
      BY <1>13 DEF Flush, SetCatalogRoot, Running
    <2> QED BY <2>1 DEF DataType, DefaultsType, trees, history
  <1>14. CASE Crash \/ Exit \/ Overflow \/ DelPanics
    <2>1. rows' \in [Pages -> [Keys -> Vals \union {None}]]
      <3>1. rows' = rows \/ \E p, k : rows' = [rows EXCEPT ![p][k] = None]
        BY <1>14 DEF Crash, Exit, Overflow, DelPanics
      <3> QED BY <3>1 DEF DataType
    <2>2. NoProcess
      BY <1>14 DEF Crash, Exit, Overflow, DelPanics
    <2>3. NoTables \in [Names -> {None}]
      BY EmptyCatalog
    <2> QED BY <2>1, <2>2, <2>3 DEF NoProcess, DataType, DefaultsType
  <1> QED BY <1>1, <1>2, <1>3, <1>4, <1>5, <1>6, <1>7, <1>8, <1>9, <1>10, <1>11, <1>12, <1>13, <1>14
          DEF Next, Continue

LEMMA DataInvariance == Spec => []DataInv
  <1>1. DataInv /\ [Next]_vars => DataInv'
    BY NextCatalogInv, NextProgram, NextData DEF DataInv
  <1> QED BY InitData, <1>1, PTL DEF Spec

(***************************************************************************)
(* The bodies of triggers fire no triggers: what a statement has to do for *)
(* them is bounded by their number, however many rows it changes, because  *)
(* what is put before the rest of the program is short, and only an        *)
(* operation outside of a body fires.                                      *)
(***************************************************************************)
THEOREM TriggersAreBounded == Spec => []TriggersEnd
  <1>1. DataInv => TriggersEnd
    <2> SUFFICES ASSUME DataInv PROVE TriggersEnd
      OBVIOUS
    <2>1. PICK A : program \in Seq(Known(A))
      BY DEF DataInv, ProgramInv, ProgramType
    <2> DEFINE T == Known(A)
               Z == {o \in T : o.nested}
               Y == {o \in T : o.nested /\ o.do = "scan"}
    <2>2. program \in Seq(T)
      BY <2>1
    <2>3. NestedAt(program) = Marked(program, Z) /\ ScansAt(program) = Marked(program, Y)
      <3> HIDE DEF T
      <3>1. \A i \in DOMAIN program : program[i] \in T
        BY <2>2
      <3> QED BY <3>1, Zenon DEF NestedAt, ScansAt, Marked
    <2> HIDE DEF T, Z, Y
    <2> DEFINE x == Cardinality(NestedAt(program))
               y == Cardinality(ScansAt(program))
               K == Cardinality(Keys)
    <2>4. x \in Nat /\ y \in Nat /\ K \in Nat
      BY <2>2, <2>3, MarkedCounted, KeysCounted
    <2>5. x + K * y <= MostNested
      BY Zenon DEF DataInv, ProgramInv, Weight
    <2> HIDE DEF x, y, K
    <2>6. x <= MostNested
      <3>1. K * y \in Nat
        BY <2>4
      <3> QED BY <2>4, <2>5, <3>1, MostNestedType
    <2> QED BY <2>6 DEF x, TriggersEnd, NestedAt, MostNested
  <1> QED BY <1>1, DataInvariance, PTL

\* Every variable has its type, whatever the statements and the triggers are.
THEOREM DatabaseTypes == Spec => []TypeOK
  <1>1. DataInv => TypeOK
    <2> SUFFICES ASSUME DataInv PROVE TypeOK
      OBVIOUS
    <2>1. \A op \in Range(program) : op.do \in Ops /\ op.table \in Names \union {None}
      <3>1. PICK A : program \in Seq(Known(A))
        BY DEF DataInv, ProgramInv, ProgramType
      <3> DEFINE T == Known(A)
      <3>2. program \in Seq(T)
        BY <3>1
      <3>3. \A o \in T : o.do \in Ops /\ o.table \in Names \union {None}
        BY DEF Known
      <3> HIDE DEF T
      <3> QED BY <3>2, <3>3 DEF Range
    <2>2. /\ cats \in [Pages -> [tables : [Names -> CatMeta \union {None}], triggers : SUBSET TriggerDefs]]
          /\ savedCount \in 0 .. NumPages /\ savedRoot \in Pages
          /\ up \in BOOLEAN
          /\ pageCount \in 0 .. NumPages /\ catRoot \in Pages \union {None}
          /\ cache \in [Names -> MemMeta \union {None}]
          /\ open \in [Names -> [root : Pages \union {Unset}, len : 0 .. SizeWidth - 1] \union {None}]
          /\ trig \in SUBSET TriggerDefs
      BY DEF DataInv, CatalogInv, CatalogType, DataType, Catalogs, Handles
    <2> QED BY <2>1, <2>2 DEF DataInv, DataType, DefaultsType, TypeOK
  <1> QED BY <1>1, DataInvariance, PTL
---------------------------------------------------------------------------
(***************************************************************************)
(* Counts: what the handle of a table and the catalog count is at least    *)
(* what its tree holds, as long as no count outgrew the catalog's record.  *)
(* Inserts count and save what they put.  An update puts back a row for    *)
(* one it takes out, and what its triggers do in between leaves the table  *)
(* alone.                                                                  *)
(***************************************************************************)
Exact(t) == t \notin renamed \union uncounted

Size(p) == Cardinality(Present(rows[p]))

\* No count of a table outgrew a u32.
CountsFit ==
    ~stale => \A t \in Names :
        Exact(t) /\ open[t] # None /\ open[t].root \in Pages => open[t].len < RecordWidth

HandleCounts(t) ==
    open[t] # None /\ open[t].root \in Pages => Size(open[t].root) <= open[t].len

CatalogCounts(t) ==
    cache[t] # None =>
        /\ cache[t].root = None => cache[t].count = 0
        /\ cache[t].root \in Pages =>
              /\ cache[t].count < RecordWidth
              /\ t \notin unsaved => Size(cache[t].root) <= cache[t].count

TableCounts(t) == Exact(t) => HandleCounts(t) /\ CatalogCounts(t)

SavedCounts ==
    savedRoot # 0 => \A t \in Names :
        LET m == cats[savedRoot].tables[t]
        IN  Exact(t) /\ m # None /\ m.root \in Pages => Size(m.root) <= m.count

\* An operation that an update leads to before it puts its row, or one of
\* another table.
Unharmed(o, t) ==
    \/ o.do = "fire" /\ o.table = t /\ o.arg = "update"
    \/ o.do = "del" /\ o.table = t
    \/ o.nested /\ o.table # t /\ o.do \in {"find", "check", "put", "save", "scan", "del", "error"}

Clears(q, i, t) == \A j \in DOMAIN q : j < i => Unharmed(q[j], t)

\* The keys that are deleted from the table before the i-th operation.
Gone(q, i, t) == {q[j].arg : j \in {k \in DOMAIN q : k < i /\ q[k].do = "del" /\ q[k].table = t}}

\* The catalog counts one row more than is left without the keys.
Spare(t, ks) ==
    Exact(t) /\ t \notin unsaved =>
        /\ cache[t] # None /\ cache[t].root # None
        /\ cache[t].root \in Pages =>
              Cardinality(Present(rows[cache[t].root]) \ ks) < cache[t].count

PutsBack(q, i, t) == ~UpdatesItself(t) => Clears(q, i, t) /\ Spare(t, Gone(q, i, t))

PutsCounted(q) ==
    \A i \in DOMAIN q : q[i].do = "put" => Saves(q, i) \/ PutsBack(q, i, q[i].table)

\* Rows that are still to be counted will be, and their table stays open.
UnsavedOpen == \A t \in unsaved : open[t] # None /\ Saved(t)

CountInv ==
    ~stale =>
      /\ up => (\A t \in Names : TableCounts(t)) /\ PutsCounted(program)
      /\ ~up => SavedCounts

FullInv == TreesInv /\ RowsInv /\ DataInv /\ UnsavedOpen

\* How many rows there are.
LEMMA SizeFacts ==
    ASSUME DataType, NEW p \in Pages
    PROVE  /\ Present(rows[p]) \subseteq Keys /\ IsFiniteSet(Present(rows[p]))
           /\ Size(p) \in Nat
           /\ \A ks : /\ Cardinality(Present(rows[p]) \ ks) \in Nat
                      /\ Cardinality(Present(rows[p]) \ ks) <= Size(p)
           /\ \A ks, S : S \subseteq Present(rows[p]) \ ks =>
                 /\ IsFiniteSet(S) /\ Cardinality(S) \in Nat
                 /\ Cardinality(S) <= Cardinality(Present(rows[p]) \ ks)
           /\ \A k \in Present(rows[p]) : Cardinality(Present(rows[p]) \ {k}) = Size(p) - 1
           /\ Size(p) = 0 => rows[p] = NoRows
  <1> DEFINE P == Present(rows[p])
  <1>1. rows[p] \in [Keys -> Vals \union {None}]
    BY DEF DataType
  <1>2. P \subseteq Keys /\ (P = {} => rows[p] = NoRows)
    BY <1>1 DEF Present, NoRows
  <1> HIDE DEF P
  <1>3. IsFiniteSet(P) /\ Cardinality(P) \in Nat
    BY <1>2, KeysAssumption, FS_Subset, FS_CardinalityType
  <1>4. \A S : S \subseteq P => IsFiniteSet(S) /\ Cardinality(S) \in Nat /\ Cardinality(S) <= Cardinality(P)
    BY <1>3, FS_Subset, FS_CardinalityType
  <1>5. \A ks, S : S \subseteq P \ ks =>
          /\ IsFiniteSet(S) /\ Cardinality(S) \in Nat /\ Cardinality(S) <= Cardinality(P \ ks)
    <2> SUFFICES ASSUME NEW ks, NEW S, S \subseteq P \ ks
                 PROVE  IsFiniteSet(S) /\ Cardinality(S) \in Nat /\ Cardinality(S) <= Cardinality(P \ ks)
      OBVIOUS
    <2>1. IsFiniteSet(P \ ks)
      BY <1>3, FS_Subset
    <2> QED BY <2>1, FS_Subset, FS_CardinalityType
  <1>6. \A k \in P : Cardinality(P \ {k}) = Cardinality(P) - 1
    BY <1>3, FS_RemoveElement
  <1>7. Cardinality(P) = 0 => P = {}
    BY <1>3, FS_EmptySet
  <1> QED BY <1>2, <1>3, <1>4, <1>5, <1>6, <1>7 DEF P, Size

\* The operations of one table leave the pages of the others alone.
LEMMA OtherPage ==
    ASSUME CatalogInv, TreesInv, up, ~stale, NEW t \in Names \ renamed, NEW p \in Pages,
           RefersTo(t, p), NEW h \in Names, h # t, open[h] # None
    PROVE  p # Page(open[h].root)
  <1>1. /\ open[h] \in Handles /\ RootsCounted /\ RootsDiffer
    BY DEF CatalogInv, CatalogType, TreesInv
  <1>2. p \in 1 .. pageCount - 1 /\ p # 0
    <2>1. p \in 1 .. pageCount - 1
      BY <1>1 DEF RootsCounted
    <2> QED BY <2>1, WidthFacts DEF CatalogInv, CatalogType
  <1>3. CASE open[h].root = Unset
    BY <1>2, <1>3 DEF Page
  <1>4. CASE open[h].root # Unset
    <2>1. RefersTo(h, open[h].root) /\ open[h].root \in Pages
      BY <1>1, <1>4 DEF RefersTo, Handles
    <2> HIDE DEF RefersTo
    <2>2. p # open[h].root
      BY <1>1, <2>1 DEF RootsDiffer
    <2> QED BY <1>4, <2>2 DEF Page
  <1> QED BY <1>3, <1>4

\* The table an operation of one table works on.
Target(h) ==
    /\ up /\ up'
    /\ renamed' = renamed
    /\ \A t \in Names \ {h} : /\ open'[t] = open[t] /\ cache'[t] = cache[t]
                              /\ t \in unsaved' <=> t \in unsaved
                              /\ t \in uncounted' <=> t \in uncounted
    /\ \A t \in Names \ (renamed \union {h}) : \A p \in Pages : RefersTo(t, p) => rows'[p] = rows[p]

LEMMA CountTarget ==
    ASSUME CatalogInv, TreesInv, RowsInv, ~stale, Put \/ Del
    PROVE  Target(Head(program).table)
  <1> DEFINE h == Head(program).table
  <1>1. /\ up /\ up' = up /\ h \in Names /\ open[h] # None /\ renamed' = renamed
        /\ cache' = cache
    BY CountStep DEF CatalogInv, OpenTables
  <1>2. PICK n \in 0 .. SizeWidth - 1 : open' = [open EXCEPT ![h].len = n]
    BY CountStep DEF CatalogInv
  <1>3. PICK f : rows' = [rows EXCEPT ![Page(open[h].root)] = f]
    BY CountStep DEF CatalogInv
  <1>4. unsaved' \in {unsaved, unsaved \union {h}} /\ uncounted' \in {uncounted, uncounted \union {h}}
    <2>1. CASE Put BY <2>1 DEF Put
    <2>2. CASE Del BY <2>2 DEF Del, history
    <2> QED BY <2>1, <2>2
  <1>5. \A t \in Names \ (renamed \union {h}) : \A p \in Pages : RefersTo(t, p) => rows'[p] = rows[p]
    <2> SUFFICES ASSUME NEW t \in Names \ (renamed \union {h}), NEW p \in Pages, RefersTo(t, p)
                 PROVE  rows'[p] = rows[p]
      OBVIOUS
    <2>1. p # Page(open[h].root)
      BY <1>1, OtherPage
    <2> QED BY <1>3, <2>1 DEF RowsInv
  <1>6. \A t \in Names \ {h} : open'[t] = open[t] /\ cache'[t] = cache[t]
    BY <1>1, <1>2 DEF CatalogInv, CatalogType
  <1> QED BY <1>1, <1>4, <1>5, <1>6 DEF Target

LEMMA SaveTarget ==
    ASSUME CatalogInv, Save
    PROVE  Target(Head(program).table)
  <1> DEFINE h == Head(program).table
  <1>1. /\ up /\ up' = up /\ renamed' = renamed /\ open' = open /\ rows' = rows
        /\ cache' = [cache EXCEPT ![h] = CountRows(h)]
        /\ unsaved' = unsaved \ {h} /\ uncounted' = uncounted
    BY DEF Save, SaveMeta, Running
  <1>2. \A t \in Names \ {h} : cache'[t] = cache[t]
    BY <1>1 DEF CatalogInv, CatalogType
  <1> QED BY <1>1, <1>2 DEF Target

\* A table is opened: with what the catalog has, or with a new tree.
Opens(u) ==
    /\ up /\ open[u] = None /\ cache[u] # None /\ (u \in Names => cache[u] \in MemMeta)
    /\ UNCHANGED <<up, program, trig, renamed, unsaved, uncounted, stale>>
    /\ \/ /\ cache[u].root # None
          /\ open' = [open EXCEPT ![u] = [root |-> cache[u].root, len |-> cache[u].count]]
          /\ UNCHANGED <<rows, cache>>
       \/ /\ cache[u].root = None
          /\ pageCount \in Pages
          /\ rows' = [rows EXCEPT ![pageCount] = NoRows]
          /\ open' = [open EXCEPT ![u] = [root |-> pageCount, len |-> 0]]
          /\ cache' = [cache EXCEPT ![u] = Meta(pageCount, 0)]

LEMMA OpenCases ==
    ASSUME CatalogInv, OpenTable
    PROVE  \E u : Opens(u)
  <1>1. PICK u \in Needs(Head(program)) :
          /\ open[u] = None /\ cache[u] # None
          /\ IF cache[u].root # None
             THEN /\ open' = [open EXCEPT ![u] = [root |-> cache[u].root, len |-> cache[u].count]]
                  /\ UNCHANGED <<rows, cats, pageCount, cache>>
             ELSE /\ NewTree
                  /\ open' = [open EXCEPT ![u] = [root |-> pageCount, len |-> 0]]
                  /\ cache' = [cache EXCEPT ![u] = Meta(pageCount, 0)]
                  /\ cats' = Persist([cats EXCEPT ![pageCount] = NoCatalog], u, Meta(pageCount, 0))
    BY DEF OpenTable
  <1>2. up /\ UNCHANGED <<up, program, trig, renamed, unsaved, uncounted, stale>>
    <2>1. CASE cache[u].root = None
      BY <2>1 DEF OpenTable
    <2>2. CASE cache[u].root # None
      BY <2>2 DEF OpenTable
    <2> QED BY <2>1, <2>2
  <1>3. u \in Names => cache[u] \in MemMeta
    BY <1>1 DEF CatalogInv, CatalogType
  <1>4. CASE cache[u].root # None
    BY <1>1, <1>2, <1>3, <1>4 DEF Opens
  <1>5. CASE cache[u].root = None
    <2>1. /\ pageCount < NumPages /\ rows' = [rows EXCEPT ![pageCount] = NoRows]
          /\ open' = [open EXCEPT ![u] = [root |-> pageCount, len |-> 0]]
          /\ cache' = [cache EXCEPT ![u] = Meta(pageCount, 0)]
      BY <1>1, <1>5 DEF NewTree
    <2>2. pageCount \in Pages
      BY <2>1, WidthFacts DEF CatalogInv, CatalogType, Pages
    <2> QED BY <1>1, <1>2, <1>3, <1>5, <2>1, <2>2 DEF Opens
  <1> QED BY <1>4, <1>5

LEMMA OpenTarget ==
    ASSUME CatalogInv, TreesInv, RowsInv, ~stale, OpenTable
    PROVE  \E u : Opens(u) /\ Target(u)
  <1>1. PICK u : Opens(u)
    BY OpenCases
  <1>2. /\ open \in [Names -> Handles \union {None}] /\ cache \in [Names -> MemMeta \union {None}]
        /\ RootsCounted /\ pageCount \in Int
    BY <1>1, WidthFacts DEF CatalogInv, CatalogType, TreesInv, Opens
  <1>3. \A t \in Names \ {u} : open'[t] = open[t] /\ cache'[t] = cache[t]
    BY <1>1, <1>2 DEF Opens
  <1>4. \A t \in Names : \A p \in Pages : RefersTo(t, p) => rows'[p] = rows[p]
    <2> SUFFICES ASSUME NEW t \in Names, NEW p \in Pages, RefersTo(t, p) PROVE rows'[p] = rows[p]
      OBVIOUS
    <2>1. p # pageCount
      BY <1>2 DEF RootsCounted
    <2> QED BY <1>1, <2>1 DEF RowsInv, Opens
  <1>5. Target(u)
    BY <1>1, <1>3, <1>4 DEF Target, Opens
  <1> QED BY <1>1, <1>5

\* What is counted of the other tables stays so.
LEMMA CountsElsewhere ==
    ASSUME NEW h, Target(h), NEW t \in Names, t # h, TableCounts(t)
    PROVE  TableCounts(t)'
  <1> SUFFICES ASSUME Exact(t)' PROVE HandleCounts(t)' /\ CatalogCounts(t)'
    BY DEF TableCounts
  <1>1. /\ open'[t] = open[t] /\ cache'[t] = cache[t] /\ (t \in unsaved' <=> t \in unsaved)
        /\ Exact(t) /\ t \notin renamed
    BY DEF Target, Exact
  <1>2. \A p \in Pages : RefersTo(t, p) => rows'[p] = rows[p]
    BY <1>1 DEF Target
  <1>3. HandleCounts(t) /\ CatalogCounts(t)
    BY <1>1 DEF TableCounts
  <1>4. open[t] # None /\ open[t].root \in Pages => rows'[open[t].root] = rows[open[t].root]
    BY <1>2 DEF RefersTo
  <1>5. cache[t] # None /\ cache[t].root \in Pages => rows'[cache[t].root] = rows[cache[t].root]
    BY <1>2 DEF RefersTo
  <1>6. HandleCounts(t)'
    BY <1>1, <1>3, <1>4 DEF HandleCounts, Size
  <1>7. CatalogCounts(t)'
    BY <1>1, <1>3, <1>5 DEF CatalogCounts, Size
  <1> QED BY <1>6, <1>7

\* What a step leaves of the rows of a table whose records are counted.
Keeps(t, gone) ==
    Exact(t)' /\ t \notin unsaved' =>
        /\ Exact(t) /\ t \notin unsaved
        /\ cache[t] # None /\ cache[t].root # None =>
              /\ cache'[t] = cache[t]
              /\ cache[t].root \in Pages =>
                    Present(rows'[cache[t].root]) \subseteq Present(rows[cache[t].root]) \ gone

LEMMA KeepsElsewhere ==
    ASSUME NEW h, Target(h), NEW t \in Names, t # h
    PROVE  Keeps(t, {})
  <1> SUFFICES ASSUME Exact(t)', t \notin unsaved'
               PROVE  /\ Exact(t) /\ t \notin unsaved /\ cache'[t] = cache[t]
                      /\ cache[t] # None /\ cache[t].root \in Pages =>
                           rows'[cache[t].root] = rows[cache[t].root]
    BY DEF Keeps
  <1>1. t \notin renamed /\ Exact(t) /\ t \notin unsaved /\ cache'[t] = cache[t]
    BY DEF Target, Exact
  <1> QED BY <1>1 DEF Target, RefersTo

\* Spare, after the step.
SpareNext(t, ks) ==
    Exact(t)' /\ t \notin unsaved' =>
        /\ cache'[t] # None /\ cache'[t].root # None
        /\ cache'[t].root \in Pages =>
              Cardinality(Present(rows'[cache'[t].root]) \ ks) < cache'[t].count

PutsBackNext(q, i, t) == ~UpdatesItself(t) => Clears(q, i, t) /\ SpareNext(t, Gone(q, i, t))

LEMMA SpareKept ==
    ASSUME DataType, CatalogType, NEW t \in Names, NEW gone, Keeps(t, gone), NEW ks, Spare(t, ks),
           NEW ls, ks \subseteq ls \union gone
    PROVE  SpareNext(t, ls)
  <1> SUFFICES ASSUME Exact(t)', t \notin unsaved'
               PROVE  /\ cache'[t] # None /\ cache'[t].root # None
                      /\ cache'[t].root \in Pages =>
                            Cardinality(Present(rows'[cache'[t].root]) \ ls) < cache'[t].count
    BY DEF SpareNext
  <1> DEFINE p == cache[t].root
             S == Present(rows'[p]) \ ls
             R == Present(rows[p]) \ ks
  <1>1. /\ cache[t] # None /\ cache[t].root # None /\ cache'[t] = cache[t]
        /\ p \in Pages => Cardinality(R) < cache[t].count /\ S \subseteq R
    BY DEF Keeps, Spare
  <1>2. cache[t] \in MemMeta
    BY <1>1 DEF CatalogType
  <1>3. p \in Pages => Cardinality(S) \in Nat /\ Cardinality(S) <= Cardinality(R)
    BY <1>1, SizeFacts
  <1>4. p \in Pages => Cardinality(R) \in Nat
    BY SizeFacts
  <1>5. cache[t].count \in Nat
    BY <1>2, WidthFacts DEF MemMeta
  <1>6. p \in Pages => Cardinality(S) < cache[t].count
    BY <1>1, <1>3, <1>4, <1>5
  <1> QED BY <1>1, <1>6

GoneFirst(t) ==
    IF Head(program).do = "del" /\ Head(program).table = t THEN {Head(program).arg} ELSE {}

\* The i-th element of c is the k-th of s, and what is between the elements
\* of f and it is what was between the first of s and it.
Placed(c, f, s, i, k) ==
    /\ k > 1 /\ c[i] = s[k]
    /\ \A j \in DOMAIN c : j < i =>
          \/ j \in DOMAIN f
          \/ \E l \in DOMAIN s : l > 1 /\ l < k /\ c[j] = s[l]
    /\ \A l \in DOMAIN s : l > 1 /\ l < k => \E j \in DOMAIN c : j < i /\ c[j] = s[l]
    /\ \A l \in DOMAIN s : l > k => \E j \in DOMAIN c : j > i /\ c[j] = s[l]

\* The first element of s replaced by f: where each element is then.
Replaced(c, f, s) ==
    /\ 1 \in DOMAIN s /\ Head(s) = s[1] /\ DOMAIN c \subseteq Nat
    /\ \A l \in DOMAIN s : l # 1 => l > 1
    /\ \A i \in DOMAIN f : i \in DOMAIN c /\ c[i] = f[i]
    /\ \A i \in DOMAIN f, j \in DOMAIN c : j < i => j \in DOMAIN f
    /\ \A i \in DOMAIN c \ DOMAIN f : \E k \in DOMAIN s : Placed(c, f, s, i, k)
    /\ \A l \in DOMAIN s : l # 1 => \E j \in DOMAIN c : c[j] = s[l]

LEMMA ReplacedHead ==
    ASSUME NEW T, NEW s \in Seq(T), s # << >>, NEW f \in Seq(T), NEW c, c = f \o Tail(s)
    PROVE  Replaced(c, f, s)
  <1> DEFINE q == Tail(s)
             m == Len(f)
  <1>1. /\ q \in Seq(T) /\ 1 \in DOMAIN s /\ Head(s) = s[1]
        /\ \A i \in DOMAIN q : i \in Nat /\ i >= 1 /\ i + 1 \in DOMAIN s /\ q[i] = s[i + 1]
        /\ \A i \in DOMAIN s : /\ i \in Nat /\ i >= 1
                               /\ i # 1 => i - 1 \in DOMAIN q /\ q[i - 1] = s[i]
    BY TailPlaces
  <1>0. c = f \o q
    OBVIOUS
  <1> HIDE DEF q
  <1>2. /\ m \in Nat /\ DOMAIN f = 1 .. m
        /\ DOMAIN c = 1 .. m + Len(q)
        /\ \A i \in DOMAIN f : i \in DOMAIN c /\ c[i] = f[i]
        /\ \A i \in DOMAIN q : m + i \in DOMAIN c /\ c[m + i] = q[i]
        /\ \A i \in DOMAIN c : \/ i \in DOMAIN f
                               \/ i > m /\ i - m \in DOMAIN q /\ c[i] = q[i - m]
    <2>1. q \in Seq(T)
      BY <1>1
    <2> DEFINE d == f \o q
    <2>2. /\ m \in Nat /\ DOMAIN f = 1 .. m
          /\ DOMAIN d = 1 .. m + Len(q)
          /\ \A i \in DOMAIN f : i \in DOMAIN d /\ d[i] = f[i]
          /\ \A i \in DOMAIN q : m + i \in DOMAIN d /\ d[m + i] = q[i]
          /\ \A i \in DOMAIN d : \/ i \in DOMAIN f
                                 \/ i > m /\ i - m \in DOMAIN q /\ d[i] = q[i - m]
      BY <2>1, JoinFacts
    <2>3. c = d
      BY <1>0
    <2> HIDE DEF d, m
    <2> QED BY <2>2, <2>3, Zenon
  <1>3. DOMAIN c \subseteq Nat
    BY <1>1, <1>2
  <1> HIDE DEF m
  <1>4. \A i \in DOMAIN f, j \in DOMAIN c : j < i => j \in DOMAIN f
    BY <1>2, <1>3
  <1>5. ASSUME NEW i \in DOMAIN c \ DOMAIN f
        PROVE  \E k \in DOMAIN s : Placed(c, f, s, i, k)
    <2> DEFINE k == i - m + 1
    <2>1. i \in Nat /\ i > m /\ i - m \in DOMAIN q /\ c[i] = q[i - m]
      BY <1>2, <1>3
    <2>2. k \in DOMAIN s /\ k > 1 /\ c[i] = s[k]
      BY <1>1, <2>1
    <2>3. ASSUME NEW j \in DOMAIN c, j < i, j \notin DOMAIN f
          PROVE  \E l \in DOMAIN s : l > 1 /\ l < k /\ c[j] = s[l]
      <3>1. j \in Nat /\ j > m /\ j - m \in DOMAIN q /\ c[j] = q[j - m]
        BY <1>2, <1>3, <2>3
      <3>2. j - m + 1 \in DOMAIN s /\ c[j] = s[j - m + 1]
        BY <1>1, <3>1
      <3>3. j - m + 1 > 1 /\ j - m + 1 < k
        BY <1>2, <2>1, <2>3, <3>1
      <3> QED BY <3>2, <3>3
    <2>4. ASSUME NEW l \in DOMAIN s, l > 1
          PROVE  l \in Nat /\ m + (l - 1) \in DOMAIN c /\ c[m + (l - 1)] = s[l]
      <3>1. l \in Nat /\ l - 1 \in DOMAIN q /\ q[l - 1] = s[l]
        BY <1>1, <2>4
      <3> QED BY <1>2, <3>1
    <2>5. ASSUME NEW l \in DOMAIN s, l > 1, l < k
          PROVE  \E j \in DOMAIN c : j < i /\ c[j] = s[l]
      <3>1. l \in Nat /\ m + (l - 1) \in DOMAIN c /\ c[m + (l - 1)] = s[l]
        BY <2>4, <2>5
      <3>2. m + (l - 1) < i
        BY <1>2, <2>1, <2>5, <3>1
      <3> QED BY <3>1, <3>2
    <2>6. ASSUME NEW l \in DOMAIN s, l > k
          PROVE  \E j \in DOMAIN c : j > i /\ c[j] = s[l]
      <3>0. l > 1
        <4>1. l \in Nat /\ k \in Nat /\ k > 1 /\ l > k
          BY <1>1, <1>2, <2>1, <2>2, <2>6
        <4> HIDE DEF k
        <4> QED BY <4>1
      <3>1. l \in Nat /\ m + (l - 1) \in DOMAIN c /\ c[m + (l - 1)] = s[l]
        BY <2>4, <3>0
      <3>2. m + (l - 1) > i
        BY <1>2, <2>1, <2>6, <3>1
      <3> QED BY <3>1, <3>2
    <2> HIDE DEF k
    <2> QED BY <2>2, <2>3, <2>5, <2>6 DEF Placed
  <1>6. \A l \in DOMAIN s : l # 1 => l > 1
    BY <1>1
  <1>7. ASSUME NEW l \in DOMAIN s, l # 1
        PROVE  \E j \in DOMAIN c : c[j] = s[l]
    <2>1. l - 1 \in DOMAIN q /\ q[l - 1] = s[l]
      BY <1>1, <1>7
    <2>2. m + (l - 1) \in DOMAIN c /\ c[m + (l - 1)] = q[l - 1]
      BY <1>2, <2>1
    <2> QED BY <2>1, <2>2
  <1> QED BY <1>1, <1>2, <1>3, <1>4, <1>5, <1>6, <1>7 DEF Replaced

LEMMA PutsThen ==
    ASSUME trig' = trig, NEW c, program' = c,
           \A i \in DOMAIN c : c[i].do = "put" => Saves(c, i) \/ PutsBackNext(c, i, c[i].table)
    PROVE  PutsCounted(program)'
  <1>1. \A t, ks : SpareNext(t, ks) <=> Spare(t, ks)'
    BY DEF Spare, SpareNext, Exact
  <1>2. \A i, t : PutsBackNext(c, i, t) <=> PutsBack(c, i, t)'
    BY <1>1 DEF PutsBack, PutsBackNext, UpdatesItself
  <1>3. PutsCounted(c)'
    BY <1>2 DEF PutsCounted
  <1> QED BY <1>3 DEF PutsCounted, PutsBack, Spare, Exact, UpdatesItself

\* The operations f take the place of the first: what was put back is still.
LEMMA PutsNext ==
    ASSUME DataInv, program # << >>, NEW A, NEW f \in Seq(Known(A)),
           program' = f \o Tail(program), trig' = trig, PutsCounted(program),
           \A i \in DOMAIN f : f[i].do = "put" => Saves(f, i) \/ PutsBackNext(f, i, f[i].table),
           \A t \in Names : Unharmed(Head(program), t) /\ ~UpdatesItself(t) =>
               /\ \A i \in DOMAIN f : Unharmed(f[i], t)
               /\ Keeps(t, GoneFirst(t))
    PROVE  PutsCounted(program)'
  <1> DEFINE s == program
  <1>1. PICK B : program \in Seq(Known(B))
    BY DEF DataInv, ProgramInv, ProgramType
  <1>2. PICK C : f \in Seq(Known(C)) /\ program \in Seq(Known(C))
    <2>1. A \subseteq A \union B /\ B \subseteq A \union B
      OBVIOUS
    <2>2. f \in Seq(Known(A \union B)) /\ program \in Seq(Known(A \union B))
      BY <1>1, <2>1, KnownGrows
    <2> QED BY <2>2
  <1> DEFINE T == Known(C)
  <1>3. f \in Seq(T) /\ s \in Seq(T)
    BY <1>2
  <1>4. \A i \in DOMAIN s : s[i].do = "put" => s[i].table \in Names
    <2>1. \A o \in T : o.do = "put" => o.table \in Names
      BY DEF Known
    <2> HIDE DEF T
    <2> QED BY <1>3, <2>1, SeqElements
  <1> HIDE DEF T
  <1>7. PICK c : c = program'
    OBVIOUS
  <1>6. s # << >> /\ c = f \o Tail(s)
    BY <1>7
  <1>11. Replaced(c, f, s)
    <2> DEFINE d == f \o Tail(s)
    <2>1. d = f \o Tail(s)
      OBVIOUS
    <2> HIDE DEF d
    <2>2. Replaced(d, f, s)
      BY <1>3, <1>6, <2>1, ReplacedHead
    <2>3. c = d
      BY <1>6, <2>1
    <2> QED BY <2>2, <2>3
  <1>5. /\ 1 \in DOMAIN s /\ Head(s) = s[1] /\ DOMAIN c \subseteq Nat
        /\ \A l \in DOMAIN s : l # 1 => l > 1
        /\ \A i \in DOMAIN f : i \in DOMAIN c /\ c[i] = f[i]
        /\ \A i \in DOMAIN f, j \in DOMAIN c : j < i => j \in DOMAIN f
        /\ \A i \in DOMAIN c \ DOMAIN f : \E k \in DOMAIN s : Placed(c, f, s, i, k)
    BY <1>11 DEF Replaced
  <1>8. SUFFICES ASSUME NEW i \in DOMAIN c, c[i].do = "put", ~Saves(c, i), ~UpdatesItself(c[i].table)
                 PROVE  Clears(c, i, c[i].table) /\ SpareNext(c[i].table, Gone(c, i, c[i].table))
    <2> QED BY <1>7, PutsThen DEF PutsBackNext
  <1>9. CASE i \in DOMAIN f
    <2>1. c[i] = f[i] /\ \A j \in DOMAIN c : j < i => j \in DOMAIN f /\ c[j] = f[j]
      BY <1>5, <1>9
    <2>2. ~Saves(f, i)
      BY <1>5, <1>8, <1>9 DEF Saves
    <2>3. Clears(f, i, f[i].table) /\ SpareNext(f[i].table, Gone(f, i, f[i].table))
      BY <1>8, <1>9, <2>1, <2>2 DEF PutsBackNext
    <2>4. Clears(c, i, c[i].table)
      BY <2>1, <2>3 DEF Clears
    <2>5. Gone(c, i, c[i].table) = Gone(f, i, f[i].table)
      BY <1>5, <2>1 DEF Gone
    <2> QED BY <2>1, <2>3, <2>4, <2>5
  <1>10. CASE i \notin DOMAIN f
    <2> DEFINE t == c[i].table
    <2>1. PICK k \in DOMAIN s : Placed(c, f, s, i, k)
      BY <1>5, <1>10
    <2>2. ~Saves(s, k)
      BY <1>8, <2>1 DEF Saves, Placed
    <2>3. t \in Names /\ Clears(s, k, t) /\ Spare(t, Gone(s, k, t))
      BY <1>4, <1>8, <2>1, <2>2 DEF PutsCounted, PutsBack, Placed
    <2>4. Unharmed(Head(s), t)
      BY <1>5, <2>1, <2>3 DEF Clears, Placed
    <2>5. (\A j \in DOMAIN f : Unharmed(f[j], t)) /\ Keeps(t, GoneFirst(t))
      BY <1>8, <2>3, <2>4
    <2>6. Clears(c, i, t)
      BY <1>5, <2>1, <2>3, <2>5 DEF Clears, Placed
    <2>7. Gone(s, k, t) \subseteq Gone(c, i, t) \union GoneFirst(t)
      <3> SUFFICES ASSUME NEW l \in DOMAIN s, l < k, s[l].do = "del", s[l].table = t,
                          s[l].arg \notin GoneFirst(t)
                   PROVE  s[l].arg \in Gone(c, i, t)
        BY DEF Gone
      <3>1. l # 1
        BY <1>5 DEF GoneFirst
      <3>2. l > 1
        BY <1>5, <3>1
      <3>3. PICK j \in DOMAIN c : j < i /\ c[j] = s[l]
        BY <2>1, <3>2 DEF Placed
      <3> QED BY <3>3 DEF Gone
    <2>8. SpareNext(t, Gone(c, i, t))
      BY <2>3, <2>5, <2>7, SpareKept DEF DataInv, CatalogInv
    <2> QED BY <2>6, <2>8
  <1> QED BY <1>9, <1>10

\* The triggers of an update of a table that does not update itself leave it alone.
LEMMA BodiesElsewhere ==
    ASSUME DefaultsType, NEW t \in Names,
           NEW G, G \subseteq {g \in TriggerDefs : g.into # t \/ g.does = "error"},
           NEW bodies \in SetToSeqs(G),
           NEW f, f = FlattenSeq([i \in DOMAIN bodies |-> BodyOps(bodies[i])])
    PROVE  \A i \in DOMAIN f : Unharmed(f[i], t)
  <1> DEFINE S == {o \in Known(RowArgs) : Unharmed(o, t)}
             n == Cardinality(G)
             ops == [i \in DOMAIN bodies |-> BodyOps(bodies[i])]
  <1>1. n \in Nat /\ bodies \in [1 .. n -> G]
    BY TriggersAssumption, FS_Subset, FS_CardinalityType DEF SetToSeqs
  <1>2. ASSUME NEW g \in G PROVE BodyOps(g) \in Seq(S)
    <2> DEFINE q == BodyOps(g)
    <2>1. /\ g \in TriggerDefs /\ g.into \in Names /\ g.does \in {"insert", "delete", "error"}
          /\ g.into # t \/ g.does = "error"
      BY TriggersAssumption
    <2>2. CASE g.does = "insert"
      <3> DEFINE R == InsertShape(g.into, TRUE)
      <3>1. <<defaults[g.into]>> \in [1 .. 1 -> Rows \union {None}] /\ 1 \in Nat /\ TRUE \in BOOLEAN
        BY <2>1 DEF DefaultsType
      <3>2. q = InsertOps(g.into, <<defaults[g.into]>>, TRUE)
        BY <2>2 DEF BodyOps
      <3>3. q \in Seq(R)
        BY <2>1, <3>1, <3>2, InsertOpsFacts, Zenon
      <3>4. R \subseteq S
        BY <2>1, <2>2 DEF InsertShape, Unharmed, Known
      <3> HIDE DEF R, S, q
      <3> QED BY <3>3, <3>4, SeqGrows DEF q
    <2>3. CASE g.does = "delete"
      <3> DEFINE o == Op("scan", g.into, "delete", TRUE)
      <3>1. o \in S
        <4>1. "scan" \in Ops /\ "delete" \in RowArgs
          BY DEF RowArgs, Ops
        <4> QED BY <2>1, <2>3, <4>1 DEF Known, Op, Unharmed
      <3>2. q = <<o>>
        BY <2>3 DEF BodyOps
      <3> HIDE DEF o, S
      <3> QED BY <3>1, <3>2
    <2>4. CASE g.does = "error"
      <3> DEFINE o == Op("error", None, None, TRUE)
      <3>1. o \in S
        <4>1. "error" \in Ops /\ None \in RowArgs /\ None # t
          BY NoneAssumption DEF RowArgs, Ops
        <4> QED BY <4>1 DEF Known, Op, Unharmed
      <3>2. q = <<o>>
        BY <2>4 DEF BodyOps
      <3> HIDE DEF o, S
      <3> QED BY <3>1, <3>2
    <2> QED BY <2>1, <2>2, <2>3, <2>4
  <1> HIDE DEF n, S
  <1>3. ops \in [1 .. n -> Seq(S)]
    BY <1>1, <1>2
  <1>4. f = FlattenSeq(ops)
    OBVIOUS
  <1> HIDE DEF ops
  <1>5. << >> \in Seq(S) /\ \A a, b \in Seq(S) : a \o b \in Seq(S)
    OBVIOUS
  <1> DEFINE B == Seq(S)
  <1> HIDE DEF B
  <1>6. << >> \in B /\ (\A a, b \in B : a \o b \in B) /\ ops \in [1 .. n -> B]
    BY <1>3, <1>5 DEF B
  <1>7. FlattenSeq(ops) \in B
    BY <1>1, <1>6, FlattenKeeps
  <1>8. f \in Seq(S)
    BY <1>4, <1>7 DEF B
  <1>9. \A i \in DOMAIN f : f[i] \in S
    BY <1>8, SeqElements
  <1> QED BY <1>9 DEF S

\* What an operation leads to: deletions, an update, or what triggers do.
Led(f) ==
    LET h == Head(program)
    IN  \/ f = << >>
        \/ h.do \in {"scan", "get", "shorten"} /\ f \in Seq(DeleteShape(h.table, h.nested))
        \/ /\ h.do = "get"
           /\ \E k \in Keys, r \in Rows : /\ f = UpdateOps(h.table, k, r)
                                          /\ rows[Page(open[h.table].root)][k] # None
        \/ /\ h.do = "fire" /\ Planned(f)
           /\ \A t \in Names : h.table = t /\ h.arg = "update" /\ ~UpdatesItself(t) =>
                                  \A i \in DOMAIN f : Unharmed(f[i], t)

LEMMA LeadsTo ==
    ASSUME DataInv,
           \/ Find \/ ScanTable \/ Get \/ Fire \/ RolledBack \/ Shorten \/ Flush \/ SetCatalogRoot
           \/ Put \/ Del \/ Save \/ ForgetTable \/ (Check /\ ~Fail)
    PROVE  /\ program # << >>
           /\ \E f \in Seq(Known(RowArgs)) : program' = f \o Tail(program) /\ Led(f)
  <1> DEFINE h == Head(program)
             t == h.table
             D == DeleteShape(t, h.nested)
  <1>1. D \subseteq Known(RowArgs)
    BY DEF DeleteShape
  <1>2. ASSUME NEW f \in Seq(D), program # << >>, program' = f \o Tail(program),
               f = << >> \/ h.do \in {"scan", "get", "shorten"}
        PROVE  /\ program # << >>
               /\ \E g \in Seq(Known(RowArgs)) : program' = g \o Tail(program) /\ Led(g)
    <2>1. f \in Seq(Known(RowArgs))
      BY <1>1, SeqGrows
    <2>2. Led(f)
      BY <1>2 DEF Led
    <2> QED BY <1>2, <2>1, <2>2
  <1>3. << >> \in Seq(D)
    OBVIOUS
  <1>4. ASSUME program # << >>, program' = Tail(program)
        PROVE  program # << >> /\ program' = << >> \o Tail(program)
    <2>1. PICK A : program \in Seq(Known(A))
      BY DEF DataInv, ProgramInv, ProgramType
    <2> DEFINE T == Known(A)
    <2>2. program \in Seq(T)
      BY <2>1
    <2> HIDE DEF T
    <2> QED BY <1>4, <2>2
  <1>5. CASE Find \/ RolledBack \/ Flush \/ SetCatalogRoot \/ Put \/ Del \/ Save \/ ForgetTable \/ (Check /\ ~Fail)
    <2>1. program # << >> /\ program' = Tail(program)
      <3>1. CASE Find \/ RolledBack \/ Flush \/ SetCatalogRoot \/ Save \/ ForgetTable
        BY <3>1 DEF Find, RolledBack, Flush, SetCatalogRoot, Save, ForgetTable, Running, Done
      <3>2. CASE Put \/ Del
        BY <3>2, Zenon DEF Put, Del, Ready, Running, Done
      <3>3. CASE Check /\ ~Fail
        BY <3>3, Zenon DEF Check, Ready, Running, Done
      <3> QED BY <1>5, <3>1, <3>2, <3>3
    <2> HIDE DEF D
    <2> QED BY <1>2, <1>3, <1>4, <2>1
  <1>6. CASE ScanTable
    <2> DEFINE found == Present(Scan(open[t].root, open[t].len))
    <2>1. program # << >> /\ t \in Names /\ open[t] # None /\ h.do = "scan"
      BY <1>6, ReadyFacts DEF ScanTable
    <2>2. found \subseteq Keys /\ h.nested \in BOOLEAN
      BY <2>1, TreePage, HeadKnown DEF DataInv
    <2>3. program' = (IF h.arg = "delete" THEN DeleteOps(t, found, h.nested) ELSE << >>) \o Tail(program)
      BY <1>6 DEF ScanTable
    <2> HIDE DEF found
    <2>4. PICK f : /\ f \in {DeleteOps(t, found, h.nested), << >>}
                   /\ program' = f \o Tail(program)
      BY <2>3, Zenon
    <2>5. f \in Seq(D)
      BY <1>3, <2>1, <2>2, <2>4, DeleteOpsFacts
    <2> HIDE DEF D
    <2> QED BY <1>2, <2>1, <2>4, <2>5
  <1>7. CASE Get
    <2> DEFINE k == h.arg.key
               new == h.arg.row
    <2>1. program # << >> /\ h.do = "get" /\ t \in Names /\ open[t] # None
      BY <1>7, ReadyFacts, Zenon DEF Get
    <2>2. k \in Keys /\ new \in Rows \union {None} /\ h.nested = FALSE
      BY <2>1, HeadKnown DEF DataInv
    <2>3. PICK f : /\ program' = f \o Tail(program)
                   /\ \/ f \in {DeleteOps(t, {k}, FALSE), << >>}
                      \/ new # None /\ f = UpdateOps(t, k, new) /\ rows[Page(open[t].root)][k] # None
      BY <1>7, Zenon DEF Get
    <2>4. CASE f \in {DeleteOps(t, {k}, FALSE), << >>}
      <3>1. {k} \subseteq Keys /\ FALSE \in BOOLEAN
        BY <2>2
      <3>2. f \in Seq(D)
        BY <1>3, <2>1, <2>2, <2>4, <3>1, DeleteOpsFacts
      <3> HIDE DEF D
      <3> QED BY <1>2, <2>1, <2>3, <3>2
    <2>5. CASE new # None /\ f = UpdateOps(t, k, new) /\ rows[Page(open[t].root)][k] # None
      <3>1. new \in Rows
        BY <2>2, <2>5
      <3>2. f \in Seq(Known(RowArgs))
        BY <2>1, <2>2, <2>5, <3>1, UpdateOpsFacts
      <3>3. Led(f)
        BY <2>1, <2>2, <2>5, <3>1 DEF Led
      <3> QED BY <2>1, <2>3, <3>2, <3>3
    <2> QED BY <2>3, <2>4, <2>5, Zenon
  <1>8. CASE Shorten
    <2> DEFINE found == Present(Scan(open[t].root, open[t].len))
               ks == Sorted(found)
               go == SubSeq(ks, h.arg + 1, Len(ks))
               d(k) == Op("del", t, k, FALSE)
               f == [i \in DOMAIN go |-> d(go[i])]
    <2>1. program # << >> /\ h.do = "shorten" /\ h.nested = FALSE
      BY <1>8, HeadKnown, Zenon DEF Shorten, Running, DataInv
    <2>2. program' = f \o Tail(program)
      BY <1>8, Zenon DEF Shorten
    <2>3. t \in Names /\ open[t] # None /\ h.arg \in Nat
      <3>1. Undone(program) /\ 1 \in DOMAIN program /\ h = program[1]
        BY <2>1, HeadPlace DEF DataInv, ProgramInv
      <3> QED BY <2>1, <3>1 DEF Undone
    <2>4. found \subseteq Keys
      BY <2>3, TreePage DEF DataInv
    <2> HIDE DEF found
    <2>5. ks \in Seq(Keys)
      BY <2>4, SortedFacts
    <2> HIDE DEF ks
    <2>6. go \in Seq(Keys)
      <3>1. CASE h.arg <= Len(ks)
        BY <2>3, <2>5, <3>1
      <3>2. CASE h.arg > Len(ks)
        BY <2>3, <2>5, <3>2
      <3> QED BY <2>3, <2>5, <3>1, <3>2
    <2>7. \A k \in Keys : d(k) \in D
      BY <2>1, <2>3 DEF DeleteShape, Known, Op, RowArgs, Ops
    <2> HIDE DEF go, d, D
    <2>8. f \in Seq(D)
      BY <2>6, <2>7
    <2> HIDE DEF f
    <2> QED BY <1>2, <2>1, <2>2, <2>8, Zenon
  <1>9. CASE Fire
    <2> DEFINE G == {g \in trig : g.table = t /\ g.event = h.arg}
    <2>1. Ready("fire") /\ program # << >> /\ h.do = "fire"
      BY <1>9, ReadyFacts DEF Fire
    <2>2. PICK bodies \in SetToSeqs(G) :
            program' = FlattenSeq([i \in DOMAIN bodies |-> BodyOps(bodies[i])]) \o Tail(program)
      BY <1>9 DEF Fire
    <2>3. G \subseteq TriggerDefs /\ DefaultsType
      BY DEF DataInv, CatalogInv, CatalogType, DataType
    <2>4. \A u \in Names : t = u /\ h.arg = "update" /\ ~UpdatesItself(u) =>
            G \subseteq {g \in TriggerDefs : g.into # u \/ g.does = "error"}
      BY <2>3 DEF UpdatesItself
    <2> HIDE DEF G
    <2>5. PICK f : f = FlattenSeq([i \in DOMAIN bodies |-> BodyOps(bodies[i])])
      OBVIOUS
    <2>6. f \in Seq(BodyShape) /\ Planned(f)
      BY <2>3, <2>5, FireFacts DEF DefaultsType
    <2>7. BodyShape \subseteq Known(RowArgs)
      BY DEF BodyShape
    <2>8. f \in Seq(Known(RowArgs))
      BY <2>6, <2>7, SeqGrows
    <2>9. \A u \in Names : t = u /\ h.arg = "update" /\ ~UpdatesItself(u) =>
            \A i \in DOMAIN f : Unharmed(f[i], u)
      BY <2>3, <2>4, <2>5, BodiesElsewhere
    <2>10. Led(f)
      BY <2>1, <2>6, <2>9 DEF Led
    <2> QED BY <2>1, <2>2, <2>5, <2>8, <2>10
  <1> QED BY <1>5, <1>6, <1>7, <1>8, <1>9

LEMMA SavedAt ==
    ASSUME NEW t
    PROVE  Saved(t) <=> \E i \in DOMAIN program : program[i].do = "save" /\ program[i].table = t
  BY DEF Saved, Range

\* A table that is still to be counted is, and stays open.
LEMMA UnsavedThen ==
    ASSUME DataInv, UnsavedOpen, OpenKept, program # << >>, Head(program).do # "forget",
           NEW f \in Seq(Known(RowArgs)), program' = f \o Tail(program),
           \A t \in unsaved' : /\ t \in Names
                               /\ t \in unsaved \/ (open[t] # None /\ Saved(t))
                               /\ Head(program).do = "save" => Head(program).table # t
    PROVE  UnsavedOpen'
  <1> DEFINE s == program
  <1>1. PICK C : f \in Seq(Known(C)) /\ program \in Seq(Known(C))
    <2>1. PICK B : program \in Seq(Known(B))
      BY DEF DataInv, ProgramInv, ProgramType
    <2>2. RowArgs \subseteq RowArgs \union B /\ B \subseteq RowArgs \union B
      OBVIOUS
    <2>3. f \in Seq(Known(RowArgs \union B)) /\ program \in Seq(Known(RowArgs \union B))
      BY <2>1, <2>2, KnownGrows
    <2> QED BY <2>3
  <1> DEFINE T == Known(C)
  <1>2. f \in Seq(T) /\ s \in Seq(T)
    BY <1>1
  <1> HIDE DEF T
  <1>3. PICK c : c = program'
    OBVIOUS
  <1>4. Replaced(c, f, s)
    <2> DEFINE d == f \o Tail(s)
    <2>1. s # << >> /\ d = f \o Tail(s)
      OBVIOUS
    <2> HIDE DEF d
    <2>2. Replaced(d, f, s)
      BY <1>2, <2>1, ReplacedHead
    <2>3. c = d
      BY <1>3, <2>1
    <2> QED BY <2>2, <2>3
  <1>5. /\ Head(s) = s[1]
        /\ \A l \in DOMAIN s : l # 1 => \E j \in DOMAIN c : c[j] = s[l]
    BY <1>4 DEF Replaced
  <1> SUFFICES ASSUME NEW t \in unsaved' PROVE open'[t] # None /\ Saved(t)'
    BY DEF UnsavedOpen
  <1>6. t \in Names /\ open[t] # None /\ Saved(t)
    BY DEF UnsavedOpen
  <1>7. open'[t] # None
    BY <1>6 DEF OpenKept
  <1>8. PICK l \in DOMAIN s : s[l].do = "save" /\ s[l].table = t
    BY <1>6, SavedAt
  <1>9. l # 1
    BY <1>5, <1>8
  <1>10. PICK j \in DOMAIN c : c[j].do = "save" /\ c[j].table = t
    BY <1>5, <1>8, <1>9
  <1>11. Saved(t)'
    BY <1>3, <1>10 DEF Saved, Range
  <1> QED BY <1>7, <1>11

LEMMA NothingUnsaved ==
    ASSUME UnsavedOpen, program = << >>
    PROVE  unsaved = {}
  <1>1. \A t : ~Saved(t)
    BY DEF Saved, Range
  <1> QED BY <1>1 DEF UnsavedOpen

LEMMA InitUnsaved == Init => UnsavedOpen
  BY DEF Init, UnsavedOpen

LEMMA NextUnsaved ==
    ASSUME DataInv, UnsavedOpen, [Next]_vars
    PROVE  UnsavedOpen'
  <1> USE DEF DataInv
  <1>0. ASSUME unsaved' = {} PROVE UnsavedOpen'
    BY <1>0 DEF UnsavedOpen
  <1>1. CASE UNCHANGED vars
    BY <1>1 DEF vars, history, trees, UnsavedOpen, Saved, Range
  <1>2. CASE Fail \/ Crash \/ Exit \/ Overflow \/ DelPanics
    <2>1. unsaved' = {}
      BY <1>2 DEF Fail, Crash, Exit, Overflow, DelPanics, NoProcess
    <2> QED BY <1>0, <2>1
  <1>3. CASE \/ Insert \/ Delete \/ Update \/ Select \/ Begin \/ Commit \/ Rollback \/ Close \/ Open
             \/ CreateTable \/ DropTable \/ RenameTable \/ CreateTrigger \/ DropTrigger
    <2>1. unsaved' = unsaved /\ program = << >>
      <3>1. CASE Insert \/ Delete \/ Update \/ Select \/ Begin \/ Commit \/ Rollback
        <4>1. Statement /\ \E ops : Run(ops)
          <5>1. CASE Insert BY <5>1 DEF Insert
          <5>2. CASE Delete BY <5>2 DEF Delete
          <5>3. CASE Update BY <5>3 DEF Update
          <5>4. CASE Select BY <5>4 DEF Select
          <5>5. CASE Begin BY <5>5 DEF Begin
          <5>6. CASE Commit BY <5>6 DEF Commit
          <5>7. CASE Rollback BY <5>7 DEF Rollback
          <5> QED BY <3>1, <5>1, <5>2, <5>3, <5>4, <5>5, <5>6, <5>7
        <4> QED BY <4>1 DEF Statement, Idle, Run
      <3>2. CASE CreateTable \/ DropTable \/ RenameTable \/ CreateTrigger \/ DropTrigger
        BY <3>2 DEF CreateTable, DropTable, RenameTable, CreateTrigger, DropTrigger, Statement, Idle
      <3>3. CASE Close \/ Open
        BY <3>3 DEF Close, Open, Idle, history, DataType
      <3> QED BY <1>3, <3>1, <3>2, <3>3
    <2> QED BY <1>0, <2>1, NothingUnsaved
  <1>4. CASE OpenTable
    <2>1. unsaved' = unsaved /\ program' = program
      BY <1>4 DEF OpenTable
    <2>2. PICK u : /\ open[u] = None
                   /\ \/ open' = [open EXCEPT ![u] = [root |-> cache[u].root, len |-> cache[u].count]]
                      \/ open' = [open EXCEPT ![u] = [root |-> pageCount, len |-> 0]]
      BY <1>4, OpenCases DEF Opens
    <2>3. \A t \in unsaved : t # u /\ open'[t] = open[t]
      BY <2>2 DEF UnsavedOpen, CatalogInv, CatalogType, DataType
    <2> QED BY <2>1, <2>3 DEF UnsavedOpen, Saved, Range
  <1>5. CASE ForgetTable
    <2>1. program # << >> /\ Head(program).do = "forget" /\ unsaved' = unsaved
      BY <1>5 DEF ForgetTable, Running
    <2>2. 1 \in DOMAIN program /\ program[1].do \in Undoing
      BY <2>1, HeadPlace DEF Undoing
    <2>3. \A i \in DOMAIN program : program[i].do # "save"
      BY <2>2 DEF ProgramInv, Apart, Undoing
    <2>4. unsaved = {}
      BY <2>3, SavedAt DEF UnsavedOpen
    <2> QED BY <1>0, <2>1, <2>4
  <1>6. CASE \/ Find \/ ScanTable \/ Get \/ Fire \/ RolledBack \/ Shorten \/ Flush \/ SetCatalogRoot
             \/ Put \/ Del \/ Save \/ (Check /\ ~Fail)
    <2>1. PICK f \in Seq(Known(RowArgs)) : program # << >> /\ program' = f \o Tail(program)
      BY <1>6, LeadsTo
    <2>2. OpenKept
      <3>1. CASE \/ Find \/ ScanTable \/ Get \/ Fire \/ RolledBack \/ Shorten \/ Flush \/ SetCatalogRoot
                 \/ Save \/ (Check /\ ~Fail)
        <4>1. open' = open
          <5>1. CASE \/ Find \/ ScanTable \/ Get \/ Fire \/ RolledBack \/ Shorten \/ Check
            BY <5>1, Quiet DEF catalogVars
          <5>2. CASE Flush \/ SetCatalogRoot \/ Save
            BY <5>2 DEF Flush, SetCatalogRoot, Save, trees
          <5> QED BY <3>1, <5>1, <5>2
        <4> QED BY <4>1 DEF OpenKept
      <3>2. CASE Put \/ Del
        <4>1. \E t \in Names, n \in 0 .. SizeWidth - 1 :
                open[t] # None /\ open' = [open EXCEPT ![t].len = n]
          BY <3>2, CountStep DEF OpenTables, CatalogInv
        <4> QED BY <4>1, HandleIsSome DEF OpenKept, CatalogInv, CatalogType, Handles
      <3> QED BY <1>6, <3>1, <3>2
    <2>3. /\ Head(program).do # "forget"
          /\ \A t \in unsaved' : /\ t \in Names
                                 /\ t \in unsaved \/ (open[t] # None /\ Saved(t))
                                 /\ Head(program).do = "save" => Head(program).table # t
      <3>1. CASE Find \/ RolledBack \/ Flush \/ SetCatalogRoot \/ Shorten
        <4>1. /\ unsaved' = unsaved
              /\ Head(program).do \in {"find", "rolledBack", "flush", "root", "shorten"}
          BY <3>1, Zenon DEF Find, RolledBack, Flush, SetCatalogRoot, Shorten, Running, history
        <4> QED BY <4>1 DEF DataType
      <3>2. CASE ScanTable \/ Get \/ Fire \/ (Check /\ ~Fail)
        <4>1. Ready("scan") \/ Ready("get") \/ Ready("fire") \/ Ready("check")
          BY <3>2, Zenon DEF ScanTable, Get, Fire, Check
        <4>2. unsaved' = unsaved
          <5>1. CASE ScanTable BY <5>1, Zenon DEF ScanTable, history
          <5>2. CASE Get BY <5>2, Zenon DEF Get, history
          <5>3. CASE Fire BY <5>3, Zenon DEF Fire, history
          <5>4. CASE Check /\ ~Fail BY <5>4, Zenon DEF Check, history
          <5> QED BY <3>2, <5>1, <5>2, <5>3, <5>4
        <4>3. Head(program).do \in {"scan", "get", "fire", "check"}
          BY <4>1, ReadyFacts
        <4> QED BY <4>2, <4>3 DEF DataType
      <3>3. CASE Put
        <4>1. /\ Ready("put")
              /\ unsaved' = unsaved \/ (Saved(Head(program).table) /\ unsaved' = unsaved \union {Head(program).table})
          BY <3>3, Zenon DEF Put
        <4>2. Head(program).do = "put" /\ Head(program).table \in Names /\ open[Head(program).table] # None
          BY <4>1, ReadyFacts
        <4> QED BY <4>1, <4>2 DEF DataType
      <3>4. CASE Del
        <4>1. Ready("del") /\ unsaved' = unsaved
          BY <3>4 DEF Del, history
        <4> QED BY <4>1, ReadyFacts DEF DataType
      <3>5. CASE Save
        BY <3>5 DEF Save, Running, DataType
      <3> QED BY <1>6, <3>1, <3>2, <3>3, <3>4, <3>5
    <2> QED BY <2>1, <2>2, <2>3, UnsavedThen
  <1>7. CASE NoTable \/ BadBody \/ NoKey
    BY <1>2, <1>7 DEF NoTable, BadBody, NoKey
  <1> QED BY <1>1, <1>2, <1>3, <1>4, <1>5, <1>6, <1>7 DEF Next, Continue

\* A table whose handle, record and rows stay, and that is not more exact.
LEMMA SameCounts ==
    ASSUME NEW t \in Names, TableCounts(t), open'[t] = open[t], cache'[t] = cache[t], rows' = rows,
           t \in renamed => t \in renamed', t \in uncounted => t \in uncounted',
           t \in unsaved => t \in unsaved' \union uncounted'
    PROVE  TableCounts(t)'
  <1> SUFFICES ASSUME Exact(t)' PROVE HandleCounts(t)' /\ CatalogCounts(t)'
    BY DEF TableCounts
  <1>1. Exact(t) /\ (t \in unsaved => t \in unsaved')
    BY DEF Exact
  <1>2. HandleCounts(t) /\ CatalogCounts(t)
    BY <1>1 DEF TableCounts
  <1>3. HandleCounts(t)'
    BY <1>2 DEF HandleCounts, Size
  <1>4. CatalogCounts(t)'
    BY <1>1, <1>2 DEF CatalogCounts, Size
  <1> QED BY <1>3, <1>4

\* A row more, or one less.
LEMMA OneMore ==
    ASSUME DataType, NEW p \in Pages, NEW k \in Keys, NEW v \in Vals,
           rows' = [rows EXCEPT ![p][k] = v]
    PROVE  LET n == Cardinality(Present(rows'[p]))
           IN  /\ rows[p][k] # None => Size(p) >= 1 /\ n = Size(p)
               /\ rows[p][k] = None => n = Size(p) + 1
  <1> DEFINE P == Present(rows[p])
             Q == Present(rows'[p])
  <1>1. rows[p] \in [Keys -> Vals \union {None}] /\ None # v
    BY NoneAssumption DEF DataType
  <1>2. rows'[p] = [rows[p] EXCEPT ![k] = v]
    BY DEF DataType
  <1>3. Q = P \union {k} /\ (k \in P <=> rows[p][k] # None)
    BY <1>1, <1>2 DEF Present
  <1>4. IsFiniteSet(P) /\ Cardinality(P) \in Nat
    BY SizeFacts DEF Size
  <1>5. Cardinality(P) = 0 => P = {}
    BY <1>4, FS_EmptySet
  <1> HIDE DEF P, Q
  <1>6. k \notin P => Cardinality(Q) = Cardinality(P) + 1
    BY <1>3, <1>4, FS_AddElement
  <1>7. k \in P => Q = P /\ Cardinality(P) >= 1
    BY <1>3, <1>4, <1>5
  <1> QED BY <1>3, <1>6, <1>7 DEF P, Q, Size

LEMMA OneLess ==
    ASSUME DataType, NEW p \in Pages, NEW k \in Keys,
           rows' = [rows EXCEPT ![p][k] = None]
    PROVE  /\ Present(rows'[p]) = Present(rows[p]) \ {k}
           /\ LET n == Cardinality(Present(rows'[p]))
              IN  /\ rows[p][k] # None => Size(p) >= 1 /\ n = Size(p) - 1
                  /\ rows[p][k] = None => n = Size(p)
  <1> DEFINE P == Present(rows[p])
             Q == Present(rows'[p])
  <1>1. rows[p] \in [Keys -> Vals \union {None}]
    BY DEF DataType
  <1>2. rows'[p] = [rows[p] EXCEPT ![k] = None]
    BY DEF DataType
  <1>3. Q = P \ {k} /\ (k \in P <=> rows[p][k] # None)
    BY <1>1, <1>2 DEF Present
  <1>4. IsFiniteSet(P) /\ Cardinality(P) \in Nat
    BY SizeFacts DEF Size
  <1>5. Cardinality(P) = 0 => P = {}
    BY <1>4, FS_EmptySet
  <1> HIDE DEF P, Q
  <1>6. k \in P => Cardinality(Q) = Cardinality(P) - 1 /\ Cardinality(P) >= 1
    <2>1. k \in P => Cardinality(P \ {k}) = Cardinality(P) - 1
      BY <1>4, FS_RemoveElement
    <2>2. k \in P => Cardinality(P) # 0
      BY <1>5
    <2> QED BY <1>3, <1>4, <2>1, <2>2
  <1>7. k \notin P => Q = P
    BY <1>3
  <1> QED BY <1>3, <1>6, <1>7 DEF P, Q, Size

\* The root of an exact table's handle and of its record.
LEMMA ExactRoot ==
    ASSUME CatalogInv, TreesInv, up, ~stale, NEW t \in Names \ renamed, open[t] # None
    PROVE  /\ cache[t] # None /\ cache[t].root = open[t].root
           /\ open[t].root \in Pages \union {Unset} /\ open[t].root # None
           /\ open[t].len \in 0 .. SizeWidth - 1 /\ open[t].len \in Nat
           /\ cache[t].count \in 0 .. SizeWidth - 1 /\ cache[t].count \in Nat
           /\ open[t].root \in Pages => Page(open[t].root) = open[t].root
  <1>1. open[t] \in Handles /\ cache[t] # None /\ cache[t].root = open[t].root /\ cache[t] \in MemMeta
    BY DEF CatalogInv, CatalogType, TreesInv, HandlesMatch
  <1>2. open[t].root \in Pages \union {Unset} /\ open[t].len \in 0 .. SizeWidth - 1 /\ cache[t].count \in 0 .. SizeWidth - 1
    BY <1>1 DEF Handles, MemMeta
  <1>3. open[t].root # None /\ (open[t].root \in Pages => Page(open[t].root) = open[t].root)
    BY <1>2, PageNotSymbol, NoneAssumption DEF Page
  <1>4. open[t].len \in Nat /\ cache[t].count \in Nat
    BY <1>2, WidthFacts
  <1> QED BY <1>1, <1>2, <1>3, <1>4

LEMMA PutCounts ==
    ASSUME FullInv, up, ~stale, Put, NEW t \in Names, t = Head(program).table,
           TableCounts(t), PutsCounted(program), CountsFit
    PROVE  TableCounts(t)'
  <1> SUFFICES ASSUME Exact(t)' PROVE HandleCounts(t)' /\ CatalogCounts(t)'
    BY DEF TableCounts
  <1> USE DEF FullInv, DataInv
  <1>1. /\ program # << >> /\ Head(program).do = "put" /\ open[t] # None
        /\ Head(program).arg \in Rows \union {None} /\ Head(program).arg # None
    <2>1. Ready("put") /\ Head(program).arg # None
      BY DEF Put
    <2> QED BY <2>1, ReadyFacts, HeadKnown
  <1> DEFINE k == Head(program).arg.key
             v == Head(program).arg.val
             len == open[t].len
             new == LenAfterPut(len, rows[Page(open[t].root)][k] # None)
  <1>2. k \in Keys /\ v \in Vals
    BY <1>1 DEF Rows
  <1>3. /\ rows' = [rows EXCEPT ![Page(open[t].root)][k] = v]
        /\ open' = [open EXCEPT ![t].len = new]
        /\ cache' = cache /\ renamed' = renamed
        /\ unsaved' = IF Saved(t) THEN unsaved \union {t} ELSE unsaved
        /\ uncounted' = IF ~Saved(t) /\ UpdatesItself(t) THEN uncounted \union {t} ELSE uncounted
    BY DEF Put
  <1>4. Exact(t) /\ t \notin renamed /\ (~Saved(t) => ~UpdatesItself(t))
    BY <1>3 DEF Exact
  <1>5. /\ cache[t] # None /\ cache[t].root = open[t].root
        /\ open[t].root \in Pages \union {Unset} /\ open[t].root # None
        /\ len \in 0 .. SizeWidth - 1 /\ len \in Nat
        /\ cache[t].count \in 0 .. SizeWidth - 1 /\ cache[t].count \in Nat
        /\ open[t].root \in Pages => Page(open[t].root) = open[t].root
    BY <1>1, <1>4, ExactRoot
  <1>6. open'[t].root = open[t].root /\ open'[t].len = new /\ open'[t] # None
    <2>1. open'[t] = [open[t] EXCEPT !.len = new] /\ open[t] \in Handles
      BY <1>1, <1>3 DEF CatalogInv, CatalogType
    <2>2. new \in 0 .. SizeWidth - 1
      <3>1. len \in Int
        BY <1>5
      <3> QED BY <3>1, CountWraps, Zenon
    <2> HIDE DEF new
    <2>3. open'[t] \in Handles
      BY <2>1, <2>2 DEF Handles
    <2> QED BY <2>1, <2>3, HandleIsSome DEF Handles
  <1>7. HandleCounts(t) /\ CatalogCounts(t)
    BY <1>4 DEF TableCounts
  <1>8. CASE open[t].root \notin Pages
    <2>1. HandleCounts(t)'
      BY <1>6, <1>8 DEF HandleCounts
    <2>2. CatalogCounts(t)'
      BY <1>3, <1>5, <1>8 DEF CatalogCounts
    <2> QED BY <2>1, <2>2
  <1>9. CASE open[t].root \in Pages
    <2>1. PICK p \in Pages : p = open[t].root
      BY <1>9
    <2>2. rows' = [rows EXCEPT ![p][k] = v]
      BY <1>3, <1>5, <2>1, Zenon
    <2> DEFINE n == Cardinality(Present(rows'[p]))
               there == rows[p][k] # None
    <2>3. /\ there => Size(p) >= 1 /\ n = Size(p)
          /\ ~there => n = Size(p) + 1
      BY <1>2, <2>2, OneMore
    <2>4. Size(p) \in Nat /\ Size(p) <= len /\ cache[t].count < RecordWidth
          /\ (t \notin unsaved => Size(p) <= cache[t].count)
      BY <1>1, <1>5, <1>7, <2>1, SizeFacts DEF HandleCounts, CatalogCounts
    <2>5. len < RecordWidth
      BY <1>1, <1>4, <1>9 DEF CountsFit
    <2>6. new = ((IF there /\ len # 0 THEN len - 1 ELSE len) + 1) % SizeWidth
      BY <1>5, <2>1 DEF LenAfterPut
    <2> HIDE DEF n, new, there
    <2>7. n <= new
      <3>1. CASE there
        <4>1. new = ((len - 1) + 1) % SizeWidth
          BY <1>5, <2>3, <2>4, <2>6, <3>1
        <4>2. new = len % SizeWidth
          BY <1>5, <4>1
        <4>3. new = len
          BY <1>5, <4>2, WidthFacts, Remainder
        <4> QED BY <2>3, <2>4, <3>1, <4>3
      <3>2. CASE ~there
        <4>1. new = (len + 1) % SizeWidth
          BY <2>6, <3>2
        <4>2. len + 1 \in 0 .. SizeWidth - 1 /\ len + 1 \in Int
          BY <1>5, <2>5, WidthFacts
        <4>3. new = len + 1
          BY <4>1, <4>2, WidthFacts, Remainder
        <4> QED BY <1>5, <2>3, <2>4, <3>2, <4>3
      <3> QED BY <3>1, <3>2
    <2>8. HandleCounts(t)'
      BY <1>6, <2>1, <2>7 DEF HandleCounts, Size, n
    <2>9. t \notin unsaved' => n <= cache[t].count
      <3> SUFFICES ASSUME t \notin unsaved' PROVE n <= cache[t].count
        OBVIOUS
      <3>1. ~Saved(t) /\ t \notin unsaved /\ ~UpdatesItself(t)
        BY <1>3, <1>4
      <3>2. 1 \in DOMAIN program /\ program[1] = Head(program)
        BY <1>1, HeadPlace
      <3>3. ~Saves(program, 1)
        BY <3>1, <3>2, SavedAt DEF Saves
      <3>4. Spare(t, Gone(program, 1, t))
        BY <1>1, <3>1, <3>2, <3>3 DEF PutsCounted, PutsBack
      <3>5. Gone(program, 1, t) = {}
        <4>1. PICK A : program \in Seq(Known(A))
          BY DEF ProgramInv, ProgramType
        <4> DEFINE T == Known(A)
        <4>2. \A j \in DOMAIN program : ~ (j < 1)
          <5>1. program \in Seq(T)
            BY <4>1
          <5> HIDE DEF T
          <5> QED BY <5>1
        <4> QED BY <4>2 DEF Gone
      <3>6. Cardinality(Present(rows[p]) \ {}) < cache[t].count
        BY <1>4, <1>5, <2>1, <3>1, <3>4, <3>5 DEF Spare
      <3>7. Present(rows[p]) \ {} = Present(rows[p])
        OBVIOUS
      <3>8. Size(p) < cache[t].count
        BY <3>6, <3>7 DEF Size
      <3> QED BY <1>5, <2>3, <2>4, <3>8
    <2>10. CatalogCounts(t)'
      BY <1>3, <1>5, <2>1, <2>4, <2>9 DEF CatalogCounts, Size, n
    <2> QED BY <2>8, <2>10
  <1> QED BY <1>5, <1>8, <1>9

LEMMA DelCounts ==
    ASSUME FullInv, up, ~stale, Del, NEW t \in Names, t = Head(program).table,
           TableCounts(t), CountsFit
    PROVE  TableCounts(t)'
  <1> SUFFICES ASSUME Exact(t)' PROVE HandleCounts(t)' /\ CatalogCounts(t)'
    BY DEF TableCounts
  <1> USE DEF FullInv, DataInv
  <1>1. program # << >> /\ Head(program).do = "del" /\ open[t] # None /\ Head(program).arg \in Keys
    <2>1. Ready("del")
      BY DEF Del
    <2> QED BY <2>1, ReadyFacts, HeadKnown
  <1> DEFINE k == Head(program).arg
             len == open[t].len
             new == IF rows[Page(open[t].root)][k] # None THEN (len - 1) % SizeWidth ELSE len
  <1>3. /\ rows' = [rows EXCEPT ![Page(open[t].root)][k] = None]
        /\ open' = [open EXCEPT ![t].len = new]
        /\ cache' = cache /\ renamed' = renamed
        /\ unsaved' = unsaved /\ uncounted' = uncounted
    BY DEF Del, history
  <1>4. Exact(t) /\ t \notin renamed
    BY <1>3 DEF Exact
  <1>5. /\ cache[t] # None /\ cache[t].root = open[t].root
        /\ open[t].root \in Pages \union {Unset} /\ open[t].root # None
        /\ len \in 0 .. SizeWidth - 1 /\ len \in Nat
        /\ cache[t].count \in 0 .. SizeWidth - 1 /\ cache[t].count \in Nat
        /\ open[t].root \in Pages => Page(open[t].root) = open[t].root
    BY <1>1, <1>4, ExactRoot
  <1>6. open'[t].root = open[t].root /\ open'[t].len = new /\ open'[t] # None
    <2>1. open'[t] = [open[t] EXCEPT !.len = new] /\ open[t] \in Handles
      BY <1>1, <1>3 DEF CatalogInv, CatalogType
    <2>2. new \in 0 .. SizeWidth - 1
      <3>1. (len - 1) % SizeWidth \in 0 .. SizeWidth - 1
        BY <1>5, WidthFacts, Remainder
      <3> QED BY <1>5, <3>1
    <2> HIDE DEF new
    <2>3. open'[t] \in Handles
      BY <2>1, <2>2 DEF Handles
    <2> QED BY <2>1, <2>3, HandleIsSome DEF Handles
  <1>7. HandleCounts(t) /\ CatalogCounts(t)
    BY <1>4 DEF TableCounts
  <1>8. CASE open[t].root \notin Pages
    <2>1. HandleCounts(t)'
      BY <1>6, <1>8 DEF HandleCounts
    <2>2. CatalogCounts(t)'
      BY <1>3, <1>5, <1>8 DEF CatalogCounts
    <2> QED BY <2>1, <2>2
  <1>9. CASE open[t].root \in Pages
    <2>1. PICK p \in Pages : p = open[t].root
      BY <1>9
    <2>2. rows' = [rows EXCEPT ![p][k] = None]
      BY <1>3, <1>5, <2>1, Zenon
    <2> DEFINE n == Cardinality(Present(rows'[p]))
               there == rows[p][k] # None
    <2>3. /\ there => Size(p) >= 1 /\ n = Size(p) - 1
          /\ ~there => n = Size(p)
      BY <1>1, <2>2, OneLess
    <2>4. Size(p) \in Nat /\ Size(p) <= len /\ cache[t].count < RecordWidth
          /\ (t \notin unsaved => Size(p) <= cache[t].count)
      BY <1>1, <1>5, <1>7, <2>1, SizeFacts DEF HandleCounts, CatalogCounts
    <2>6. new = IF there THEN (len - 1) % SizeWidth ELSE len
      BY <1>5, <2>1
    <2> HIDE DEF n, new, there
    <2>7. n <= new
      <3>1. CASE there
        <4>1. len - 1 \in 0 .. SizeWidth - 1 /\ len - 1 \in Int
          BY <1>5, <2>3, <2>4, <3>1, WidthFacts
        <4>2. new = len - 1
          BY <2>6, <3>1, <4>1, WidthFacts, Remainder
        <4> QED BY <1>5, <2>3, <2>4, <3>1, <4>2
      <3>2. CASE ~there
        BY <1>5, <2>3, <2>4, <2>6, <3>2
      <3> QED BY <3>1, <3>2
    <2>8. HandleCounts(t)'
      BY <1>6, <2>1, <2>7 DEF HandleCounts, Size, n
    <2>9. t \notin unsaved' => n <= cache[t].count
      BY <1>3, <1>5, <2>3, <2>4
    <2>10. CatalogCounts(t)'
      BY <1>3, <1>5, <2>1, <2>4, <2>9 DEF CatalogCounts, Size, n
    <2> QED BY <2>8, <2>10
  <1> QED BY <1>5, <1>8, <1>9

LEMMA SaveCounts ==
    ASSUME FullInv, up, ~stale, Save, NEW t \in Names, t = Head(program).table,
           TableCounts(t), CountsFit
    PROVE  TableCounts(t)'
  <1> SUFFICES ASSUME Exact(t)' PROVE HandleCounts(t)' /\ CatalogCounts(t)'
    BY DEF TableCounts
  <1> USE DEF FullInv, DataInv
  <1>1. /\ open[t] # None /\ rows' = rows /\ open' = open /\ renamed' = renamed
        /\ uncounted' = uncounted /\ cache' = [cache EXCEPT ![t] = Meta(open[t].root, open[t].len)]
    BY DEF Save, SaveMeta, CountRows
  <1>2. Exact(t) /\ t \notin renamed
    BY <1>1 DEF Exact
  <1>3. open[t].root # None /\ open[t].root \in Pages \union {Unset}
    BY <1>1, <1>2, ExactRoot
  <1>4. HandleCounts(t)
    BY <1>2 DEF TableCounts
  <1>5. cache'[t].root = open[t].root /\ cache'[t].count = open[t].len
    BY <1>1 DEF Meta, CatalogInv, CatalogType
  <1>6. HandleCounts(t)'
    BY <1>1, <1>4 DEF HandleCounts, Size
  <1>7. open[t].root \in Pages => open[t].len < RecordWidth /\ Size(open[t].root) <= open[t].len
    BY <1>1, <1>2, <1>4 DEF CountsFit, HandleCounts
  <1>8. CatalogCounts(t)'
    BY <1>1, <1>3, <1>5, <1>7 DEF CatalogCounts, Size
  <1> QED BY <1>6, <1>8

LEMMA OpensCounts ==
    ASSUME FullInv, up, ~stale, NEW t \in Names, Opens(t), TableCounts(t)
    PROVE  TableCounts(t)'
  <1> SUFFICES ASSUME Exact(t)' PROVE HandleCounts(t)' /\ CatalogCounts(t)'
    BY DEF TableCounts
  <1> USE DEF FullInv, DataInv
  <1>1. Exact(t) /\ t \notin unsaved /\ t \notin unsaved'
    BY DEF Opens, Exact, UnsavedOpen
  <1>2. CatalogCounts(t) /\ cache[t] # None
    BY <1>1 DEF TableCounts, Opens
  <1>3. CASE UNCHANGED <<rows, cache>> /\ open' = [open EXCEPT ![t] = [root |-> cache[t].root, len |-> cache[t].count]]
    <2>1. open'[t].root = cache[t].root /\ open'[t].len = cache[t].count
      BY <1>3 DEF CatalogInv, CatalogType
    <2>2. HandleCounts(t)'
      BY <1>1, <1>2, <1>3, <2>1 DEF HandleCounts, CatalogCounts, Size
    <2>3. CatalogCounts(t)'
      BY <1>1, <1>2, <1>3 DEF CatalogCounts, Size
    <2> QED BY <2>2, <2>3
  <1>4. CASE /\ pageCount \in Pages
             /\ rows' = [rows EXCEPT ![pageCount] = NoRows]
             /\ open' = [open EXCEPT ![t] = [root |-> pageCount, len |-> 0]]
             /\ cache' = [cache EXCEPT ![t] = Meta(pageCount, 0)]
    <2>1. PICK p \in Pages : p = pageCount
      BY <1>4
    <2>2. /\ rows'[p] = NoRows /\ open'[t].root = p /\ open'[t].len = 0
          /\ cache'[t].root = p /\ cache'[t].count = 0
      BY <1>4, <2>1 DEF CatalogInv, CatalogType, DataType, Meta
    <2>3. Present(NoRows) = {}
      BY DEF Present, NoRows
    <2>4. Cardinality(Present(rows'[p])) = 0
      BY <2>2, <2>3, FS_EmptySet
    <2>5. p # None /\ 0 < RecordWidth /\ 0 <= 0
      BY PageNotSymbol, WidthFacts
    <2>6. HandleCounts(t)'
      BY <2>2, <2>4, <2>5 DEF HandleCounts, Size
    <2>7. CatalogCounts(t)'
      BY <2>2, <2>4, <2>5 DEF CatalogCounts, Size
    <2> QED BY <2>6, <2>7
  <1> QED BY <1>3, <1>4 DEF Opens

LEMMA KeepsSame ==
    ASSUME NEW t, UNCHANGED <<rows, cache, renamed>>,
           t \in uncounted => t \in uncounted', t \in unsaved => t \in unsaved'
    PROVE  Keeps(t, {})
  BY DEF Keeps, Exact

LEMMA OwnDel ==
    ASSUME FullInv, up, ~stale, Del, NEW t \in Names, t = Head(program).table
    PROVE  Keeps(t, {Head(program).arg})
  <1> USE DEF FullInv, DataInv
  <1>1. program # << >> /\ Head(program).do = "del" /\ open[t] # None /\ Head(program).arg \in Keys
    <2>1. Ready("del")
      BY DEF Del
    <2> QED BY <2>1, ReadyFacts, HeadKnown
  <1> DEFINE k == Head(program).arg
  <1>2. /\ rows' = [rows EXCEPT ![Page(open[t].root)][k] = None]
        /\ cache' = cache /\ renamed' = renamed
        /\ unsaved' = unsaved /\ uncounted' = uncounted
    BY DEF Del, history
  <1> SUFFICES ASSUME Exact(t)', t \notin unsaved', cache[t] # None, cache[t].root \in Pages
               PROVE  Present(rows'[cache[t].root]) \subseteq Present(rows[cache[t].root]) \ {k}
    BY <1>2 DEF Keeps, Exact
  <1>3. t \notin renamed
    BY <1>2 DEF Exact
  <1>4. PICK p \in Pages : p = cache[t].root
    OBVIOUS
  <1>5. p = open[t].root /\ Page(open[t].root) = p
    BY <1>1, <1>3, <1>4, ExactRoot
  <1>6. rows' = [rows EXCEPT ![p][k] = None]
    BY <1>2, <1>5
  <1>7. Present(rows'[p]) = Present(rows[p]) \ {k}
    BY <1>1, <1>6, OneLess
  <1> QED BY <1>4, <1>7

\* An update begins with the row it found: without it, there is one less.
LEMMA UpdatePuts ==
    ASSUME FullInv, up, ~stale, NEW t \in Names, open[t] # None, TableCounts(t),
           NEW k \in Keys, NEW r \in Rows, rows[Page(open[t].root)][k] # None,
           UNCHANGED <<rows, cache, renamed, unsaved, uncounted>>,
           NEW f, f = UpdateOps(t, k, r), NEW i \in DOMAIN f, f[i].do = "put"
    PROVE  PutsBackNext(f, i, f[i].table)
  <1> USE DEF FullInv, DataInv
  <1> DEFINE fire == Op("fire", t, "update", FALSE)
             del == Op("del", t, k, FALSE)
             put == Op("put", t, r, FALSE)
  <1>1. f = <<fire, del, put, fire>>
    BY Zenon DEF UpdateOps
  <1>2. /\ fire.do = "fire" /\ fire.table = t /\ fire.arg = "update"
        /\ del.do = "del" /\ del.table = t /\ del.arg = k
        /\ put.do = "put" /\ put.table = t
    BY DEF Op
  <1> HIDE DEF fire, del, put
  <1>3. DOMAIN f = 1 .. 4 /\ f[1] = fire /\ f[2] = del /\ f[3] = put /\ f[4] = fire
    BY <1>1
  <1>4. i = 3 /\ f[i].table = t
    BY <1>2, <1>3
  <1>5. \A j \in DOMAIN f : j < 3 => j = 1 \/ j = 2
    BY <1>3
  <1>6. Clears(f, 3, t)
    BY <1>2, <1>3, <1>5 DEF Clears, Unharmed
  <1>7. Gone(f, 3, t) = {k}
    BY <1>2, <1>3, <1>5 DEF Gone
  <1>8. SpareNext(t, {k})
    <2> SUFFICES ASSUME Exact(t)', t \notin unsaved'
                 PROVE  /\ cache[t] # None /\ cache[t].root # None
                        /\ cache[t].root \in Pages =>
                              Cardinality(Present(rows[cache[t].root]) \ {k}) < cache[t].count
      BY DEF SpareNext
    <2>1. Exact(t) /\ t \notin renamed /\ t \notin unsaved
      BY DEF Exact
    <2>2. /\ cache[t] # None /\ cache[t].root = open[t].root
          /\ open[t].root # None /\ cache[t].count \in Nat
          /\ open[t].root \in Pages => Page(open[t].root) = open[t].root
      BY <2>1, ExactRoot
    <2>3. ASSUME NEW p \in Pages, p = cache[t].root
          PROVE  Cardinality(Present(rows[p]) \ {k}) < cache[t].count
      <3>1. Size(p) <= cache[t].count
        BY <2>1, <2>2, <2>3 DEF TableCounts, CatalogCounts
      <3>2. k \in Present(rows[p])
        BY <2>2, <2>3 DEF Present, DataType
      <3>3. Size(p) \in Nat /\ Cardinality(Present(rows[p]) \ {k}) = Size(p) - 1
        BY <3>2, SizeFacts
      <3> QED BY <2>2, <3>1, <3>3
    <2> QED BY <2>2, <2>3
  <1> QED BY <1>4, <1>6, <1>7, <1>8 DEF PutsBackNext

Operation ==
    \/ Find \/ ScanTable \/ Get \/ Fire \/ RolledBack \/ Shorten \/ Flush \/ SetCatalogRoot
    \/ Put \/ Del \/ Save \/ ForgetTable \/ (Check /\ ~Fail)

\* What an operation of a trigger of another table, or of an update, leaves.
LEMMA OperationKeeps ==
    ASSUME FullInv, up, ~stale, Operation, NEW t \in Names, Unharmed(Head(program), t)
    PROVE  Keeps(t, GoneFirst(t))
  <1> USE DEF FullInv, DataInv
  <1> DEFINE h == Head(program)
  <1>1. CASE Find \/ ScanTable \/ Fire \/ (Check /\ ~Fail)
    <2>1. h.do # "del"
      <3>1. Running("find") \/ Ready("scan") \/ Ready("fire") \/ Ready("check")
        BY <1>1, Zenon DEF Find, ScanTable, Fire, Check
      <3> QED BY <3>1, ReadyFacts DEF Running
    <2>2. UNCHANGED <<rows, cache, renamed, unsaved, uncounted>>
      <3>1. UNCHANGED <<rows, cache, renamed>>
        BY <1>1, Quiet DEF catalogVars
      <3>2. CASE Find BY <3>1, <3>2 DEF Find, history
      <3>3. CASE ScanTable BY <3>1, <3>3, Zenon DEF ScanTable, history
      <3>4. CASE Fire BY <3>1, <3>4, Zenon DEF Fire, history
      <3>5. CASE Check /\ ~Fail BY <3>1, <3>5, Zenon DEF Check, history
      <3> QED BY <1>1, <3>2, <3>3, <3>4, <3>5
    <2> QED BY <2>1, <2>2, KeepsSame DEF GoneFirst
  <1>2. CASE Get \/ RolledBack \/ Shorten \/ Flush \/ SetCatalogRoot \/ ForgetTable
    <2>1. Running("rolledBack") \/ Running("shorten") \/ Running("flush") \/ Running("root")
          \/ Running("forget") \/ Ready("get")
      BY <1>2, Zenon DEF Get, RolledBack, Shorten, Flush, SetCatalogRoot, ForgetTable
    <2>2. h.do \in {"rolledBack", "shorten", "flush", "root", "forget", "get"}
      BY <2>1, ReadyFacts DEF Running
    <2> QED BY <2>2 DEF Unharmed
  <1>3. CASE Put
    <2>1. h.do = "put"
      BY <1>3, ReadyFacts DEF Put
    <2>2. h.table # t
      BY <2>1 DEF Unharmed
    <2>3. Keeps(t, {})
      BY <1>3, <2>2, CountTarget, KeepsElsewhere
    <2> QED BY <2>1, <2>3 DEF GoneFirst
  <1>4. CASE Save
    <2>1. h.do = "save"
      BY <1>4 DEF Save, Running
    <2>2. h.table # t
      BY <2>1 DEF Unharmed
    <2>3. Keeps(t, {})
      BY <1>4, <2>2, SaveTarget, KeepsElsewhere
    <2> QED BY <2>1, <2>3 DEF GoneFirst
  <1>5. CASE Del
    <2>1. h.do = "del"
      BY <1>5, ReadyFacts DEF Del
    <2>2. CASE h.table = t
      BY <1>5, <2>1, <2>2, OwnDel DEF GoneFirst
    <2>3. CASE h.table # t
      <3>1. Keeps(t, {})
        BY <1>5, <2>3, CountTarget, KeepsElsewhere
      <3> QED BY <2>3, <3>1 DEF GoneFirst
    <2> QED BY <2>2, <2>3
  <1> QED BY <1>1, <1>2, <1>3, <1>4, <1>5 DEF Operation

\* ... and what it leads to harms the table no more than itself.
LEMMA LedUnharmed ==
    ASSUME DataInv, program # << >>, NEW f \in Seq(Known(RowArgs)), Led(f), NEW t \in Names,
           Unharmed(Head(program), t), ~UpdatesItself(t)
    PROVE  \A i \in DOMAIN f : Unharmed(f[i], t)
  <1> DEFINE h == Head(program)
  <1>1. CASE f = << >>
    BY <1>1
  <1>2. CASE h.do \in {"scan", "get", "shorten"} /\ f \in Seq(DeleteShape(h.table, h.nested))
    <2>1. h.do = "scan" /\ h.nested /\ h.table # t
      BY <1>2 DEF Unharmed
    <2>2. \A o \in DeleteShape(h.table, h.nested) : Unharmed(o, t)
      BY <2>1 DEF DeleteShape, Known, Unharmed
    <2> DEFINE D == DeleteShape(h.table, h.nested)
    <2>3. f \in Seq(D)
      BY <1>2
    <2> HIDE DEF D
    <2>4. \A i \in DOMAIN f : f[i] \in D
      BY <2>3, SeqElements
    <2> QED BY <2>2, <2>4 DEF D
  <1>3. CASE h.do = "get"
    BY <1>3 DEF Unharmed
  <1>4. CASE h.do = "fire" /\ \A u \in Names : h.table = u /\ h.arg = "update" /\ ~UpdatesItself(u) =>
                                  \A i \in DOMAIN f : Unharmed(f[i], u)
    <2>1. h.table = t /\ h.arg = "update"
      BY <1>4 DEF Unharmed
    <2> QED BY <1>4, <2>1
  <1> QED BY <1>1, <1>2, <1>3, <1>4 DEF Led

LEMMA LedPuts ==
    ASSUME FullInv, up, ~stale, Operation, \A t \in Names : TableCounts(t),
           NEW f \in Seq(Known(RowArgs)), Led(f)
    PROVE  \A i \in DOMAIN f : f[i].do = "put" => Saves(f, i) \/ PutsBackNext(f, i, f[i].table)
  <1> USE DEF FullInv, DataInv
  <1> DEFINE h == Head(program)
             t == h.table
  <1>1. CASE f = << >>
    BY <1>1
  <1>2. CASE f \in Seq(DeleteShape(t, h.nested))
    <2> DEFINE D == DeleteShape(t, h.nested)
    <2>1. \A o \in D : o.do # "put"
      BY DEF DeleteShape
    <2>2. f \in Seq(D)
      BY <1>2
    <2> HIDE DEF D
    <2>3. \A i \in DOMAIN f : f[i] \in D
      BY <2>2, SeqElements
    <2> QED BY <2>1, <2>3
  <1>3. CASE /\ h.do = "get"
             /\ \E k \in Keys, r \in Rows : /\ f = UpdateOps(t, k, r)
                                            /\ rows[Page(open[t].root)][k] # None
    <2>1. PICK k \in Keys, r \in Rows : f = UpdateOps(t, k, r) /\ rows[Page(open[t].root)][k] # None
      BY <1>3
    <2>2. Get
      <3>1. ~ (Find \/ ScanTable \/ Fire \/ RolledBack \/ Shorten \/ Flush \/ SetCatalogRoot
               \/ Put \/ Del \/ Save \/ ForgetTable \/ Check)
        BY <1>3, Zenon DEF Find, ScanTable, Fire, RolledBack, Shorten, Flush, SetCatalogRoot, Put, Del, Save,
                    ForgetTable, Check, Ready, Running
      <3> QED BY <3>1 DEF Operation
    <2>3. t \in Names /\ open[t] # None
      BY <2>2, ReadyFacts, Zenon DEF Get
    <2>4. UNCHANGED <<rows, cache, renamed, unsaved, uncounted>>
      BY <2>2, Zenon DEF Get, file, trees, history
    <2>5. PICK u \in Names : u = t
      BY <2>3
    <2>6. f = UpdateOps(u, k, r) /\ rows[Page(open[u].root)][k] # None /\ open[u] # None /\ TableCounts(u)
      BY <2>1, <2>3, <2>5
    <2> QED BY <2>4, <2>6, UpdatePuts
  <1>4. CASE Planned(f)
    BY <1>4 DEF Planned
  <1> QED BY <1>1, <1>2, <1>3, <1>4 DEF Led

LEMMA OperationPuts ==
    ASSUME FullInv, up, ~stale, Operation, \A t \in Names : TableCounts(t), PutsCounted(program)
    PROVE  PutsCounted(program)'
  <1>1. PICK f \in Seq(Known(RowArgs)) : program # << >> /\ program' = f \o Tail(program) /\ Led(f)
    BY LeadsTo DEF Operation, FullInv
  <1>2. trig' = trig
    <2>1. CASE Find \/ ScanTable \/ Get \/ Fire \/ RolledBack \/ Shorten \/ Check
      BY <2>1, Quiet DEF catalogVars
    <2>2. CASE Put \/ Del
      BY <2>2, CountStep DEF FullInv, DataInv, CatalogInv
    <2>3. CASE Flush \/ SetCatalogRoot \/ Save \/ ForgetTable
      BY <2>3 DEF Flush, SetCatalogRoot, Save, ForgetTable, trees
    <2> QED BY <2>1, <2>2, <2>3 DEF Operation
  <1>3. \A i \in DOMAIN f : f[i].do = "put" => Saves(f, i) \/ PutsBackNext(f, i, f[i].table)
    BY <1>1, LedPuts
  <1>4. \A t \in Names : Unharmed(Head(program), t) /\ ~UpdatesItself(t) =>
          /\ \A i \in DOMAIN f : Unharmed(f[i], t)
          /\ Keeps(t, GoneFirst(t))
    BY <1>1, LedUnharmed, OperationKeeps DEF FullInv
  <1> QED BY <1>1, <1>2, <1>3, <1>4, PutsNext DEF FullInv

\* A table that is opened counts as before.
LEMMA OpensPuts ==
    ASSUME FullInv, up, ~stale, NEW u, Opens(u), Target(u), PutsCounted(program)
    PROVE  PutsCounted(program)'
  <1> USE DEF FullInv, DataInv
  <1>1. PICK c : c = program
    OBVIOUS
  <1>2. program' = c /\ trig' = trig
    BY <1>1 DEF Opens
  <1>3. ASSUME NEW t \in Names, NEW ks, Spare(t, ks)
        PROVE  SpareNext(t, ks)
    <2>1. CASE t # u
      <3>1. Keeps(t, {})
        BY <2>1, KeepsElsewhere
      <3> QED BY <1>3, <3>1, SpareKept DEF CatalogInv
    <2>2. CASE t = u
      <3> SUFFICES ASSUME Exact(t)', t \notin unsaved' PROVE SpareNext(t, ks)
        BY DEF SpareNext
      <3>1. Exact(t) /\ t \notin unsaved
        BY DEF Opens, Exact
      <3>2. rows' = rows /\ cache' = cache
        BY <1>3, <2>2, <3>1 DEF Spare, Opens
      <3> QED BY <1>3, <3>1, <3>2 DEF Spare, SpareNext
    <2> QED BY <2>1, <2>2
  <1>4. \A i \in DOMAIN c : c[i].do = "put" => c[i].table \in Names
    <2>1. PICK A : program \in Seq(Known(A))
      BY DEF ProgramInv, ProgramType
    <2> DEFINE T == Known(A)
    <2>2. \A o \in T : o.do = "put" => o.table \in Names
      BY DEF Known
    <2>3. c \in Seq(T)
      BY <1>1, <2>1
    <2> HIDE DEF T
    <2> QED BY <2>2, <2>3, SeqElements
  <1>5. \A i \in DOMAIN c : c[i].do = "put" => Saves(c, i) \/ PutsBackNext(c, i, c[i].table)
    BY <1>1, <1>3, <1>4 DEF PutsCounted, PutsBack, PutsBackNext
  <1> QED BY <1>2, <1>5, PutsThen

LEMMA PlannedPuts ==
    ASSUME Planned(program')
    PROVE  PutsCounted(program)'
  BY DEF Planned, PutsCounted

LEMMA NoPuts ==
    ASSUME program' = << >>
    PROVE  PutsCounted(program)'
  BY DEF PutsCounted

\* A statement that changes a handle, a record or a name.
LEMMA StatementCounts ==
    ASSUME FullInv, up, ~stale, NEW t \in Names, TableCounts(t),
           CreateTable \/ DropTable \/ RenameTable \/ ForgetTable \/ CreateTrigger \/ DropTrigger
    PROVE  TableCounts(t)'
  <1> USE DEF FullInv, DataInv
  <1>0. open \in [Names -> Handles \union {None}] /\ cache \in [Names -> MemMeta \union {None}]
    BY DEF CatalogInv, CatalogType
  <1>1. CASE CreateTrigger \/ DropTrigger
    <2>1. UNCHANGED <<rows, cache, open, renamed, unsaved, uncounted>>
      BY <1>1 DEF CreateTrigger, DropTrigger
    <2> QED BY <2>1, SameCounts
  <1>2. CASE CreateTable
    <2>1. PICK u \in Names : cache[u] = None /\ cache' = [cache EXCEPT ![u] = Meta(None, 0)]
      BY <1>2 DEF CreateTable
    <2>2. UNCHANGED <<rows, open, renamed, unsaved, uncounted>>
      BY <1>2 DEF CreateTable
    <2>3. CASE t # u
      <3>1. cache'[t] = cache[t]
        BY <1>0, <2>1, <2>3
      <3> QED BY <2>2, <3>1, SameCounts
    <2>4. CASE t = u
      <3> SUFFICES ASSUME Exact(t)' PROVE HandleCounts(t)' /\ CatalogCounts(t)'
        BY DEF TableCounts
      <3>1. t \notin renamed
        BY <2>2 DEF Exact
      <3>2. open'[t] = None
        BY <2>1, <2>2, <2>4, <3>1 DEF TreesInv, HandlesMatch
      <3>3. cache'[t].root = None /\ cache'[t].count = 0 /\ None \notin Pages
        BY <1>0, <2>1, <2>4, PageNotSymbol DEF Meta
      <3> QED BY <3>2, <3>3 DEF HandleCounts, CatalogCounts
    <2> QED BY <2>3, <2>4
  <1>3. CASE DropTable \/ ForgetTable
    <2>1. PICK u : /\ open' = [open EXCEPT ![u] = None] /\ cache' = [cache EXCEPT ![u] = None]
                   /\ uncounted' = uncounted \ {u}
      BY <1>3 DEF DropTable, ForgetTable, Forget
    <2>2. UNCHANGED <<rows, renamed, unsaved>>
      BY <1>3 DEF DropTable, ForgetTable
    <2>3. CASE t # u
      <3>1. cache'[t] = cache[t] /\ open'[t] = open[t]
        BY <1>0, <2>1, <2>3
      <3> QED BY <2>1, <2>2, <2>3, <3>1, SameCounts
    <2>4. CASE t = u
      <3>1. cache'[t] = None /\ open'[t] = None
        BY <1>0, <2>1, <2>4
      <3> QED BY <3>1 DEF TableCounts, HandleCounts, CatalogCounts
    <2> QED BY <2>3, <2>4
  <1>4. CASE RenameTable
    <2>1. PICK u, w \in Names : /\ cache' = [cache EXCEPT ![u] = None, ![w] = cache[u]]
                                /\ renamed' = renamed \union {u, w}
      BY <1>4 DEF RenameTable
    <2>2. UNCHANGED <<rows, open, unsaved, uncounted>>
      BY <1>4 DEF RenameTable
    <2>3. CASE t \in {u, w}
      BY <2>1, <2>3 DEF TableCounts, Exact
    <2>4. CASE t \notin {u, w}
      <3>1. cache'[t] = cache[t]
        BY <1>0, <2>1, <2>4
      <3> QED BY <2>1, <2>2, <3>1, SameCounts
    <2> QED BY <2>3, <2>4
  <1> QED BY <1>1, <1>2, <1>3, <1>4

\* Statements begin and reads end with what they found.
LEMMA QuietCounts ==
    ASSUME FullInv, NEW t \in Names, TableCounts(t),
           \/ Find \/ NoTable \/ ScanTable \/ Get \/ Check \/ Fire \/ RolledBack
           \/ BadBody \/ NoKey \/ Close \/ Shorten \/ Insert \/ Delete \/ Update \/ Select
           \/ Begin \/ Commit \/ Rollback
    PROVE  TableCounts(t)'
  <1>1. UNCHANGED <<rows, cache, open, renamed>>
    BY Quiet DEF catalogVars
  <1>2. /\ t \in uncounted => t \in uncounted'
        /\ t \in unsaved => t \in unsaved' \union uncounted'
    <2>1. CASE Fail
      BY <2>1 DEF Fail
    <2>2. CASE NoTable \/ BadBody \/ NoKey
      BY <2>1, <2>2 DEF NoTable, BadBody, NoKey
    <2>3. CASE Find \/ RolledBack \/ Close
      BY <2>3 DEF Find, RolledBack, Close, history
    <2>4. CASE ScanTable BY <2>4, Zenon DEF ScanTable, history
    <2>5. CASE Get BY <2>5, Zenon DEF Get, history
    <2>6. CASE Fire BY <2>6, Zenon DEF Fire, history
    <2>7. CASE Shorten BY <2>7, Zenon DEF Shorten, history
    <2>8. CASE Check /\ ~Fail BY <2>8, Zenon DEF Check, history
    <2>9. CASE Insert \/ Delete \/ Update \/ Select \/ Begin \/ Commit \/ Rollback
      <3>1. \E ops : Run(ops)
        <4>1. CASE Insert BY <4>1 DEF Insert
        <4>2. CASE Delete BY <4>2 DEF Delete
        <4>3. CASE Update BY <4>3 DEF Update
        <4>4. CASE Select BY <4>4 DEF Select
        <4>5. CASE Begin BY <4>5 DEF Begin
        <4>6. CASE Commit BY <4>6 DEF Commit
        <4>7. CASE Rollback BY <4>7 DEF Rollback
        <4> QED BY <2>9, <4>1, <4>2, <4>3, <4>4, <4>5, <4>6, <4>7
      <3> QED BY <3>1 DEF Run
    <2> QED BY <2>1, <2>2, <2>3, <2>4, <2>5, <2>6, <2>7, <2>8, <2>9
  <1> QED BY <1>1, <1>2, SameCounts

LEMMA TablesCount ==
    ASSUME FullInv, CountsFit, up, up', ~stale, [Next]_vars,
           \A t \in Names : TableCounts(t), PutsCounted(program), NEW t \in Names
    PROVE  TableCounts(t)'
  <1> USE DEF FullInv, DataInv
  <1> DEFINE h == Head(program).table
  <1>1. CASE UNCHANGED vars
    <2>1. UNCHANGED <<rows, open, cache, renamed, unsaved, uncounted>>
      BY <1>1 DEF vars, file, trees, history
    <2> QED BY <2>1, SameCounts
  <1>2. CASE \/ Find \/ NoTable \/ ScanTable \/ Get \/ Check \/ Fire \/ RolledBack
             \/ BadBody \/ NoKey \/ Close \/ Shorten \/ Insert \/ Delete \/ Update \/ Select
             \/ Begin \/ Commit \/ Rollback
    BY <1>2, QuietCounts
  <1>3. CASE CreateTable \/ DropTable \/ RenameTable \/ ForgetTable \/ CreateTrigger \/ DropTrigger
    BY <1>3, StatementCounts
  <1>4. CASE OpenTable
    <2>1. PICK u : Opens(u) /\ Target(u)
      BY <1>4, OpenTarget
    <2>2. CASE t = u
      BY <2>1, <2>2, OpensCounts
    <2>3. CASE t # u
      BY <2>1, <2>3, CountsElsewhere
    <2> QED BY <2>2, <2>3
  <1>5. CASE Put
    <2>1. CASE t = h
      BY <1>5, <2>1, PutCounts
    <2>2. CASE t # h
      BY <1>5, <2>2, CountTarget, CountsElsewhere
    <2> QED BY <2>1, <2>2
  <1>6. CASE Del
    <2>1. CASE t = h
      BY <1>6, <2>1, DelCounts
    <2>2. CASE t # h
      BY <1>6, <2>2, CountTarget, CountsElsewhere
    <2> QED BY <2>1, <2>2
  <1>7. CASE Save
    <2>1. CASE t = h
      BY <1>7, <2>1, SaveCounts
    <2>2. CASE t # h
      BY <1>7, <2>2, SaveTarget, CountsElsewhere
    <2> QED BY <2>1, <2>2
  <1>8. CASE Flush \/ SetCatalogRoot
    <2>1. UNCHANGED <<rows, open, cache, renamed, unsaved, uncounted>>
      BY <1>8 DEF Flush, SetCatalogRoot, trees, history
    <2> QED BY <2>1, SameCounts
  <1>9. ~ (Open \/ Crash \/ Exit \/ Overflow \/ DelPanics)
    BY DEF Open, Crash, Exit, Overflow, DelPanics, NoProcess
  <1> QED BY <1>1, <1>2, <1>3, <1>4, <1>5, <1>6, <1>7, <1>8, <1>9 DEF Next, Continue

LEMMA PutsStayCounted ==
    ASSUME FullInv, up, up', ~stale, [Next]_vars,
           \A t \in Names : TableCounts(t), PutsCounted(program)
    PROVE  PutsCounted(program)'
  <1> USE DEF FullInv, DataInv
  <1>1. CASE UNCHANGED vars
    BY <1>1 DEF vars, trees, history, file, PutsCounted, PutsBack, Spare, Exact, UpdatesItself
  <1>2. CASE Operation
    BY <1>2, OperationPuts
  <1>3. CASE OpenTable
    BY <1>3, OpenTarget, OpensPuts
  <1>4. CASE Insert \/ Delete \/ Update \/ Select \/ Begin \/ Commit \/ Rollback \/ Close
    BY <1>4, BeginProgram, PlannedPuts
  <1>5. CASE \/ CreateTable \/ DropTable \/ RenameTable \/ CreateTrigger \/ DropTrigger
             \/ NoTable \/ BadBody \/ NoKey \/ Fail
    <2>1. program' = << >>
      BY <1>5 DEF CreateTable, DropTable, RenameTable, CreateTrigger, DropTrigger, Statement, Idle,
                  NoTable, BadBody, NoKey, Fail
    <2> QED BY <2>1, NoPuts
  <1>6. ~ (Open \/ Crash \/ Exit \/ Overflow \/ DelPanics)
    BY DEF Open, Crash, Exit, Overflow, DelPanics, NoProcess
  <1> QED BY <1>1, <1>2, <1>3, <1>4, <1>5, <1>6 DEF Next, Continue, Operation

\* What a process leaves behind, and what the next finds.
LEMMA EndCounts ==
    ASSUME FullInv, up, ~stale, Crash \/ Exit \/ Overflow \/ DelPanics,
           \A t \in Names : TableCounts(t)
    PROVE  SavedCounts'
  <1> USE DEF FullInv, DataInv
  <1>1. /\ cats' = cats /\ savedRoot' = savedRoot /\ renamed' = renamed
        /\ uncounted' = uncounted \union unsaved
    BY DEF Crash, Exit, Overflow, DelPanics, NoProcess
  <1> SUFFICES ASSUME savedRoot # 0, NEW t \in Names, Exact(t)', cats[savedRoot].tables[t] # None,
                      NEW p \in Pages, p = cats[savedRoot].tables[t].root
               PROVE  Cardinality(Present(rows'[p])) <= cats[savedRoot].tables[t].count
    BY <1>1 DEF SavedCounts, Size
  <1> DEFINE m == cats[savedRoot].tables[t]
  <1>2. catRoot = savedRoot
    BY DEF TreesInv
  <1>3. Exact(t) /\ t \notin renamed /\ t \notin unsaved
    BY <1>1 DEF Exact
  <1>4. cache[t] # None /\ m = Encode(cache[t])
    BY <1>2, <1>3 DEF CatalogInv, CatalogMatches
  <1>5. cache[t] \in MemMeta
    BY <1>4 DEF CatalogInv, CatalogType
  <1>6. cache[t].root = p
    BY <1>4, <1>5, EncodedRoot
  <1>7. cache[t].count < RecordWidth /\ Size(p) <= cache[t].count
    BY <1>3, <1>4, <1>6 DEF TableCounts, CatalogCounts
  <1>8. m.count = cache[t].count
    <2>1. m.count = cache[t].count % RecordWidth
      BY <1>4 DEF Encode, Meta
    <2>2. cache[t].count \in Int /\ cache[t].count \in 0 .. RecordWidth - 1
      BY <1>5, <1>7, WidthFacts DEF MemMeta
    <2> QED BY <2>1, <2>2, WidthFacts, Remainder
  <1>9. rows'[p] = rows[p]
    <2>1. CASE rows' = rows
      BY <2>1
    <2>2. CASE DelPanics
      <3> DEFINE h == Head(program).table
      <3>1. Ready("del") /\ Orphaned(h, Head(program).arg)
            /\ rows' = [rows EXCEPT ![Page(open[h].root)][Head(program).arg] = None]
        BY <2>2 DEF DelPanics
      <3>2. Page(open[h].root) = 0
        BY <3>1 DEF Orphaned, Page
      <3>3. RefersTo(t, p)
        BY <1>4, <1>6 DEF RefersTo
      <3> HIDE DEF RefersTo
      <3>4. p \in 1 .. pageCount - 1
        BY <3>3 DEF TreesInv, RootsCounted
      <3>5. p # 0
        <4>1. pageCount \in Int
          BY WidthFacts DEF CatalogInv, CatalogType
        <4> QED BY <3>4, <4>1
      <3> QED BY <3>1, <3>2, <3>5 DEF RowsInv
    <2> QED BY <2>1, <2>2 DEF Crash, Exit, Overflow
  <1> QED BY <1>7, <1>8, <1>9 DEF Size

LEMMA StartCounts ==
    ASSUME FullInv, ~up, ~stale, Open, SavedCounts, NEW t \in Names
    PROVE  TableCounts(t)'
  <1> USE DEF FullInv, DataInv
  <1> SUFFICES ASSUME Exact(t)' PROVE HandleCounts(t)' /\ CatalogCounts(t)'
    BY DEF TableCounts
  <1>1. UNCHANGED <<open, renamed, unsaved, uncounted>> /\ open = NoTables
    BY DEF Open, DataType
  <1>2. HandleCounts(t)'
    BY <1>1 DEF HandleCounts, NoTables
  <1>3. CASE savedRoot = 0
    <2>1. cache'[t] = None
      BY <1>3 DEF Open, NoTables
    <2> QED BY <1>2, <2>1 DEF CatalogCounts
  <1>4. CASE savedRoot # 0
    <2> DEFINE m == cats[savedRoot].tables[t]
    <2>1. rows' = rows /\ cache'[t] = m
      BY <1>4 DEF Open
    <2>2. m \in CatMeta \union {None}
      BY DEF CatalogInv, CatalogType, Catalogs
    <2>3. Exact(t)
      BY <1>1 DEF Exact
    <2>4. m # None /\ m.root \in Pages => Size(m.root) <= m.count
      BY <1>4, <2>3 DEF SavedCounts
    <2>5. m # None => m.root # None /\ m.count < RecordWidth
      <3>1. m # None => m.root # None
        BY <2>2, PageNotSymbol, NoneAssumption DEF CatMeta
      <3>2. m # None => m.count \in 0 .. RecordWidth - 1
        BY <2>2 DEF CatMeta
      <3> QED BY <3>1, <3>2, WidthFacts
    <2> HIDE DEF m
    <2>6. CatalogCounts(t)'
      BY <2>1, <2>4, <2>5 DEF CatalogCounts, Size
    <2> QED BY <1>2, <2>6
  <1> QED BY <1>3, <1>4

LEMMA InitCounts == Init => CountInv
  <1> SUFFICES ASSUME Init PROVE SavedCounts
    BY DEF CountInv, Init
  <1>1. cats = [p \in Pages |-> NoCatalog] /\ savedRoot \in Pages
    BY WidthFacts DEF Init, Pages
  <1>2. \A t \in Names : cats[savedRoot].tables[t] = None
    BY <1>1 DEF NoCatalog, NoTables
  <1> QED BY <1>2 DEF SavedCounts

\* A session that started fresh goes on so.
LEMMA NeverFresh ==
    ASSUME [Next]_vars, stale \in BOOLEAN, ~stale'
    PROVE  ~stale
  <1>1. CASE UNCHANGED vars
    BY <1>1 DEF vars, history
  <1>2. CASE Open
    BY <1>2 DEF Open
  <1>3. CASE \/ Find \/ NoTable \/ ScanTable \/ Get \/ Check \/ Fire \/ RolledBack
             \/ BadBody \/ NoKey \/ Close \/ Shorten \/ Insert \/ Delete \/ Update \/ Select
             \/ Begin \/ Commit \/ Rollback
    BY <1>3, Quiet
  <1>4. CASE CreateTable \/ DropTable \/ RenameTable \/ CreateTrigger \/ DropTrigger
    BY <1>4 DEF CreateTable, DropTable, RenameTable, CreateTrigger, DropTrigger, Statement
  <1>5. CASE \/ OpenTable \/ Put \/ Save \/ ForgetTable \/ Flush \/ SetCatalogRoot
    BY <1>5 DEF OpenTable, Put, Save, ForgetTable, Flush, SetCatalogRoot, history
  <1>6. CASE Del
    BY <1>6 DEF Del, history
  <1>7. CASE Crash \/ Exit \/ Overflow \/ DelPanics
    BY <1>7 DEF Crash, Exit, Overflow, DelPanics, NoProcess
  <1> QED BY <1>1, <1>2, <1>3, <1>4, <1>5, <1>6, <1>7 DEF Next, Continue

\* Without a process only a session can start.
LEMMA OnlyOpens ==
    ASSUME Next, ~up
    PROVE  Open
  <1>1. ~ (\/ Insert \/ Delete \/ Update \/ Select \/ CreateTable \/ DropTable \/ RenameTable
           \/ CreateTrigger \/ DropTrigger \/ Begin \/ Commit \/ Rollback \/ Close \/ Crash)
    BY DEF Insert, Delete, Update, Select, CreateTable, DropTable, RenameTable,
           CreateTrigger, DropTrigger, Begin, Commit, Rollback, Close, Crash, Statement, Idle
  <1>2. ~ Continue
    <2>1. \A do : ~Running(do) /\ ~Ready(do)
      BY DEF Ready, Running
    <2>2. ~ (NoTable \/ Find \/ ScanTable \/ Get \/ Check \/ Fire \/ BadBody \/ NoKey \/ Put \/ Del)
      BY <2>1, Zenon DEF NoTable, Find, ScanTable, Get, Check, Fire, BadBody, NoKey, Put, Del
    <2>3. ~ (Save \/ ForgetTable \/ Shorten \/ RolledBack \/ Flush \/ SetCatalogRoot \/ Exit
             \/ Overflow \/ DelPanics)
      BY <2>1, Zenon DEF Save, ForgetTable, Shorten, RolledBack, Flush, SetCatalogRoot, Exit, Overflow, DelPanics
    <2>4. ~ OpenTable
      BY DEF OpenTable
    <2> QED BY <2>2, <2>3, <2>4 DEF Continue
  <1> QED BY <1>1, <1>2 DEF Next

LEMMA NextCounts ==
    ASSUME FullInv, CountsFit, CountInv, [Next]_vars
    PROVE  CountInv'
  <1> USE DEF FullInv, DataInv
  <1> SUFFICES ASSUME ~stale' PROVE /\ up' => (\A t \in Names : TableCounts(t)') /\ PutsCounted(program)'
                                    /\ ~up' => SavedCounts'
    BY DEF CountInv
  <1>1. up \in BOOLEAN /\ stale \in BOOLEAN
    BY DEF CatalogInv, CatalogType, DataType
  <1>2. ~stale
    BY <1>1, NeverFresh
  <1>3. CASE up /\ up'
    BY <1>2, <1>3, TablesCount, PutsStayCounted DEF CountInv
  <1>4. CASE up /\ ~up'
    <2>1. Crash \/ Exit \/ Overflow \/ DelPanics
      <3>1. ~ UNCHANGED vars
        BY <1>4, Zenon DEF vars
      <3>2. ~ (\/ Find \/ NoTable \/ ScanTable \/ Get \/ Check \/ Fire \/ RolledBack
               \/ BadBody \/ NoKey \/ Close \/ Shorten \/ Insert \/ Delete \/ Update \/ Select
               \/ Begin \/ Commit \/ Rollback)
        BY <1>4, Quiet, Zenon DEF catalogVars
      <3>3. ~ (CreateTable \/ DropTable \/ RenameTable \/ CreateTrigger \/ DropTrigger)
        BY <1>4 DEF CreateTable, DropTable, RenameTable, CreateTrigger, DropTrigger, Statement
      <3>4. ~ (OpenTable \/ Put \/ Save \/ ForgetTable \/ Flush \/ SetCatalogRoot)
        BY <1>4 DEF OpenTable, Put, Save, ForgetTable, Flush, SetCatalogRoot
      <3>5. ~ (Del \/ Open)
        BY <1>4 DEF Del, Open
      <3> QED BY <3>1, <3>2, <3>3, <3>4, <3>5 DEF Next, Continue
    <2> QED BY <1>2, <1>4, <2>1, EndCounts DEF CountInv
  <1>5. CASE ~up
    <2>1. CASE UNCHANGED vars
      <3>1. UNCHANGED <<up, savedRoot, cats, rows, renamed, uncounted>>
        BY <2>1 DEF vars, file, history
      <3>2. ~up' /\ SavedCounts
        BY <1>2, <1>5, <3>1 DEF CountInv
      <3> QED BY <3>1, <3>2 DEF SavedCounts, Exact, Size
    <2>2. CASE Open
      <3>1. up' /\ program' = << >>
        BY <1>5, <2>2 DEF Open, DataType
      <3>2. PutsCounted(program)'
        BY <3>1, NoPuts
      <3> QED BY <1>2, <1>5, <2>2, <3>1, <3>2, StartCounts DEF CountInv
    <2> QED BY <1>5, <2>1, <2>2, OnlyOpens
  <1> QED BY <1>1, <1>3, <1>4, <1>5

LEMMA FullInvariance == Spec => []FullInv
  <1>1. Init => UnsavedOpen
    BY InitUnsaved
  <1>2. DataInv /\ UnsavedOpen /\ [Next]_vars => UnsavedOpen'
    BY NextUnsaved
  <1>3. CatalogInv /\ TreesInv /\ RowsInv /\ DataInv /\ UnsavedOpen => FullInv
    BY DEF FullInv
  <1> QED BY <1>1, <1>2, <1>3, DataInvariance, TreesInvariance, PTL DEF Spec

LEMMA CountInvariance == Spec /\ []CountsFit => [](FullInv /\ CountInv)
  <1>1. FullInv /\ CountsFit /\ CountInv /\ [Next]_vars => CountInv'
    BY NextCounts
  <1> QED BY <1>1, InitCounts, FullInvariance, PTL DEF Spec

\* A sound table shows what its tree has, by its handle and by its record.
LEMMA ShowsRows ==
    ASSUME FullInv, CountInv, up, ~stale, NEW t \in Names, Sound(t), cache[t] # None
    PROVE  /\ cache[t].root = None => open[t] = None /\ cache[t].count = 0 /\ Visible(t) = NoRows
           /\ cache[t].root # None =>
                /\ cache[t].root \in Pages
                /\ Scan(cache[t].root, cache[t].count) = rows[cache[t].root]
                /\ Visible(t) = rows[cache[t].root]
                /\ open[t] # None => open[t].root = cache[t].root
  <1> USE DEF FullInv, DataInv
  <1>1. t \notin renamed /\ t \notin unsaved /\ Exact(t) /\ cache[t].root # Unset
    BY DEF Sound, Exact
  <1>2. HandleCounts(t) /\ CatalogCounts(t)
    BY <1>1 DEF CountInv, TableCounts
  <1>3. cache[t] \in MemMeta
    BY DEF CatalogInv, CatalogType
  <1>4. open[t] # None => /\ cache[t].root = open[t].root /\ open[t].root # None
                          /\ open[t].len \in Nat
    BY <1>1, ExactRoot
  <1>5. CASE cache[t].root = None
    <2>1. open[t] = None /\ cache[t].count = 0
      BY <1>2, <1>4, <1>5 DEF CatalogCounts
    <2> QED BY <1>5, <2>1 DEF Visible, Scan
  <1>6. CASE cache[t].root # None
    <2>1. cache[t].root \in Pages /\ cache[t].count \in Nat
      BY <1>1, <1>3, <1>6, WidthFacts DEF MemMeta
    <2>2. PICK p \in Pages : p = cache[t].root
      BY <2>1
    <2>3. Page(p) = p /\ p # None
      BY PageNotSymbol DEF Page
    <2>4. Size(p) \in Nat /\ (Size(p) = 0 => rows[p] = NoRows)
      BY SizeFacts
    <2>5. ASSUME NEW n \in Nat, Size(p) <= n PROVE Scan(p, n) = rows[p]
      <3>1. n = 0 => rows[p] = NoRows
        BY <2>4, <2>5
      <3> QED BY <2>3, <3>1 DEF Scan
    <2>6. Scan(p, cache[t].count) = rows[p]
      BY <1>1, <1>2, <2>1, <2>2, <2>5 DEF CatalogCounts
    <2>7. open[t] # None => Scan(p, open[t].len) = rows[p]
      BY <1>2, <1>4, <2>2, <2>5 DEF HandleCounts
    <2> QED BY <1>4, <1>6, <2>2, <2>6, <2>7 DEF Visible
  <1> QED BY <1>5, <1>6

\* A scan and a search by key see the same rows, although counts are kept apart
\* from the rows and only inserts save them: as long as no table has outgrown the
\* width of a count.
THEOREM PathsAgree == Spec /\ []CountsFit => []AccessPathsAgree
  <1>1. FullInv /\ CountInv => AccessPathsAgree
    <2> SUFFICES ASSUME FullInv, CountInv, up, ~stale, NEW t \in Names,
                        LET m == IF open[t] = None THEN cache[t] ELSE open[t]
                        IN  Sound(t) /\ cache[t] # None /\ m.root # None
                 PROVE  LET m == IF open[t] = None THEN cache[t] ELSE open[t]
                        IN  Visible(t) = rows[m.root]
      BY DEF AccessPathsAgree
    <2>1. Sound(t) /\ cache[t] # None
      OBVIOUS
    <2> QED BY <2>1, ShowsRows
  <1> QED BY <1>1, CountInvariance, PTL

\* What a finished statement did is found by the next process, also when this
\* one dies now.
THEOREM RestartsFind == Spec /\ []CountsFit => []RestartFinds
  <1>1. FullInv /\ CountInv => RestartFinds
    <2> SUFFICES ASSUME FullInv, CountInv, up, savedRoot = catRoot, catRoot # 0, ~stale,
                        NEW t \in Names, Sound(t)
                 PROVE  Restarted(t) = Visible(t)
      BY DEF RestartFinds, Idle
    <2> USE DEF FullInv, DataInv
    <2> DEFINE m == cats[savedRoot].tables[t]
    <2>1. t \notin renamed
      BY DEF Sound
    <2>2. IF cache[t] = None THEN m = None ELSE m = Encode(cache[t])
      BY <2>1 DEF CatalogInv, CatalogMatches
    <2>3. CASE cache[t] = None
      BY <2>2, <2>3 DEF Restarted, Visible
    <2>4. CASE cache[t] # None
      <3>1. cache[t] \in MemMeta /\ m \in CatMeta
        BY <2>2, <2>4, EncodeType DEF CatalogInv, CatalogType
      <3>2. m # None
        <4>1. cats[savedRoot].tables[t] \in MemMeta
          BY <3>1, WidthFacts DEF CatMeta, MemMeta
        <4> QED BY <4>1, MetaIsSome
      <3>3. Restarted(t) = Scan(m.root, m.count)
        BY <3>2 DEF Restarted
      <3>4. m.count = cache[t].count % RecordWidth
            /\ m.root = IF cache[t].root = None THEN Unset ELSE cache[t].root
        BY <2>2, <2>4 DEF Encode, Meta
      <3>5. CASE cache[t].root = None
        <4>1. cache[t].count = 0 /\ Visible(t) = NoRows
          BY <2>4, <3>5, ShowsRows
        <4>2. m.count = 0
          BY <3>4, <4>1, WidthFacts, Remainder
        <4> QED BY <3>3, <4>1, <4>2 DEF Scan
      <3>6. CASE cache[t].root # None
        <4>1. /\ cache[t].root \in Pages /\ Scan(cache[t].root, cache[t].count) = rows[cache[t].root]
              /\ Visible(t) = rows[cache[t].root]
          BY <2>4, <3>6, ShowsRows
        <4>2. cache[t].count \in 0 .. RecordWidth - 1 /\ cache[t].count \in Int
          <5>1. CatalogCounts(t)
            BY DEF Sound, Exact, CountInv, TableCounts
          <5>2. cache[t].count < RecordWidth
            BY <2>4, <4>1, <5>1 DEF CatalogCounts
          <5> QED BY <3>1, <5>2, WidthFacts DEF MemMeta
        <4>3. m.count = cache[t].count
          BY <3>4, <4>2, WidthFacts, Remainder
        <4> QED BY <3>3, <3>4, <3>6, <4>1, <4>3
      <3> QED BY <3>5, <3>6
    <2> QED BY <2>3, <2>4
  <1> QED BY <1>1, CountInvariance, PTL

---------------------------------------------------------------------------
(***************************************************************************)
(* Unique keys: the row of an INSERT has been checked when it is put, and  *)
(* what runs in between, the triggers before the row, puts no row of the   *)
(* table.                                                                  *)
(***************************************************************************)

\* An operation that may come between the check of a row and its insertion.
Between(o, t) ==
    \/ o.do = "fire" /\ o.table = t /\ o.arg = "insert"
    \/ /\ o.nested /\ o.do \in {"find", "check", "put", "save", "scan", "del", "error"}
       /\ o.do = "put" => o.table # t

Unhurt(q, j, i, t) == \A k \in DOMAIN q : j < k /\ k < i => Between(q[k], t)

\* Is the row of the i-th operation checked by one that is still to come?
Checked(q, i) ==
    \E j \in DOMAIN q : /\ j < i /\ q[j].do = "check" /\ q[j].table = q[i].table /\ q[j].arg = q[i].arg
                        /\ Unhurt(q, j, i, q[i].table)

CheckedFirst(q) == \A i \in DOMAIN q : q[i].do = "put" => Checked(q, i)

LEMMA NothingPut ==
    ASSUME NEW q, \A i \in DOMAIN q : q[i].do # "put"
    PROVE  CheckedFirst(q)
  BY DEF CheckedFirst

LEMMA CheckedJoin ==
    ASSUME NEW T, NEW a \in Seq(T), NEW b \in Seq(T), CheckedFirst(a), CheckedFirst(b)
    PROVE  CheckedFirst(a \o b)
  <1> DEFINE c == a \o b
             m == Len(a)
  <1>1. /\ m \in Nat /\ DOMAIN a = 1 .. m /\ DOMAIN b = 1 .. Len(b) /\ Len(b) \in Nat
        /\ DOMAIN c = 1 .. m + Len(b)
        /\ \A i \in DOMAIN a : i \in DOMAIN c /\ c[i] = a[i]
        /\ \A i \in DOMAIN b : m + i \in DOMAIN c /\ c[m + i] = b[i]
        /\ \A i \in DOMAIN c : \/ i \in DOMAIN a
                               \/ i > m /\ i - m \in DOMAIN b /\ c[i] = b[i - m]
    BY JoinFacts
  <1> HIDE DEF c, m
  <1> SUFFICES ASSUME NEW i \in DOMAIN c, c[i].do = "put" PROVE Checked(c, i)
    BY DEF CheckedFirst, c
  <1>2. CASE i \in DOMAIN a
    <2>1. PICK j \in DOMAIN a : /\ j < i /\ a[j].do = "check" /\ a[j].table = a[i].table
                                /\ a[j].arg = a[i].arg /\ Unhurt(a, j, i, a[i].table)
      BY <1>1, <1>2 DEF CheckedFirst, Checked
    <2>2. \A k \in DOMAIN c : k < i => k \in DOMAIN a /\ c[k] = a[k]
      BY <1>1, <1>2
    <2>3. Unhurt(c, j, i, c[i].table)
      BY <1>1, <1>2, <2>1, <2>2 DEF Unhurt
    <2> QED BY <1>1, <1>2, <2>1, <2>3 DEF Checked
  <1>3. CASE i \notin DOMAIN a
    <2>1. i - m \in DOMAIN b /\ c[i] = b[i - m]
      BY <1>1, <1>3
    <2>2. PICK j \in DOMAIN b : /\ j < i - m /\ b[j].do = "check" /\ b[j].table = b[i - m].table
                                /\ b[j].arg = b[i - m].arg /\ Unhurt(b, j, i - m, b[i - m].table)
      BY <2>1 DEF CheckedFirst, Checked
    <2>3. m + j < i /\ m + j \in DOMAIN c /\ c[m + j] = b[j]
      BY <1>1, <2>1, <2>2
    <2>4. ASSUME NEW k \in DOMAIN c, m + j < k, k < i PROVE Between(c[k], c[i].table)
      <3>1. k - m \in DOMAIN b /\ c[k] = b[k - m] /\ j < k - m /\ k - m < i - m
        BY <1>1, <2>2, <2>4
      <3> QED BY <2>1, <2>2, <3>1 DEF Unhurt
    <2>5. Unhurt(c, m + j, i, c[i].table)
      BY <2>4 DEF Unhurt
    <2> QED BY <2>1, <2>2, <2>3, <2>5 DEF Checked
  <1> QED BY <1>2, <1>3

LEMMA RowOpsChecked ==
    ASSUME NEW t \in Names, NEW r, NEW nested \in BOOLEAN
    PROVE  CheckedFirst(RowOps(t, r, nested))
  <1> DEFINE check == Op("check", t, r, nested)
             fire == Op("fire", t, "insert", nested)
             put == Op("put", t, r, nested)
             s == <<check, put>>
             u == <<check, fire, put, fire>>
  <1>1. /\ check.do = "check" /\ check.table = t /\ check.arg = r
        /\ put.do = "put" /\ put.table = t /\ put.arg = r
        /\ fire.do = "fire" /\ fire.table = t /\ fire.arg = "insert"
    BY DEF Op
  <1>2. RowOps(t, r, nested) \in {s, u}
    BY Zenon DEF RowOps
  <1> HIDE DEF check, fire, put
  <1>3. DOMAIN s = {1, 2} /\ s[1] = check /\ s[2] = put
    OBVIOUS
  <1>4. DOMAIN u = {1, 2, 3, 4} /\ u[1] = check /\ u[2] = fire /\ u[3] = put /\ u[4] = fire
    OBVIOUS
  <1> HIDE DEF s, u
  <1>5. CheckedFirst(s)
    <2>1. Unhurt(s, 1, 2, t)
      BY <1>3 DEF Unhurt
    <2> QED BY <1>1, <1>3, <2>1 DEF CheckedFirst, Checked
  <1>6. CheckedFirst(u)
    <2>1. Unhurt(u, 1, 3, t)
      BY <1>1, <1>4 DEF Unhurt, Between
    <2> QED BY <1>1, <1>4, <2>1 DEF CheckedFirst, Checked
  <1> QED BY <1>2, <1>5, <1>6, Zenon

LEMMA InsertOpsChecked ==
    ASSUME NEW t \in Names, NEW n \in Nat, NEW rs \in [1 .. n -> Rows \union {None}],
           NEW nested \in BOOLEAN
    PROVE  CheckedFirst(InsertOps(t, rs, nested))
  <1> DEFINE S == InsertShape(t, nested)
             find == Op("find", t, None, nested)
             save == Op("save", t, None, nested)
             ops == [i \in DOMAIN rs |-> RowOps(t, rs[i], nested)]
             mid == FlattenSeq(ops)
             B == {q \in Seq(S) : CheckedFirst(q)}
  <1>1. find \in S /\ save \in S /\ save.do = "save" /\ find.do = "find"
    BY DEF InsertShape, Known, Op, RowArgs, Ops
  <1>2. ops \in [1 .. n -> B]
    BY RowOpsFacts, RowOpsChecked
  <1> HIDE DEF S, find, save, ops
  <1>3. << >> \in B
    BY NothingPut
  <1>4. ASSUME NEW a \in B, NEW b \in B PROVE a \o b \in B
    <2>1. a \in Seq(S) /\ b \in Seq(S) /\ CheckedFirst(a) /\ CheckedFirst(b)
      OBVIOUS
    <2>2. CheckedFirst(a \o b)
      BY <2>1, CheckedJoin
    <2>3. a \o b \in Seq(S)
      BY <2>1
    <2> QED BY <2>2, <2>3
  <1> HIDE DEF B
  <1>5. mid \in B
    BY <1>2, <1>3, <1>4, FlattenKeeps
  <1> HIDE DEF mid
  <1>6. <<find>> \in B /\ <<save>> \in B
    <2>1. <<find>> \in Seq(S) /\ <<save>> \in Seq(S)
      BY <1>1
    <2>2. CheckedFirst(<<find>>) /\ CheckedFirst(<<save>>)
      BY <1>1, NothingPut
    <2> QED BY <2>1, <2>2 DEF B
  <1>7. (<<find>> \o mid) \o <<save>> \in B
    BY <1>4, <1>5, <1>6
  <1>8. (<<find>> \o mid) \o <<save>> = InsertOps(t, rs, nested)
    BY DEF InsertOps, mid, ops, find, save
  <1> QED BY <1>7, <1>8 DEF B

\* A table that was made by this process and has its name still: it has the
\* constraints it was made with.
OwnTable(t) == t \notin renamed /\ cons[t] # None

\* A table with a unique key that no trigger of its inserts inserts into.
Guarded(t) ==
    /\ OwnTable(t) /\ cons[t].unique
    /\ \A g \in trig : g.table = t /\ g.event = "insert" => g.into # t \/ g.does # "insert"

\* The bodies of triggers check what they put, and put nothing into a table
\* that they do not insert into.
LEMMA BodiesChecked ==
    ASSUME DefaultsType, NEW G, G \subseteq TriggerDefs, NEW bodies \in SetToSeqs(G),
           NEW f, f = FlattenSeq([i \in DOMAIN bodies |-> BodyOps(bodies[i])]), NEW t
    PROVE  /\ CheckedFirst(f)
           /\ (\A g \in G : g.into # t \/ g.does # "insert") => \A i \in DOMAIN f : Between(f[i], t)
  <1> DEFINE S == {o \in BodyShape :
                      (\A g \in G : g.into # t \/ g.does # "insert") => Between(o, t)}
             n == Cardinality(G)
             ops == [i \in DOMAIN bodies |-> BodyOps(bodies[i])]
             B == {q \in Seq(S) : CheckedFirst(q)}
  <1>1. n \in Nat /\ bodies \in [1 .. n -> G]
    BY TriggersAssumption, FS_Subset, FS_CardinalityType DEF SetToSeqs
  <1>2. ASSUME NEW g \in G PROVE BodyOps(g) \in B
    <2> DEFINE q == BodyOps(g)
    <2>1. g \in TriggerDefs /\ g.into \in Names /\ g.does \in {"insert", "delete", "error"}
      BY TriggersAssumption
    <2>2. CASE g.does = "insert"
      <3> DEFINE R == InsertShape(g.into, TRUE)
      <3>1. <<defaults[g.into]>> \in [1 .. 1 -> Rows \union {None}] /\ 1 \in Nat /\ TRUE \in BOOLEAN
        BY <2>1 DEF DefaultsType
      <3>2. q = InsertOps(g.into, <<defaults[g.into]>>, TRUE)
        BY <2>2 DEF BodyOps
      <3>3. q \in Seq(R) /\ CheckedFirst(q)
        BY <2>1, <3>1, <3>2, InsertOpsFacts, InsertOpsChecked, Zenon
      <3>4. R \subseteq S
        <4> SUFFICES ASSUME NEW o \in R PROVE o \in S
          OBVIOUS
        <4>1. /\ o \in Known(RowArgs) /\ o.table = g.into /\ o.nested
              /\ o.do \in {"find", "check", "put", "save"}
          BY DEF InsertShape, Known
        <4>2. o \in BodyShape
          BY <4>1 DEF BodyShape
        <4> QED BY <2>2, <4>1, <4>2 DEF Between
      <3> HIDE DEF R, S, q
      <3>5. q \in Seq(S)
        BY <3>3, <3>4, SeqGrows
      <3> QED BY <3>3, <3>5 DEF q
    <2>3. CASE g.does = "delete"
      <3> DEFINE o == Op("scan", g.into, "delete", TRUE)
      <3>1. o \in S /\ o.do = "scan"
        <4>1. "scan" \in Ops /\ "delete" \in RowArgs
          BY DEF RowArgs, Ops
        <4> QED BY <2>1, <4>1 DEF Known, Op, BodyShape, Between
      <3>2. q = <<o>>
        BY <2>3 DEF BodyOps
      <3> HIDE DEF o, S
      <3>3. <<o>> \in Seq(S) /\ CheckedFirst(<<o>>)
        BY <3>1, NothingPut
      <3> QED BY <3>2, <3>3
    <2>4. CASE g.does = "error"
      <3> DEFINE o == Op("error", None, None, TRUE)
      <3>1. o \in S /\ o.do = "error"
        <4>1. "error" \in Ops /\ None \in RowArgs
          BY DEF RowArgs, Ops
        <4> QED BY <4>1 DEF Known, Op, BodyShape, Between
      <3>2. q = <<o>>
        BY <2>4 DEF BodyOps
      <3> HIDE DEF o, S
      <3>3. <<o>> \in Seq(S) /\ CheckedFirst(<<o>>)
        BY <3>1, NothingPut
      <3> QED BY <3>2, <3>3
    <2> QED BY <2>1, <2>2, <2>3, <2>4
  <1> HIDE DEF n, S
  <1>3. << >> \in B
    BY NothingPut
  <1>4. ASSUME NEW a \in B, NEW b \in B PROVE a \o b \in B
    <2>1. a \in Seq(S) /\ b \in Seq(S) /\ CheckedFirst(a) /\ CheckedFirst(b)
      OBVIOUS
    <2>2. CheckedFirst(a \o b)
      BY <2>1, CheckedJoin
    <2>3. a \o b \in Seq(S)
      BY <2>1
    <2> QED BY <2>2, <2>3
  <1> HIDE DEF B
  <1>5. ops \in [1 .. n -> B]
    BY <1>1, <1>2
  <1>6. f = FlattenSeq(ops)
    OBVIOUS
  <1> HIDE DEF ops
  <1>7. f \in B
    BY <1>1, <1>3, <1>4, <1>5, <1>6, FlattenKeeps
  <1>8. f \in Seq(S) /\ CheckedFirst(f)
    BY <1>7 DEF B
  <1>9. \A i \in DOMAIN f : f[i] \in S
    BY <1>8, SeqElements
  <1> QED BY <1>8, <1>9 DEF S

\* What firing leads to.
LEMMA FireGuarded ==
    ASSUME DataInv, Fire
    PROVE  /\ program # << >>
           /\ \E f \in Seq(Known(RowArgs)) :
                /\ program' = f \o Tail(program) /\ CheckedFirst(f)
                /\ \A i \in DOMAIN f : f[i].do # "get"
                /\ \A t \in Names : Guarded(t) /\ Between(Head(program), t) =>
                                        \A i \in DOMAIN f : Between(f[i], t)
  <1> DEFINE h == Head(program)
             G == {g \in trig : g.table = h.table /\ g.event = h.arg}
  <1>1. program # << >> /\ h.do = "fire"
    BY ReadyFacts DEF Fire
  <1>2. PICK bodies \in SetToSeqs(G) :
          program' = FlattenSeq([i \in DOMAIN bodies |-> BodyOps(bodies[i])]) \o Tail(program)
    BY DEF Fire
  <1>3. G \subseteq TriggerDefs /\ DefaultsType
    BY DEF DataInv, CatalogInv, CatalogType, DataType
  <1>4. \A t : Guarded(t) /\ Between(h, t) => \A g \in G : g.into # t \/ g.does # "insert"
    BY <1>1 DEF Guarded, Between
  <1> HIDE DEF G
  <1>5. PICK f : f = FlattenSeq([i \in DOMAIN bodies |-> BodyOps(bodies[i])])
    OBVIOUS
  <1>6. CheckedFirst(f) /\ \A t : (\A g \in G : g.into # t \/ g.does # "insert") =>
                                     \A i \in DOMAIN f : Between(f[i], t)
    BY <1>3, <1>5, BodiesChecked
  <1>7. f \in Seq(BodyShape)
    BY <1>3, <1>5, FireFacts DEF DefaultsType
  <1>8. BodyShape \subseteq Known(RowArgs)
    BY DEF BodyShape
  <1>9. f \in Seq(Known(RowArgs))
    BY <1>7, <1>8, SeqGrows
  <1>10. \A i \in DOMAIN f : f[i].do # "get"
    <2>1. \A o \in BodyShape : o.do # "get"
      BY DEF BodyShape
    <2>2. \A i \in DOMAIN f : f[i] \in BodyShape
      BY <1>7, SeqElements
    <2> QED BY <2>1, <2>2
  <1>11. \A t \in Names : Guarded(t) /\ Between(h, t) => \A i \in DOMAIN f : Between(f[i], t)
    BY <1>4, <1>6
  <1> QED BY <1>1, <1>2, <1>5, <1>6, <1>9, <1>10, <1>11

\* A table of this process got its tree from it, and its handle counts the
\* rows: nothing was done without the handle.
HandleExact(t) ==
    OwnTable(t) =>
        /\ cache[t] # None /\ open[t] = None => cache[t].root = None
        /\ open[t] # None => open[t].root \in Pages /\ open[t].len = Size(open[t].root)

LEMMA SizeBound ==
    ASSUME NEW r \in [Keys -> Vals \union {None}]
    PROVE  Cardinality(Present(r)) \in Nat /\ Cardinality(Present(r)) < SizeWidth
  <1>1. Present(r) \subseteq Keys
    BY DEF Present
  <1>2. Cardinality(Present(r)) \in Nat /\ Cardinality(Present(r)) <= Cardinality(Keys)
    BY <1>1, KeysAssumption, FS_Subset, FS_CardinalityType
  <1>3. Cardinality(Keys) \in Nat /\ Cardinality(Keys) < SizeWidth
    BY KeysCounted, WidthAssumption
  <1> QED BY <1>2, <1>3, WidthFacts

\* A table whose handle and record stay as they are.
LEMMA SameExact ==
    ASSUME NEW t \in Names, HandleExact(t), open'[t] = open[t], rows' = rows,
           OwnTable(t)' => OwnTable(t),
           cache'[t] = cache[t] \/ open[t] # None \/ cache'[t] = None
    PROVE  HandleExact(t)'
  BY DEF HandleExact, Size

LEMMA ExactElsewhere ==
    ASSUME NEW h, Target(h), NEW t \in Names, t # h, cons' = cons, HandleExact(t)
    PROVE  HandleExact(t)'
  <1> SUFFICES ASSUME OwnTable(t)'
               PROVE  /\ cache'[t] # None /\ open'[t] = None => cache'[t].root = None
                      /\ open'[t] # None =>
                            open'[t].root \in Pages
                            /\ open'[t].len = Cardinality(Present(rows'[open'[t].root]))
    BY DEF HandleExact, Size
  <1>1. OwnTable(t) /\ open'[t] = open[t] /\ cache'[t] = cache[t] /\ t \notin renamed
    BY DEF OwnTable, Target
  <1>2. /\ cache[t] # None /\ open[t] = None => cache[t].root = None
        /\ open[t] # None => open[t].root \in Pages /\ open[t].len = Size(open[t].root)
    BY <1>1 DEF HandleExact
  <1>3. open[t] # None => rows'[open[t].root] = rows[open[t].root]
    BY <1>1, <1>2 DEF Target, RefersTo
  <1> QED BY <1>1, <1>2, <1>3 DEF Size

LEMMA PutExact ==
    ASSUME DataInv, Put, NEW t \in Names, t = Head(program).table, HandleExact(t)
    PROVE  HandleExact(t)'
  <1> USE DEF DataInv
  <1>1. /\ program # << >> /\ Head(program).do = "put" /\ open[t] # None
        /\ Head(program).arg \in Rows \union {None} /\ Head(program).arg # None
    <2>1. Ready("put") /\ Head(program).arg # None
      BY DEF Put
    <2> QED BY <2>1, ReadyFacts, HeadKnown
  <1> DEFINE k == Head(program).arg.key
             v == Head(program).arg.val
             len == open[t].len
             new == LenAfterPut(len, rows[Page(open[t].root)][k] # None)
  <1>2. k \in Keys /\ v \in Vals
    BY <1>1 DEF Rows
  <1>3. /\ rows' = [rows EXCEPT ![Page(open[t].root)][k] = v]
        /\ open' = [open EXCEPT ![t].len = new]
        /\ renamed' = renamed /\ cons' = cons
    BY DEF Put
  <1>4. open'[t] = [open[t] EXCEPT !.len = new] /\ open[t] \in Handles
    BY <1>1, <1>3 DEF CatalogInv, CatalogType
  <1>5. len \in Int /\ new \in 0 .. SizeWidth - 1
    <2>1. len \in Int
      BY <1>4, WidthFacts DEF Handles
    <2> QED BY <2>1, CountWraps, Zenon
  <1> SUFFICES ASSUME OwnTable(t)
               PROVE  HandleExact(t)'
    BY <1>3 DEF HandleExact, OwnTable
  <1>6. PICK p \in Pages : p = open[t].root /\ len = Size(p) /\ Page(open[t].root) = p
    BY <1>1, PageNotSymbol DEF HandleExact, Page
  <1>7. rows' = [rows EXCEPT ![p][k] = v]
    BY <1>3, <1>6, Zenon
  <1> DEFINE n == Cardinality(Present(rows'[p]))
             there == rows[p][k] # None
  <1>8. /\ there => Size(p) >= 1 /\ n = Size(p)
        /\ ~there => n = Size(p) + 1
    BY <1>2, <1>7, OneMore
  <1>9. n \in Nat /\ n < SizeWidth /\ Size(p) \in Nat /\ Size(p) < SizeWidth
    <2>1. rows[p] \in [Keys -> Vals \union {None}] /\ rows'[p] = [rows[p] EXCEPT ![k] = v]
      BY <1>7 DEF DataType
    <2>2. rows'[p] \in [Keys -> Vals \union {None}]
      BY <1>2, <2>1
    <2> QED BY <2>1, <2>2, SizeBound DEF Size
  <1>10. new = ((IF there /\ len # 0 THEN len - 1 ELSE len) + 1) % SizeWidth
    BY <1>6 DEF LenAfterPut
  <1> HIDE DEF n, new, there
  <1>11. new = n
    <2>1. CASE there
      <3>1. new = ((len - 1) + 1) % SizeWidth
        BY <1>6, <1>8, <1>9, <1>10, <2>1
      <3>2. (len - 1) + 1 = n /\ n \in 0 .. SizeWidth - 1 /\ n \in Int
        BY <1>5, <1>6, <1>8, <1>9, <2>1, WidthFacts
      <3> QED BY <3>1, <3>2, WidthFacts, Remainder
    <2>2. CASE ~there
      <3>1. new = (len + 1) % SizeWidth
        BY <1>10, <2>2
      <3>2. len + 1 = n /\ n \in 0 .. SizeWidth - 1 /\ n \in Int
        BY <1>6, <1>8, <1>9, <2>2, WidthFacts
      <3> QED BY <3>1, <3>2, WidthFacts, Remainder
    <2> QED BY <2>1, <2>2
  <1>12. open'[t].root = p /\ open'[t].len = new /\ open'[t] # None
    <2>1. open'[t] \in Handles
      BY <1>4, <1>5 DEF Handles
    <2> QED BY <1>4, <1>6, <2>1, HandleIsSome DEF Handles
  <1> QED BY <1>11, <1>12 DEF HandleExact, Size, n

LEMMA DelExact ==
    ASSUME DataInv, Del, NEW t \in Names, t = Head(program).table, HandleExact(t)
    PROVE  HandleExact(t)'
  <1> USE DEF DataInv
  <1>1. program # << >> /\ Head(program).do = "del" /\ open[t] # None /\ Head(program).arg \in Keys
    <2>1. Ready("del")
      BY DEF Del
    <2> QED BY <2>1, ReadyFacts, HeadKnown
  <1> DEFINE k == Head(program).arg
             len == open[t].len
             new == IF rows[Page(open[t].root)][k] # None THEN (len - 1) % SizeWidth ELSE len
  <1>3. /\ rows' = [rows EXCEPT ![Page(open[t].root)][k] = None]
        /\ open' = [open EXCEPT ![t].len = new]
        /\ renamed' = renamed /\ cons' = cons
    BY DEF Del, history
  <1>4. open'[t] = [open[t] EXCEPT !.len = new] /\ open[t] \in Handles
    BY <1>1, <1>3 DEF CatalogInv, CatalogType
  <1>5. len \in Int /\ new \in 0 .. SizeWidth - 1
    <2>1. len \in Int /\ len \in 0 .. SizeWidth - 1
      BY <1>4, WidthFacts DEF Handles
    <2>2. (len - 1) % SizeWidth \in 0 .. SizeWidth - 1
      BY <2>1, WidthFacts, Remainder
    <2> QED BY <2>1, <2>2
  <1> SUFFICES ASSUME OwnTable(t)
               PROVE  HandleExact(t)'
    BY <1>3 DEF HandleExact, OwnTable
  <1>6. PICK p \in Pages : p = open[t].root /\ len = Size(p) /\ Page(open[t].root) = p
    BY <1>1, PageNotSymbol DEF HandleExact, Page
  <1>7. rows' = [rows EXCEPT ![p][k] = None]
    BY <1>3, <1>6, Zenon
  <1> DEFINE n == Cardinality(Present(rows'[p]))
             there == rows[p][k] # None
  <1>8. /\ there => Size(p) >= 1 /\ n = Size(p) - 1
        /\ ~there => n = Size(p)
    BY <1>1, <1>7, OneLess
  <1>9. Size(p) \in Nat /\ Size(p) < SizeWidth
    BY SizeBound DEF Size, DataType
  <1>10. new = IF there THEN (len - 1) % SizeWidth ELSE len
    BY <1>6
  <1> HIDE DEF n, new, there
  <1>11. new = n
    <2>1. CASE there
      <3>1. len - 1 = n /\ n \in 0 .. SizeWidth - 1 /\ n \in Int
        BY <1>6, <1>8, <1>9, <2>1, WidthFacts
      <3> QED BY <1>10, <2>1, <3>1, WidthFacts, Remainder
    <2>2. CASE ~there
      BY <1>6, <1>8, <1>10, <2>2
    <2> QED BY <2>1, <2>2
  <1>12. open'[t].root = p /\ open'[t].len = new /\ open'[t] # None
    <2>1. open'[t] \in Handles
      BY <1>4, <1>5 DEF Handles
    <2> QED BY <1>4, <1>6, <2>1, HandleIsSome DEF Handles
  <1> QED BY <1>11, <1>12 DEF HandleExact, Size, n

\* A table of this process that is opened gets a tree of its own.
LEMMA OpensOwn ==
    ASSUME DataInv, NEW t \in Names, Opens(t), OwnTable(t), HandleExact(t)
    PROVE  /\ pageCount \in Pages /\ rows'[pageCount] = NoRows
           /\ open'[t] = [root |-> pageCount, len |-> 0]
           /\ cache'[t] = Meta(pageCount, 0)
  <1> USE DEF DataInv
  <1>1. cache[t].root = None
    BY DEF Opens, HandleExact
  <1> QED BY <1>1 DEF Opens, CatalogInv, CatalogType, DataType

LEMMA OpensExact ==
    ASSUME DataInv, NEW t \in Names, Opens(t), cons' = cons, HandleExact(t)
    PROVE  HandleExact(t)'
  <1> SUFFICES ASSUME OwnTable(t)' PROVE HandleExact(t)'
    BY DEF HandleExact
  <1>1. OwnTable(t)
    BY DEF OwnTable, Opens
  <1>2. /\ pageCount \in Pages /\ rows'[pageCount] = NoRows
        /\ open'[t] = [root |-> pageCount, len |-> 0]
    BY <1>1, OpensOwn
  <1>3. Present(NoRows) = {}
    BY DEF Present, NoRows
  <1>4. Cardinality(Present(rows'[pageCount])) = 0
    BY <1>2, <1>3, FS_EmptySet
  <1>5. open'[t] \in Handles
    BY <1>2, WidthFacts DEF Handles
  <1>6. open'[t] # None /\ open'[t].root = pageCount /\ open'[t].len = 0
    BY <1>2, <1>5, HandleIsSome
  <1> QED BY <1>2, <1>4, <1>6 DEF HandleExact, Size

\* A statement that changes a handle, a record or a name.
LEMMA StatementExact ==
    ASSUME FullInv, up, ~stale, NEW t \in Names, HandleExact(t),
           \/ CreateTable \/ DropTable \/ RenameTable \/ ForgetTable \/ CreateTrigger \/ DropTrigger
           \/ Save \/ Flush \/ SetCatalogRoot
    PROVE  HandleExact(t)'
  <1> USE DEF FullInv, DataInv
  <1>0. open \in [Names -> Handles \union {None}] /\ cache \in [Names -> MemMeta \union {None}]
    BY DEF CatalogInv, CatalogType
  <1>1. CASE CreateTrigger \/ DropTrigger \/ Flush \/ SetCatalogRoot
    <2>1. UNCHANGED <<rows, cache, open, renamed, cons>>
      BY <1>1 DEF CreateTrigger, DropTrigger, Flush, SetCatalogRoot, trees, history
    <2> QED BY <2>1, SameExact DEF OwnTable
  <1>2. CASE CreateTable
    <2>1. PICK u \in Names, c \in ConstraintDefs :
            cache[u] = None /\ cache' = [cache EXCEPT ![u] = Meta(None, 0)] /\ cons' = [cons EXCEPT ![u] = c]
      BY <1>2 DEF CreateTable
    <2>2. UNCHANGED <<rows, open, renamed>>
      BY <1>2 DEF CreateTable
    <2>3. CASE t # u
      <3>1. cache'[t] = cache[t] /\ cons'[t] = cons[t]
        BY <1>0, <2>1, <2>3 DEF DataType
      <3> QED BY <2>2, <3>1, SameExact DEF OwnTable
    <2>4. CASE t = u
      <3> SUFFICES ASSUME OwnTable(t)' PROVE HandleExact(t)'
        BY DEF HandleExact
      <3>1. t \notin renamed
        BY <2>2 DEF OwnTable
      <3>2. open'[t] = None
        BY <2>1, <2>2, <2>4, <3>1 DEF TreesInv, HandlesMatch
      <3>3. cache'[t].root = None
        BY <1>0, <2>1, <2>4 DEF Meta
      <3> QED BY <3>2, <3>3 DEF HandleExact
    <2> QED BY <2>3, <2>4
  <1>3. CASE DropTable \/ ForgetTable
    <2>1. PICK u : open' = [open EXCEPT ![u] = None] /\ cache' = [cache EXCEPT ![u] = None]
      BY <1>3 DEF DropTable, ForgetTable, Forget
    <2>2. UNCHANGED <<rows, renamed, cons>>
      BY <1>3 DEF DropTable, ForgetTable
    <2>3. CASE t # u
      <3>1. cache'[t] = cache[t] /\ open'[t] = open[t]
        BY <1>0, <2>1, <2>3
      <3> QED BY <2>2, <3>1, SameExact DEF OwnTable
    <2>4. CASE t = u
      <3>1. cache'[t] = None /\ open'[t] = None
        BY <1>0, <2>1, <2>4
      <3> QED BY <3>1 DEF HandleExact
    <2> QED BY <2>3, <2>4
  <1>4. CASE RenameTable
    <2>1. PICK u, w \in Names : /\ cache' = [cache EXCEPT ![u] = None, ![w] = cache[u]]
                                /\ renamed' = renamed \union {u, w}
      BY <1>4 DEF RenameTable
    <2>2. UNCHANGED <<rows, open, cons>>
      BY <1>4 DEF RenameTable
    <2>3. CASE t \in {u, w}
      BY <2>1, <2>3 DEF HandleExact, OwnTable
    <2>4. CASE t \notin {u, w}
      <3>1. cache'[t] = cache[t]
        BY <1>0, <2>1, <2>4
      <3> QED BY <2>1, <2>2, <3>1, SameExact DEF OwnTable
    <2> QED BY <2>3, <2>4
  <1>5. CASE Save
    <2> DEFINE h == Head(program).table
    <2>1. /\ open[h] # None /\ cache' = [cache EXCEPT ![h] = CountRows(h)]
          /\ UNCHANGED <<rows, open, renamed, cons>>
      BY <1>5 DEF Save, SaveMeta
    <2>2. t # h => cache'[t] = cache[t]
      BY <1>0, <2>1
    <2> QED BY <2>1, <2>2, SameExact DEF OwnTable
  <1> QED BY <1>1, <1>2, <1>3, <1>4, <1>5

\* The first element of s is replaced by f, of length m: where each element is.
Shifted(c, f, s, m) ==
    /\ DOMAIN f = 1 .. m /\ 1 \in DOMAIN s /\ Head(s) = s[1]
    /\ \A l \in DOMAIN s : l \in Nat /\ l >= 1
    /\ \A i \in DOMAIN f : i \in DOMAIN c /\ c[i] = f[i]
    /\ \A l \in DOMAIN s : l > 1 => m + (l - 1) \in DOMAIN c /\ c[m + (l - 1)] = s[l]
    /\ \A i \in DOMAIN c : /\ i \in Nat /\ i >= 1
                           /\ i > m => i - m + 1 \in DOMAIN s /\ c[i] = s[i - m + 1]

LEMMA ShiftedPlaces ==
    ASSUME NEW T, NEW s \in Seq(T), s # << >>, NEW f \in Seq(T), NEW c, c = f \o Tail(s)
    PROVE  \E m \in Nat : Shifted(c, f, s, m)
  <1> DEFINE q == Tail(s)
             m == Len(f)
  <1>1. /\ q \in Seq(T) /\ 1 \in DOMAIN s /\ Head(s) = s[1]
        /\ \A i \in DOMAIN q : i \in Nat /\ i >= 1 /\ i + 1 \in DOMAIN s /\ q[i] = s[i + 1]
        /\ \A i \in DOMAIN s : /\ i \in Nat /\ i >= 1
                               /\ i # 1 => i - 1 \in DOMAIN q /\ q[i - 1] = s[i]
    BY TailPlaces
  <1>0. c = f \o q
    OBVIOUS
  <1> HIDE DEF q
  <1>2. /\ m \in Nat /\ DOMAIN f = 1 .. m /\ Len(q) \in Nat
        /\ DOMAIN c = 1 .. m + Len(q)
        /\ \A i \in DOMAIN f : i \in DOMAIN c /\ c[i] = f[i]
        /\ \A i \in DOMAIN q : m + i \in DOMAIN c /\ c[m + i] = q[i]
        /\ \A i \in DOMAIN c : \/ i \in DOMAIN f
                               \/ i > m /\ i - m \in DOMAIN q /\ c[i] = q[i - m]
    <2>1. q \in Seq(T)
      BY <1>1
    <2> DEFINE d == f \o q
    <2>2. /\ m \in Nat /\ DOMAIN f = 1 .. m /\ Len(q) \in Nat
          /\ DOMAIN d = 1 .. m + Len(q)
          /\ \A i \in DOMAIN f : i \in DOMAIN d /\ d[i] = f[i]
          /\ \A i \in DOMAIN q : m + i \in DOMAIN d /\ d[m + i] = q[i]
          /\ \A i \in DOMAIN d : \/ i \in DOMAIN f
                                 \/ i > m /\ i - m \in DOMAIN q /\ d[i] = q[i - m]
      BY <2>1, JoinFacts
    <2>3. c = d
      BY <1>0
    <2> HIDE DEF d, m
    <2> QED BY <2>2, <2>3, Zenon
  <1> HIDE DEF m
  <1>3. \A l \in DOMAIN s : l > 1 => m + (l - 1) \in DOMAIN c /\ c[m + (l - 1)] = s[l]
    <2> SUFFICES ASSUME NEW l \in DOMAIN s, l > 1
                 PROVE  m + (l - 1) \in DOMAIN c /\ c[m + (l - 1)] = s[l]
      OBVIOUS
    <2>1. l - 1 \in DOMAIN q /\ q[l - 1] = s[l]
      BY <1>1
    <2> QED BY <1>2, <2>1
  <1>4. \A i \in DOMAIN c : /\ i \in Nat /\ i >= 1
                            /\ i > m => i - m + 1 \in DOMAIN s /\ c[i] = s[i - m + 1]
    <2> SUFFICES ASSUME NEW i \in DOMAIN c
                 PROVE  /\ i \in Nat /\ i >= 1
                        /\ i > m => i - m + 1 \in DOMAIN s /\ c[i] = s[i - m + 1]
      OBVIOUS
    <2>1. i \in Nat /\ i >= 1
      BY <1>2
    <2>2. i > m => i - m \in DOMAIN q /\ c[i] = q[i - m]
      BY <1>2
    <2> QED BY <1>1, <2>1, <2>2
  <1>5. Shifted(c, f, s, m)
    BY <1>1, <1>2, <1>3, <1>4 DEF Shifted
  <1> QED BY <1>2, <1>5

\* The row of key r.key is not in the table.
Absent(t, r) == r # None /\ open[t] # None => rows[open[t].root][r.key] = None

PutsGuarded(q) ==
    \A i \in DOMAIN q : q[i].do = "put" /\ Saves(q, i) /\ Guarded(q[i].table) =>
        Checked(q, i) \/ (Absent(q[i].table, q[i].arg) /\ Unhurt(q, 0, i, q[i].table))

\* A search by key is all of its statement.
Alone(q) == \A i \in DOMAIN q : q[i].do = "get" => Len(q) = 1

UniqueInv ==
    ~stale /\ up => (\A t \in Names : HandleExact(t)) /\ Alone(program) /\ PutsGuarded(program)

\* Absent, after the step.
AbsentNext(t, r) == r # None /\ open'[t] # None => rows'[open'[t].root][r.key] = None

LEMMA GuardedThen ==
    ASSUME UNCHANGED <<cons, trig, renamed>>, NEW c, program' = c,
           \A i \in DOMAIN c : c[i].do = "put" /\ Saves(c, i) /\ Guarded(c[i].table) =>
               Checked(c, i) \/ (AbsentNext(c[i].table, c[i].arg) /\ Unhurt(c, 0, i, c[i].table))
    PROVE  PutsGuarded(program)'
  <1>1. \A t, r : AbsentNext(t, r) <=> Absent(t, r)'
    BY DEF Absent, AbsentNext
  <1>2. \A t : Guarded(t) <=> Guarded(t)'
    BY DEF Guarded, OwnTable
  <1>3. PutsGuarded(c)'
    BY <1>1, <1>2 DEF PutsGuarded
  <1> QED BY <1>3 DEF PutsGuarded, Absent, Guarded, OwnTable

\* The operations f take the place of the first.
LEMMA GuardedNext ==
    ASSUME DataInv, program # << >>, UNCHANGED <<cons, trig, renamed>>,
           NEW f \in Seq(Known(RowArgs)), program' = f \o Tail(program),
           PutsGuarded(program),
           CheckedFirst(f) \/ \A i \in DOMAIN program' : program'[i].do # "save",
           \A t \in Names : Guarded(t) /\ Between(Head(program), t) =>
               /\ \A i \in DOMAIN f : Between(f[i], t)
               /\ \A r \in Rows \union {None} : Absent(t, r) => AbsentNext(t, r),
           Head(program).do = "check" =>
               /\ f = << >>
               /\ \A t \in Names : Guarded(t) /\ Head(program).table = t => AbsentNext(t, Head(program).arg)
    PROVE  PutsGuarded(program)'
  <1> DEFINE s == program
  <1>1. PICK C : f \in Seq(Known(C)) /\ program \in Seq(Known(C))
    <2>1. PICK B : program \in Seq(Known(B))
      BY DEF DataInv, ProgramInv, ProgramType
    <2>2. RowArgs \subseteq RowArgs \union B /\ B \subseteq RowArgs \union B
      OBVIOUS
    <2>3. f \in Seq(Known(RowArgs \union B)) /\ program \in Seq(Known(RowArgs \union B))
      BY <2>1, <2>2, KnownGrows
    <2> QED BY <2>3
  <1> DEFINE T == Known(C)
  <1>2. f \in Seq(T) /\ s \in Seq(T) /\ s # << >>
    BY <1>1
  <1>3. \A i \in DOMAIN s : s[i].do = "put" => s[i].table \in Names /\ s[i].arg \in Rows \union {None}
    <2>1. \A o \in T : o.do = "put" => o.table \in Names /\ o.arg \in Rows \union {None}
      BY DEF Known
    <2> HIDE DEF T
    <2> QED BY <1>2, <2>1, SeqElements
  <1> HIDE DEF T
  <1>4. PICK c : c = program'
    OBVIOUS
  <1>50. PICK m \in Nat : Shifted(c, f, s, m)
    <2> DEFINE d == f \o Tail(s)
    <2>1. d = f \o Tail(s)
      OBVIOUS
    <2> HIDE DEF d
    <2>2. \E m \in Nat : Shifted(d, f, s, m)
      BY <1>2, <2>1, ShiftedPlaces
    <2>3. c = d
      BY <1>4, <2>1
    <2> QED BY <2>2, <2>3
  <1>5. /\ DOMAIN f = 1 .. m /\ 1 \in DOMAIN s /\ Head(s) = s[1]
        /\ \A l \in DOMAIN s : l \in Nat /\ l >= 1
        /\ \A i \in DOMAIN f : i \in DOMAIN c /\ c[i] = f[i]
        /\ \A l \in DOMAIN s : l > 1 => m + (l - 1) \in DOMAIN c /\ c[m + (l - 1)] = s[l]
        /\ \A i \in DOMAIN c : /\ i \in Nat /\ i >= 1
                               /\ i > m => i - m + 1 \in DOMAIN s /\ c[i] = s[i - m + 1]
    BY <1>50 DEF Shifted
  <1>6. SUFFICES ASSUME NEW i \in DOMAIN c, c[i].do = "put", Saves(c, i), Guarded(c[i].table)
                 PROVE  \/ Checked(c, i)
                        \/ AbsentNext(c[i].table, c[i].arg) /\ Unhurt(c, 0, i, c[i].table)
    <2> QED BY <1>4, GuardedThen
  <1> DEFINE t == c[i].table
             h == Head(program)
  <1>7. CASE i \in DOMAIN f
    <2>1. CheckedFirst(f)
      <3>1. PICK j \in DOMAIN c : c[j].do = "save"
        BY <1>6 DEF Saves
      <3> QED BY <1>4, <3>1
    <2>2. PICK j \in DOMAIN f : /\ j < i /\ f[j].do = "check" /\ f[j].table = f[i].table
                                /\ f[j].arg = f[i].arg /\ Unhurt(f, j, i, f[i].table)
      BY <1>5, <1>6, <1>7, <2>1 DEF CheckedFirst, Checked
    <2>3. \A k \in DOMAIN c : k < i => k \in DOMAIN f /\ c[k] = f[k]
      BY <1>5, <1>7
    <2>4. Unhurt(c, j, i, c[i].table)
      BY <1>5, <1>7, <2>2, <2>3 DEF Unhurt
    <2> QED BY <1>5, <1>7, <2>2, <2>4 DEF Checked
  <1>8. CASE i \notin DOMAIN f
    <2>1. i > m /\ i \in Nat
      BY <1>5, <1>8
    <2>2. PICK k \in DOMAIN s : k = i - m + 1
      BY <1>5, <2>1
    <2>3. k > 1 /\ c[i] = s[k] /\ k \in Nat
      BY <1>5, <2>1, <2>2
    <2>4. Saves(s, k)
      <3>1. PICK j \in DOMAIN c : j > i /\ c[j].do = "save" /\ c[j].table = c[i].table
        BY <1>6 DEF Saves
      <3>2. j - m + 1 \in DOMAIN s /\ c[j] = s[j - m + 1] /\ j - m + 1 > k
        BY <1>5, <2>1, <2>2, <3>1
      <3> QED BY <2>3, <3>1, <3>2 DEF Saves
    <2>5. Checked(s, k) \/ (Absent(t, s[k].arg) /\ Unhurt(s, 0, k, t))
      BY <1>6, <2>3, <2>4 DEF PutsGuarded
    <2>6. t \in Names /\ c[i].arg = s[k].arg /\ s[k].arg \in Rows \union {None}
      BY <1>3, <1>6, <2>3
    \* What comes after the operations f comes from behind the first of s.
    <2>7. ASSUME NEW n \in DOMAIN c, n > m, n < i
          PROVE  /\ n - m + 1 \in DOMAIN s /\ c[n] = s[n - m + 1]
                 /\ n - m + 1 > 1 /\ n - m + 1 < k /\ n \in Nat
      BY <1>5, <2>1, <2>2, <2>7
    <2>8. CASE Checked(s, k)
      <3>1. PICK j \in DOMAIN s : /\ j < k /\ s[j].do = "check" /\ s[j].table = t
                                  /\ s[j].arg = s[k].arg /\ Unhurt(s, j, k, t)
        BY <2>3, <2>8 DEF Checked
      <3>2. CASE j > 1
        <4>1. PICK l \in DOMAIN c : l = m + (j - 1) /\ c[l] = s[j]
          BY <1>5, <3>2
        <4>2. l < i /\ l > m
          BY <1>5, <2>1, <2>2, <3>1, <3>2, <4>1
        <4>3. ASSUME NEW n \in DOMAIN c, l < n, n < i PROVE Between(c[n], t)
          <5>1. n > m
            BY <1>5, <4>2, <4>3
          <5>2. /\ n - m + 1 \in DOMAIN s /\ c[n] = s[n - m + 1] /\ n - m + 1 < k
            BY <2>7, <4>3, <5>1
          <5>3. n - m + 1 > j
            BY <1>5, <4>1, <4>3
          <5> QED BY <3>1, <5>2, <5>3 DEF Unhurt
        <4>4. Unhurt(c, l, i, t)
          BY <4>3 DEF Unhurt
        <4> QED BY <2>3, <3>1, <4>1, <4>2, <4>4 DEF Checked
      <3>3. CASE j = 1
        <4>1. h.do = "check" /\ h.table = t /\ h.arg = s[k].arg
          BY <1>5, <3>1, <3>3
        <4>2. AbsentNext(t, c[i].arg)
          BY <1>6, <2>6, <4>1
        <4>3. m = 0
          <5>1. f = << >>
            BY <4>1
          <5>2. DOMAIN f = {}
            BY <5>1
          <5>3. 1 \in 1 .. m \/ m = 0
            OBVIOUS
          <5> QED BY <1>5, <5>2, <5>3
        <4>4. ASSUME NEW n \in DOMAIN c, n < i PROVE Between(c[n], t)
          <5>1. n > m
            BY <1>5, <4>3
          <5>2. n - m + 1 \in DOMAIN s /\ c[n] = s[n - m + 1] /\ n - m + 1 > j /\ n - m + 1 < k
            BY <2>7, <3>3, <4>4, <5>1
          <5> QED BY <3>1, <5>2 DEF Unhurt
        <4>5. Unhurt(c, 0, i, t)
          BY <4>4 DEF Unhurt
        <4> QED BY <4>2, <4>5
      <3>4. j > 1 \/ j = 1
        BY <1>5
      <3> QED BY <3>2, <3>3, <3>4
    <2>9. CASE Absent(t, s[k].arg) /\ Unhurt(s, 0, k, t)
      <3>1. Between(h, t)
        BY <1>5, <2>3, <2>9 DEF Unhurt
      <3>2. (\A j \in DOMAIN f : Between(f[j], t)) /\ AbsentNext(t, c[i].arg)
        BY <1>6, <2>6, <2>9, <3>1
      <3>3. ASSUME NEW n \in DOMAIN c, n < i PROVE Between(c[n], t)
        <4>1. CASE n > m
          <5>1. n - m + 1 \in DOMAIN s /\ c[n] = s[n - m + 1] /\ n - m + 1 > 0 /\ n - m + 1 < k
            BY <2>7, <3>3, <4>1
          <5> QED BY <2>9, <5>1 DEF Unhurt
        <4>2. CASE ~ (n > m)
          <5>1. n \in DOMAIN f /\ c[n] = f[n]
            BY <1>5, <4>2
          <5> QED BY <3>2, <5>1
        <4> QED BY <4>1, <4>2
      <3>4. Unhurt(c, 0, i, t)
        BY <3>3 DEF Unhurt
      <3> QED BY <3>2, <3>4
    <2> QED BY <2>5, <2>8, <2>9
  <1> QED BY <1>7, <1>8

\* A row that is not in a table stays out of it, up to its insertion.
LEMMA KeepsAbsent ==
    ASSUME FullInv, up, ~stale, Operation, NEW t \in Names, Guarded(t), HandleExact(t),
           Between(Head(program), t), NEW r \in Rows \union {None}, Absent(t, r)
    PROVE  AbsentNext(t, r)
  <1> USE DEF FullInv, DataInv
  <1> DEFINE h == Head(program)
  <1> SUFFICES ASSUME r # None, open'[t] # None PROVE rows'[open'[t].root][r.key] = None
    BY DEF AbsentNext
  <1>1. open[t] # None => open[t].root \in Pages /\ rows[open[t].root][r.key] = None
    BY DEF Absent, HandleExact, Guarded
  <1>2. r.key \in Keys
    BY DEF Rows
  <1>3. CASE Find \/ ScanTable \/ Fire \/ (Check /\ ~Fail) \/ Save
    <2>1. rows' = rows /\ open' = open
      <3>1. CASE Save BY <3>1 DEF Save
      <3>2. CASE ~Save BY <1>3, <3>2, Quiet DEF catalogVars
      <3> QED BY <3>1, <3>2
    <2> QED BY <1>1, <2>1
  <1>4. CASE Get \/ RolledBack \/ Shorten \/ Flush \/ SetCatalogRoot \/ ForgetTable
    <2>1. Running("rolledBack") \/ Running("shorten") \/ Running("flush") \/ Running("root")
          \/ Running("forget") \/ Ready("get")
      BY <1>4, Zenon DEF Get, RolledBack, Shorten, Flush, SetCatalogRoot, ForgetTable
    <2>2. h.do \in {"rolledBack", "shorten", "flush", "root", "forget", "get"}
      BY <2>1, ReadyFacts DEF Running
    <2> QED BY <2>2 DEF Between
  <1>5. CASE Put
    <2>1. h.do = "put"
      BY <1>5, ReadyFacts DEF Put
    <2>2. h.table # t /\ t \notin renamed
      BY <2>1 DEF Between, Guarded, OwnTable
    <2>3. Target(h.table)
      BY <1>5, CountTarget
    <2>4. open'[t] = open[t] /\ \A p \in Pages : RefersTo(t, p) => rows'[p] = rows[p]
      BY <2>2, <2>3 DEF Target
    <2>5. rows'[open[t].root] = rows[open[t].root]
      BY <1>1, <2>4 DEF RefersTo
    <2> QED BY <1>1, <2>4, <2>5
  <1>6. CASE Del
    <2>1. h.table \in Names /\ open[h.table] # None
      BY <1>6, ReadyFacts DEF Del
    <2>2. PICK k, p : rows' = [rows EXCEPT ![p][k] = None]
      BY <1>6 DEF Del
    <2>3. PICK n : open' = [open EXCEPT ![h.table].len = n]
      BY <1>6 DEF Del
    <2>4. open[t] # None /\ open'[t].root = open[t].root
      <3>1. CASE t # h.table
        BY <2>3, <3>1 DEF CatalogInv, CatalogType
      <3>2. CASE t = h.table
        <4>1. open'[t] = [open[t] EXCEPT !.len = n] /\ open[t] \in Handles
          BY <2>1, <2>3, <3>2 DEF CatalogInv, CatalogType
        <4> QED BY <2>1, <3>2, <4>1 DEF Handles
      <3> QED BY <3>1, <3>2
    <2> DEFINE u == open[t].root
    <2>5. u \in Pages /\ rows[u][r.key] = None
      BY <1>1, <2>4
    <2> HIDE DEF u
    <2>6. rows'[u][r.key] = None
      BY <1>2, <2>2, <2>5 DEF DataType
    <2> QED BY <2>4, <2>6 DEF u
  <1> QED BY <1>3, <1>4, <1>5, <1>6 DEF Operation

\* A row that passed its check is not in the table.
LEMMA CheckAbsent ==
    ASSUME DataInv, Check, ~Fail, NEW t \in Names, t = Head(program).table, Guarded(t), HandleExact(t)
    PROVE  AbsentNext(t, Head(program).arg)
  <1> USE DEF DataInv
  <1> DEFINE r == Head(program).arg
  <1>1. program # << >> /\ Head(program).do = "check"
    BY ReadyFacts DEF Check
  <1>2. r \in Rows \union {None}
    BY <1>1, HeadKnown
  <1>3. Admitted(t, r) /\ rows' = rows /\ open' = open
    <2>1. Admitted(t, r)
      BY Zenon DEF Check
    <2>2. rows' = rows /\ open' = open
      BY Quiet DEF catalogVars
    <2> QED BY <2>1, <2>2
  <1> HIDE DEF r
  <1> SUFFICES ASSUME r # None, open[t] # None PROVE rows[open[t].root][r.key] = None
    BY <1>3 DEF AbsentNext, r
  <1>4. r.key \in Keys
    BY <1>2 DEF Rows
  <1>5. PICK p \in Pages : p = open[t].root /\ open[t].len = Size(p) /\ p # None /\ p # Unset
    BY PageNotSymbol DEF HandleExact, Guarded
  <1>6. r.key \notin Present(Scan(p, Size(p)))
    BY <1>3, <1>5 DEF Admitted, Guarded, OwnTable, OpenRows
  <1>7. rows[p] \in [Keys -> Vals \union {None}]
    BY DEF DataType
  <1>8. CASE Size(p) = 0
    <2>1. rows[p] = NoRows
      BY <1>8, SizeFacts
    <2> QED BY <1>4, <1>5, <2>1 DEF NoRows
  <1>9. CASE Size(p) # 0
    <2>1. Scan(p, Size(p)) = rows[p]
      BY <1>5, <1>9 DEF Scan, Page
    <2> QED BY <1>4, <1>5, <1>6, <1>7, <2>1 DEF Present
  <1> QED BY <1>8, <1>9

\* What a statement begins with checks what it puts; a search by key is alone.
LEMMA BeginsChecked ==
    ASSUME DataInv, Insert \/ Delete \/ Update \/ Select \/ Begin \/ Commit \/ Rollback \/ Close
    PROVE  CheckedFirst(program') /\ Alone(program')
  <1>1. ASSUME \A i \in DOMAIN program' : program'[i].do \notin {"put", "get"}
        PROVE  CheckedFirst(program') /\ Alone(program')
    BY <1>1 DEF CheckedFirst, Alone
  <1>2. CASE Insert
    <2>1. PICK t \in Names, rs \in BoundedSeq(Rows, MaxRows) : program' = InsertOps(t, rs, FALSE)
      BY <1>2 DEF Insert, Run
    <2>2. PICK n \in Nat : rs \in [1 .. n -> Rows]
      BY BoundsAssumption DEF BoundedSeq, SeqOf
    <2>3. rs \in [1 .. n -> Rows \union {None}] /\ FALSE \in BOOLEAN
      BY <2>2
    <2>4. program' \in Seq(InsertShape(t, FALSE)) /\ CheckedFirst(program')
      BY <2>1, <2>3, InsertOpsFacts, InsertOpsChecked
    <2> DEFINE S == InsertShape(t, FALSE)
    <2>5. \A o \in S : o.do # "get"
      BY DEF InsertShape
    <2>6. program' \in Seq(S)
      BY <2>4
    <2> HIDE DEF S
    <2>7. \A i \in DOMAIN program' : program'[i] \in S
      BY <2>6, SeqElements
    <2> QED BY <2>4, <2>5, <2>7 DEF Alone
  <1>3. CASE Delete \/ Update \/ Select
    <2>1. \E o : program' = <<o>> /\ o.do # "put"
      <3>1. \A t, a : Op("scan", t, a, FALSE).do # "put" /\ Op("get", t, a, FALSE).do # "put"
        BY DEF Op
      <3>2. CASE Delete
        <4>1. \E t \in Names : \/ program' = <<Op("scan", t, "delete", FALSE)>>
                              \/ \E k \in Keys :
                                   program' = <<Op("get", t, [key |-> k, row |-> None], FALSE)>>
          BY <3>2 DEF Delete, Run
        <4> QED BY <3>1, <4>1
      <3>3. CASE Update
        <4>1. \E t \in Names, k \in Keys, r \in Rows :
                program' = <<Op("get", t, [key |-> k, row |-> r], FALSE)>>
          BY <3>3 DEF Update, Run
        <4> QED BY <3>1, <4>1
      <3>4. CASE Select
        <4>1. \E t \in Names : program' = <<Op("scan", t, "select", FALSE)>>
          BY <3>4 DEF Select, Run
        <4> QED BY <3>1, <4>1
      <3> QED BY <1>3, <3>2, <3>3, <3>4
    <2>2. PICK o : program' = <<o>> /\ o.do # "put"
      BY <2>1
    <2>3. Len(program') = 1 /\ \A i \in DOMAIN program' : program'[i] = o
      BY <2>2
    <2> QED BY <2>2, <2>3 DEF CheckedFirst, Alone
  <1>4. CASE Begin \/ Commit
    <2>1. program' = << >>
      BY <1>4 DEF Begin, Commit, Run
    <2> QED BY <1>1, <2>1
  <1>5. CASE Close
    <2> DEFINE a == Op("flush", None, None, FALSE)
               b == Op("root", None, None, FALSE)
               c == Op("exit", None, None, FALSE)
               q == <<a, b, c>>
    <2>1. a.do = "flush" /\ b.do = "root" /\ c.do = "exit"
      BY DEF Op
    <2>2. program' = q
      BY <1>5 DEF Close
    <2> HIDE DEF a, b, c
    <2>3. DOMAIN q = {1, 2, 3} /\ q[1] = a /\ q[2] = b /\ q[3] = c
      OBVIOUS
    <2> HIDE DEF q
    <2>4. \A i \in DOMAIN program' : program'[i].do \notin {"put", "get"}
      BY <2>1, <2>2, <2>3
    <2> QED BY <1>1, <2>4
  <1>6. CASE Rollback
    <2> DEFINE N == {t \in Names : open[t] # None /\ snap.counts[t] = None}
               O == {t \in Names : open[t] # None /\ snap.counts[t] # None}
               f(t) == Op("forget", t, None, FALSE)
               g(t) == Op("shorten", t, snap.counts[t], FALSE)
               last == Op("rolledBack", None, snap.view, FALSE)
               T == {f(t) : t \in N} \union {g(t) : t \in O} \union {last}
    <2>1. PICK new \in SetToSeqs(N), old \in SetToSeqs(O) :
            program' = [i \in DOMAIN new |-> Op("forget", new[i], None, FALSE)]
                       \o [i \in DOMAIN old |-> Op("shorten", old[i], snap.counts[old[i]], FALSE)]
                       \o <<last>>
      BY <1>6, Zenon DEF Rollback, Run
    <2>2. PICK k \in Nat, m \in Nat : new \in [1 .. k -> N] /\ old \in [1 .. m -> O]
      <3>1. N \in SUBSET Names /\ O \in SUBSET Names
        OBVIOUS
      <3> HIDE DEF N, O
      <3>2. Cardinality(N) \in Nat /\ Cardinality(O) \in Nat
        BY <3>1, NamesAssumption, FS_Subset, FS_CardinalityType
      <3> QED BY <3>2 DEF SetToSeqs
    <2>3. \A o \in T : o.do \notin {"put", "get"}
      <3>1. \A t : f(t).do = "forget" /\ g(t).do = "shorten" /\ last.do = "rolledBack"
        BY DEF Op
      <3> HIDE DEF f, g, last
      <3> QED BY <3>1
    <2> DEFINE x == [i \in 1 .. k |-> f(new[i])]
               y == [i \in 1 .. m |-> g(old[i])]
    <2>4. program' = x \o y \o <<last>>
      BY <2>1, <2>2
    <2>5. (\A t \in N : f(t) \in T) /\ (\A t \in O : g(t) \in T) /\ last \in T
      OBVIOUS
    <2> HIDE DEF T, last, f, g, N, O
    <2>6. x \in [1 .. k -> T] /\ y \in [1 .. m -> T]
      BY <2>2, <2>5
    <2> HIDE DEF x, y
    <2>7. x \in Seq(T) /\ y \in Seq(T) /\ <<last>> \in Seq(T)
      BY <2>5, <2>6
    <2>8. program' \in Seq(T)
      BY <2>4, <2>7
    <2>9. \A i \in DOMAIN program' : program'[i] \in T
      BY <2>8, SeqElements
    <2> QED BY <1>1, <2>3, <2>9
  <1> QED BY <1>2, <1>3, <1>4, <1>5, <1>6

LEMMA OneLeft ==
    ASSUME NEW T, NEW s \in Seq(T), Len(s) = 1
    PROVE  Tail(s) = << >>
  <1>0. DOMAIN s = 1 .. Len(s)
    OBVIOUS
  <1>1. s # << >> /\ DOMAIN s = 1 .. 1
    <2>1. s # << >>
      <3>1. Len(<< >>) # 1
        OBVIOUS
      <3> QED BY <3>1, Zenon
    <2> QED BY <1>0, <2>1
  <1> DEFINE q == Tail(s)
  <1>2. q \in Seq(T) /\ \A i \in DOMAIN q : i \in Nat /\ i >= 1 /\ i + 1 \in DOMAIN s
    BY <1>1, TailPlaces
  <1> HIDE DEF q
  <1>3. ~ \E i \in DOMAIN q : TRUE
    BY <1>1, <1>2
  <1>4. Len(q) = 0
    BY <1>2, <1>3
  <1>5. q = << >>
    BY <1>2, <1>4
  <1> QED BY <1>5 DEF q

LEMMA NothingJoined ==
    ASSUME NEW T, NEW f \in Seq(T), NEW c, c = f \o << >>
    PROVE  c = f
  OBVIOUS

LEMMA OperationNames ==
    ASSUME DataInv, Operation
    PROVE  UNCHANGED <<cons, trig, renamed>>
  <1>1. CASE Find \/ RolledBack
    BY <1>1 DEF Find, RolledBack, trees, history
  <1>2. CASE ScanTable BY <1>2, Zenon DEF ScanTable, trees, history
  <1>3. CASE Get BY <1>3, Zenon DEF Get, trees, history
  <1>4. CASE Fire BY <1>4, Zenon DEF Fire, trees, history
  <1>5. CASE Shorten BY <1>5, Zenon DEF Shorten, trees, history
  <1>6. CASE Flush \/ SetCatalogRoot BY <1>6 DEF Flush, SetCatalogRoot, trees, history
  <1>7. CASE Put BY <1>7 DEF Put
  <1>8. CASE Del BY <1>8 DEF Del, history
  <1>9. CASE Save \/ ForgetTable BY <1>9 DEF Save, ForgetTable
  <1>10. CASE Check /\ ~Fail BY <1>10, Zenon DEF Check, trees, history
  <1> QED BY <1>1, <1>2, <1>3, <1>4, <1>5, <1>6, <1>7, <1>8, <1>9, <1>10 DEF Operation

LEMMA AloneNext ==
    ASSUME DataInv, program # << >>, NEW f \in Seq(Known(RowArgs)), program' = f \o Tail(program),
           Alone(program), \A i \in DOMAIN f : f[i].do # "get"
    PROVE  Alone(program')
  <1> DEFINE s == program
  <1>1. PICK C : f \in Seq(Known(C)) /\ program \in Seq(Known(C))
    <2>1. PICK B : program \in Seq(Known(B))
      BY DEF DataInv, ProgramInv, ProgramType
    <2>2. RowArgs \subseteq RowArgs \union B /\ B \subseteq RowArgs \union B
      OBVIOUS
    <2>3. f \in Seq(Known(RowArgs \union B)) /\ program \in Seq(Known(RowArgs \union B))
      BY <2>1, <2>2, KnownGrows
    <2> QED BY <2>3
  <1> DEFINE T == Known(C)
  <1>2. f \in Seq(T) /\ s \in Seq(T) /\ s # << >>
    BY <1>1
  <1> HIDE DEF T
  <1>3. DOMAIN s = 1 .. Len(s)
    BY <1>2
  <1> DEFINE c == f \o Tail(s)
  <1>4. c = f \o Tail(s) /\ program' = c
    OBVIOUS
  <1> HIDE DEF c
  <1>5. PICK m \in Nat : Shifted(c, f, s, m)
    BY <1>2, <1>4, ShiftedPlaces
  <1>6. ASSUME NEW i \in DOMAIN c, c[i].do = "get" PROVE FALSE
    <2>1. i \notin DOMAIN f
      BY <1>5, <1>6 DEF Shifted
    <2>2. i \in Nat /\ i > m
      BY <1>5, <2>1 DEF Shifted
    <2>3. i - m + 1 \in DOMAIN s /\ c[i] = s[i - m + 1]
      BY <1>5, <2>2 DEF Shifted
    <2>4. Len(s) = 1
      BY <1>6, <2>3 DEF Alone
    <2> QED BY <1>3, <2>2, <2>3, <2>4
  <1> QED BY <1>4, <1>6 DEF Alone

\* Every operation leaves the rows that are not in a table out of it, or
\* comes before their check.
LEMMA OperationUnique ==
    ASSUME FullInv, up, ~stale, Operation, \A t \in Names : HandleExact(t),
           Alone(program), PutsGuarded(program)
    PROVE  Alone(program') /\ PutsGuarded(program)'
  <1> USE DEF FullInv, DataInv
  <1> DEFINE h == Head(program)
             D == DeleteShape(h.table, h.nested)
  <1>1. UNCHANGED <<cons, trig, renamed>>
    BY OperationNames
  <1>2. ASSUME NEW f \in Seq(Known(RowArgs)), program # << >>, program' = f \o Tail(program),
               \A i \in DOMAIN f : f[i].do # "get",
               CheckedFirst(f) \/ \A i \in DOMAIN program' : program'[i].do # "save",
               \A t \in Names : Guarded(t) /\ Between(h, t) => \A i \in DOMAIN f : Between(f[i], t),
               h.do = "check" => f = << >>
        PROVE  Alone(program') /\ PutsGuarded(program)'
    <2>1. Alone(program')
      BY <1>2, AloneNext
    <2>2. \A t \in Names : Guarded(t) /\ Between(h, t) =>
            /\ \A i \in DOMAIN f : Between(f[i], t)
            /\ \A r \in Rows \union {None} : Absent(t, r) => AbsentNext(t, r)
      BY <1>2, KeepsAbsent
    <2>3. h.do = "check" =>
            /\ f = << >>
            /\ \A t \in Names : Guarded(t) /\ h.table = t => AbsentNext(t, h.arg)
      <3> SUFFICES ASSUME h.do = "check", NEW t \in Names, Guarded(t), h.table = t
                   PROVE  AbsentNext(t, h.arg)
        BY <1>2
      <3>1. Check /\ ~Fail
        <4>1. ~ (Find \/ ScanTable \/ Get \/ Fire \/ RolledBack \/ Shorten \/ Flush \/ SetCatalogRoot
                 \/ Put \/ Del \/ Save \/ ForgetTable)
          BY Zenon DEF Find, ScanTable, Get, Fire, RolledBack, Shorten, Flush, SetCatalogRoot, Put, Del, Save,
                      ForgetTable, Ready, Running
        <4> QED BY <4>1 DEF Operation
      <3> QED BY <3>1, CheckAbsent
    <2> QED BY <1>1, <1>2, <2>1, <2>2, <2>3, GuardedNext
  <1>3. CASE Fire
    <2>1. h.do = "fire"
      BY <1>3, ReadyFacts DEF Fire
    <2>2. PICK f \in Seq(Known(RowArgs)) :
            /\ program # << >> /\ program' = f \o Tail(program) /\ CheckedFirst(f)
            /\ \A i \in DOMAIN f : f[i].do # "get"
            /\ \A t \in Names : Guarded(t) /\ Between(h, t) => \A i \in DOMAIN f : Between(f[i], t)
      BY <1>3, FireGuarded
    <2> HIDE DEF h, D
    <2> QED BY <1>2, <2>1, <2>2
  <1>4. CASE ~Fire
    <2>1. PICK f \in Seq(Known(RowArgs)) : program # << >> /\ program' = f \o Tail(program) /\ Led(f)
      BY LeadsTo DEF Operation
    <2>2. h.do # "fire"
      BY <1>4, Zenon DEF Find, ScanTable, Get, RolledBack, Shorten, Flush, SetCatalogRoot, Put, Del, Save,
                      ForgetTable, Check, Ready, Running, Operation
    <2>3. CASE f = << >>
      <3>1. DOMAIN f = {} /\ CheckedFirst(f)
        BY <2>3 DEF CheckedFirst
      <3> QED BY <1>2, <2>1, <2>3, <3>1
    <2>4. CASE h.do \in {"scan", "get", "shorten"} /\ f \in Seq(D)
      <3>1. \A o \in D : /\ o.do \notin {"put", "get"}
                         /\ \A t \in Names : Between(h, t) => Between(o, t)
        <4> SUFFICES ASSUME NEW o \in D
                     PROVE  /\ o.do \notin {"put", "get"}
                            /\ \A t \in Names : Between(h, t) => Between(o, t)
          OBVIOUS
        <4>1. o.nested = h.nested /\ o.do \in {"fire", "del"} /\ (o.do = "fire" => ~o.nested)
          BY DEF DeleteShape, Known
        <4> QED BY <2>4, <4>1 DEF Between
      <3>2. f \in Seq(D)
        BY <2>4
      <3> HIDE DEF D, h
      <3>3. \A i \in DOMAIN f : f[i] \in D
        BY <3>2, SeqElements
      <3>4. CheckedFirst(f) /\ \A i \in DOMAIN f : f[i].do # "get"
        BY <3>1, <3>3 DEF CheckedFirst
      <3> QED BY <1>2, <2>1, <2>4, <3>1, <3>3, <3>4
    <2>5. CASE h.do = "get" /\ \E k \in Keys, r \in Rows : f = UpdateOps(h.table, k, r)
      <3>1. PICK k \in Keys, r \in Rows : f = UpdateOps(h.table, k, r)
        BY <2>5
      <3>2. \A i \in DOMAIN f : f[i].do \notin {"save", "get"}
        <4> DEFINE a == Op("fire", h.table, "update", FALSE)
                   b == Op("del", h.table, k, FALSE)
                   c == Op("put", h.table, r, FALSE)
                   q == <<a, b, c, a>>
        <4>1. a.do = "fire" /\ b.do = "del" /\ c.do = "put"
          BY DEF Op
        <4>2. f = q
          BY <3>1 DEF UpdateOps
        <4> HIDE DEF a, b, c
        <4>3. DOMAIN q = {1, 2, 3, 4} /\ q[1] = a /\ q[2] = b /\ q[3] = c /\ q[4] = a
          OBVIOUS
        <4> HIDE DEF q
        <4> QED BY <4>1, <4>2, <4>3
      <3>3. program' = f
        <4>1. 1 \in DOMAIN program /\ h = program[1]
          BY <2>1, HeadPlace
        <4>2. Len(program) = 1
          BY <2>5, <4>1 DEF Alone
        <4>3. PICK A : program \in Seq(Known(A))
          BY DEF ProgramInv, ProgramType
        <4> DEFINE S == Known(A)
                   R == Known(RowArgs)
        <4>4. program \in Seq(S) /\ f \in Seq(R)
          BY <4>3
        <4> HIDE DEF S, R
        <4>5. Tail(program) = << >>
          BY <4>2, <4>4, OneLeft
        <4> QED BY <2>1, <4>4, <4>5, NothingJoined
      <3>4. \A t \in Names : ~Between(h, t)
        BY <2>5 DEF Between
      <3> HIDE DEF h, D
      <3> QED BY <1>2, <2>1, <2>5, <3>2, <3>3, <3>4
    <2> QED BY <2>1, <2>2, <2>3, <2>4, <2>5 DEF Led
  <1> QED BY <1>3, <1>4

\* A table that is opened has the rows it had, or none.
LEMMA OpensUnique ==
    ASSUME FullInv, up, ~stale, OpenTable, \A t \in Names : HandleExact(t), PutsGuarded(program)
    PROVE  PutsGuarded(program)' /\ \A t \in Names : HandleExact(t)'
  <1> USE DEF FullInv, DataInv
  <1>1. PICK u : Opens(u) /\ Target(u)
    BY OpenTarget
  <1>2. UNCHANGED <<cons, trig, renamed>> /\ program' = program
    BY DEF OpenTable
  <1>3. \A t \in Names : HandleExact(t)'
    <2> TAKE t \in Names
    <2>1. CASE t = u
      BY <1>1, <1>2, <2>1, OpensExact
    <2>2. CASE t # u
      BY <1>1, <1>2, <2>2, ExactElsewhere
    <2> QED BY <2>1, <2>2
  <1>4. PICK c : c = program
    OBVIOUS
  <1>5. ASSUME NEW t \in Names, Guarded(t), NEW r \in Rows \union {None}, Absent(t, r)
        PROVE  AbsentNext(t, r)
    <2> SUFFICES ASSUME r # None, open'[t] # None PROVE rows'[open'[t].root][r.key] = None
      BY DEF AbsentNext
    <2>1. t \notin renamed /\ OwnTable(t)
      BY <1>5 DEF Guarded, OwnTable
    <2>2. CASE t = u
      <3>1. pageCount \in Pages /\ rows'[pageCount] = NoRows /\ open'[t] = [root |-> pageCount, len |-> 0]
        BY <1>1, <2>1, <2>2, OpensOwn
      <3>2. r.key \in Keys /\ open'[t].root = pageCount
        BY <3>1 DEF Rows
      <3> QED BY <3>1, <3>2 DEF NoRows
    <2>3. CASE t # u
      <3>1. open'[t] = open[t] /\ \A p \in Pages : RefersTo(t, p) => rows'[p] = rows[p]
        BY <1>1, <2>1, <2>3 DEF Target
      <3>2. open[t].root \in Pages /\ rows[open[t].root][r.key] = None
        BY <1>5, <2>1, <3>1 DEF Absent, HandleExact
      <3>3. rows'[open[t].root] = rows[open[t].root]
        BY <3>1, <3>2 DEF RefersTo
      <3> QED BY <3>1, <3>2, <3>3
    <2> QED BY <2>2, <2>3
  <1>6. \A i \in DOMAIN c : c[i].do = "put" => c[i].table \in Names /\ c[i].arg \in Rows \union {None}
    <2>1. PICK A : program \in Seq(Known(A))
      BY DEF ProgramInv, ProgramType
    <2> DEFINE T == Known(A)
    <2>2. \A o \in T : o.do = "put" => o.table \in Names /\ o.arg \in Rows \union {None}
      BY DEF Known
    <2>3. c \in Seq(T)
      BY <1>4, <2>1
    <2> HIDE DEF T
    <2> QED BY <2>2, <2>3, SeqElements
  <1>7. \A i \in DOMAIN c : c[i].do = "put" /\ Saves(c, i) /\ Guarded(c[i].table) =>
            Checked(c, i) \/ (AbsentNext(c[i].table, c[i].arg) /\ Unhurt(c, 0, i, c[i].table))
    BY <1>4, <1>5, <1>6 DEF PutsGuarded
  <1>8. PutsGuarded(program)'
    BY <1>2, <1>4, <1>7, GuardedThen
  <1> QED BY <1>3, <1>8

LEMMA CheckedPuts ==
    ASSUME CheckedFirst(program')
    PROVE  PutsGuarded(program)'
  BY DEF CheckedFirst, PutsGuarded

LEMMA PutsStayGuarded ==
    ASSUME FullInv, up, up', ~stale, [Next]_vars, \A t \in Names : HandleExact(t),
           Alone(program), PutsGuarded(program)
    PROVE  Alone(program') /\ PutsGuarded(program)'
  <1> USE DEF FullInv, DataInv
  <1>1. CASE UNCHANGED vars
    BY <1>1 DEF vars, trees, history, file, PutsGuarded, Guarded, OwnTable, Absent
  <1>2. CASE Operation
    BY <1>2, OperationUnique
  <1>3. CASE OpenTable
    <2>1. program' = program
      BY <1>3 DEF OpenTable
    <2> QED BY <1>3, <2>1, OpensUnique
  <1>4. CASE Insert \/ Delete \/ Update \/ Select \/ Begin \/ Commit \/ Rollback \/ Close
    BY <1>4, BeginsChecked, CheckedPuts
  <1>5. CASE \/ CreateTable \/ DropTable \/ RenameTable \/ CreateTrigger \/ DropTrigger
             \/ NoTable \/ BadBody \/ NoKey \/ Fail
    <2>1. program' = << >>
      BY <1>5 DEF CreateTable, DropTable, RenameTable, CreateTrigger, DropTrigger, Statement, Idle,
                  NoTable, BadBody, NoKey, Fail
    <2>2. CheckedFirst(program') /\ Alone(program')
      BY <2>1 DEF CheckedFirst, Alone
    <2> QED BY <2>2, CheckedPuts
  <1>6. ~ (Open \/ Crash \/ Exit \/ Overflow \/ DelPanics)
    BY DEF Open, Crash, Exit, Overflow, DelPanics, NoProcess
  <1> QED BY <1>1, <1>2, <1>3, <1>4, <1>5, <1>6 DEF Next, Continue, Operation

LEMMA HandlesExact ==
    ASSUME FullInv, up, up', ~stale, [Next]_vars, \A t \in Names : HandleExact(t),
           PutsGuarded(program), NEW t \in Names
    PROVE  HandleExact(t)'
  <1> USE DEF FullInv, DataInv
  <1> DEFINE h == Head(program).table
  <1>1. CASE UNCHANGED vars
    <2>1. UNCHANGED <<rows, open, cache, renamed, cons>>
      BY <1>1 DEF vars, file, trees, history
    <2> QED BY <2>1, SameExact DEF OwnTable
  <1>2. CASE \/ Find \/ NoTable \/ ScanTable \/ Get \/ Check \/ Fire \/ RolledBack
             \/ BadBody \/ NoKey \/ Close \/ Shorten \/ Insert \/ Delete \/ Update \/ Select
             \/ Begin \/ Commit \/ Rollback
    <2>1. UNCHANGED <<rows, open, cache, renamed>>
      BY <1>2, Quiet DEF catalogVars
    <2>2. cons' = cons
      <3>1. CASE Insert \/ Delete \/ Update \/ Select \/ Begin \/ Commit \/ Rollback
        <4>1. \E ops : Run(ops)
          <5>1. CASE Insert BY <5>1 DEF Insert
          <5>2. CASE Delete BY <5>2 DEF Delete
          <5>3. CASE Update BY <5>3 DEF Update
          <5>4. CASE Select BY <5>4 DEF Select
          <5>5. CASE Begin BY <5>5 DEF Begin
          <5>6. CASE Commit BY <5>6 DEF Commit
          <5>7. CASE Rollback BY <5>7 DEF Rollback
          <5> QED BY <3>1, <5>1, <5>2, <5>3, <5>4, <5>5, <5>6, <5>7
        <4> QED BY <4>1 DEF Run
      <3>2. CASE NoTable \/ BadBody \/ NoKey \/ Fail
        BY <3>2 DEF NoTable, BadBody, NoKey, Fail
      <3>3. CASE Close
        BY <3>3 DEF Close
      <3>4. CASE Operation
        BY <3>4, OperationNames
      <3> QED BY <1>2, <3>1, <3>2, <3>3, <3>4 DEF Operation
    <2> QED BY <2>1, <2>2, SameExact DEF OwnTable
  <1>3. CASE \/ CreateTable \/ DropTable \/ RenameTable \/ ForgetTable \/ CreateTrigger \/ DropTrigger
             \/ Save \/ Flush \/ SetCatalogRoot
    BY <1>3, StatementExact
  <1>4. CASE OpenTable
    BY <1>4, OpensUnique
  <1>5. CASE Put
    <2>1. CASE t = h
      BY <1>5, <2>1, PutExact
    <2>2. CASE t # h
      <3>1. Target(h) /\ cons' = cons
        BY <1>5, CountTarget DEF Put
      <3> QED BY <2>2, <3>1, ExactElsewhere
    <2> QED BY <2>1, <2>2
  <1>6. CASE Del
    <2>1. CASE t = h
      BY <1>6, <2>1, DelExact
    <2>2. CASE t # h
      <3>1. Target(h) /\ cons' = cons
        BY <1>6, CountTarget DEF Del
      <3> QED BY <2>2, <3>1, ExactElsewhere
    <2> QED BY <2>1, <2>2
  <1>7. ~ (Open \/ Crash \/ Exit \/ Overflow \/ DelPanics)
    BY DEF Open, Crash, Exit, Overflow, DelPanics, NoProcess
  <1> QED BY <1>1, <1>2, <1>3, <1>4, <1>5, <1>6, <1>7 DEF Next, Continue

LEMMA InitUnique == Init => UniqueInv
  BY DEF Init, UniqueInv

LEMMA NextUnique ==
    ASSUME FullInv, UniqueInv, [Next]_vars
    PROVE  UniqueInv'
  <1> USE DEF FullInv, DataInv
  <1> SUFFICES ASSUME ~stale', up'
               PROVE  (\A t \in Names : HandleExact(t)') /\ Alone(program') /\ PutsGuarded(program)'
    BY DEF UniqueInv
  <1>1. up \in BOOLEAN /\ stale \in BOOLEAN
    BY DEF CatalogInv, CatalogType, DataType
  <1>2. CASE up
    <2>1. ~stale
      BY <1>1, NeverFresh
    <2> QED BY <1>2, <2>1, HandlesExact, PutsStayGuarded DEF UniqueInv
  <1>3. CASE ~up
    <2>1. Open
      <3>1. ~ UNCHANGED vars
        BY <1>3, Zenon DEF vars
      <3> QED BY <1>3, <3>1, OnlyOpens
    <2>2. program' = << >> /\ cons' = NoTables
      BY <1>3, <2>1 DEF Open, DataType
    <2>3. \A t \in Names : HandleExact(t)'
      BY <2>2 DEF HandleExact, OwnTable, NoTables
    <2>4. CheckedFirst(program') /\ Alone(program')
      BY <2>2 DEF CheckedFirst, Alone
    <2> QED BY <2>3, <2>4, CheckedPuts
  <1> QED BY <1>1, <1>2, <1>3

LEMMA UniqueInvariance == Spec => [](FullInv /\ UniqueInv)
  <1>1. FullInv /\ UniqueInv /\ [Next]_vars => UniqueInv'
    BY NextUnique
  <1> QED BY <1>1, InitUnique, FullInvariance, PTL DEF Spec

LEMMA StepUnique ==
    ASSUME FullInv, UniqueInv, [Next]_vars, NEW t \in Names \ renamed,
           Running("put"), Head(program).table = t, Head(program).arg # None, Saved(t),
           cons[t] # None, open[t] # None, ~stale, cons[t].unique,
           \A g \in trig : g.table = t /\ g.event = "insert" => g.into # t \/ g.does # "insert"
    PROVE  rows[open[t].root][Head(program).arg.key] = None
  <1> USE DEF FullInv, DataInv
  <1>1. program # << >> /\ up /\ Head(program).do = "put"
    BY DEF Running
  <1>2. 1 \in DOMAIN program /\ Head(program) = program[1]
    BY <1>1, HeadPlace
  <1>3. Guarded(t)
    BY DEF Guarded, OwnTable
  <1>4. \A i \in DOMAIN program : i \in Nat /\ i >= 1
    <2>1. PICK A : program \in Seq(Known(A))
      BY DEF ProgramInv, ProgramType
    <2> DEFINE T == Known(A)
    <2>2. program \in Seq(T)
      BY <2>1
    <2> HIDE DEF T
    <2> QED BY <2>2
  <1>5. Saves(program, 1)
    <2>1. PICK i \in DOMAIN program : program[i].do = "save" /\ program[i].table = t
      BY DEF Saved, Range
    <2>2. i # 1
      BY <1>1, <1>2, <2>1
    <2>3. i > 1
      BY <1>4, <2>2
    <2> QED BY <1>2, <2>1, <2>3 DEF Saves
  <1>6. Checked(program, 1) \/ Absent(t, Head(program).arg)
    BY <1>1, <1>2, <1>3, <1>5 DEF UniqueInv, PutsGuarded
  <1>7. ~Checked(program, 1)
    BY <1>4 DEF Checked
  <1> QED BY <1>6, <1>7 DEF Absent

\* An INSERT replaces no row of a table with a unique key whose triggers do
\* not insert into the table itself: what was checked when the row's turn came
\* (executor.rs:624) still holds when the row is put.
THEOREM InsertsKeepUnique == Spec => UniqueKept
  <1>1. FullInv /\ UniqueInv /\ [Next]_vars =>
          [\A t \in Names \ renamed :
             /\ Running("put") /\ Head(program).table = t /\ Head(program).arg # None /\ Saved(t)
             /\ cons[t] # None /\ open[t] # None /\ ~stale
             /\ up' /\ cons[t].unique
             /\ \A g \in trig : g.table = t /\ g.event = "insert" => g.into # t \/ g.does # "insert"
             => rows[open[t].root][Head(program).arg.key] = None]_vars
    BY StepUnique
  <1> QED BY <1>1, UniqueInvariance, PTL DEF Spec, UniqueKept

=============================================================================
