CONSTANTS
    NodePages = {p1, p2, p3}
    NodeValues = {a, b}
    NoNode = NoNode
    FreshNode = b
    None = None
    Blank = b
    Capacity = 2
    PageIds = {0, 1}
    Contents = {a}
    Zeroes = Zeroes
    Absent = Absent
    MaxTables = 3
    MemThreshold = 2
    CompactAt = 2
    NumPages = 2
    Written = {0}
    Vals = {a}
    Cut = Cut
    NodeRoom = 1
    ByteRoom = 1
    Words = {x, y}
    MaxRow = 2
    MaxText = 3
    MaxPattern = 3
    MaxChoices = 2
SPECIFICATION PartsSpec
CHECK_DEADLOCK FALSE
INVARIANTS
    TypesOK
    OrderMatches
    CacheCurrent
    LevelsAreNewestFirst
    FlushedStays
    PatternsMatch
    QueriesAgree
    DatesAgree
    ReadsBack
    ReadsCurrent
    RestartKeeps
    PagesCounted
    SearchesAgree
VIEW Changing
