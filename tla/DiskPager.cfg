CONSTANTS
    NumPages = 2
    Vals = {v1}
    Blank = Blank
    None = None
    MaxTxns = 1
    MaxSessions = 2
SPECIFICATION Spec
INVARIANT TypeOK
INVARIANT ViewIsDurable
PROPERTY AtomicDurability
CONSTANT InitialPages = 1
