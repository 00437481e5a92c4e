CONSTANTS
    NumPages = 2
    Vals = {v1}
    Blank = Blank
    None = None
    MaxTxns = 2
    MaxSessions = 2
SPECIFICATION ContractSpec
PROPERTY ImplementsAtomicStore
CONSTANT InitialPages = 2
