CONSTANTS
    NumPages = 2
    Vals = {v1}
    Blank = Blank
    None = None
    MaxTxns = 1
    MaxSessions = 2
SPECIFICATION Spec
CONSTANT InitialPages = 1
INVARIANT ReplaysCommittedOnly
