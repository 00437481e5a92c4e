CONSTANTS
    Order = 4
    Records <- MCRecords
    NumPages = 12
    None = None
SPECIFICATION Spec
INVARIANT TypeOK
INVARIANT SearchFindsAll
INVARIANT RangeFindsAll
INVARIANT SizeCounts
INVARIANT Balanced
VIEW View
