CONSTANTS
    Order = 3
    Records <- MCRecords
    NumPages = 12
    None = None
SPECIFICATION Spec
INVARIANT NeverPanics
VIEW View
