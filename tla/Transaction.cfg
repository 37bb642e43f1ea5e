SPECIFICATION TxSpec
CONSTANTS
    Gors = {g1, g2}
    MaxOpen = 4
    MaxDepth = 2
    MaxStmts = 2
    MaxPanics = 1
CHECK_DEADLOCK FALSE
INVARIANTS FailedIsRolledBack
