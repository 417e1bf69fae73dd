\* The same sketch: does the estimate stay at or above the exact count
\* (capped at 255) while no exact count is negative?
CONSTANTS
    k1 = k1
    k2 = k2
    k3 = k3
    Keys <- MCKeys
    Col <- MCCol
    Incs <- MCIncs
    CellBits = 8
    NumRows = 2
    MemBudgetBytes = 4
    MaxCalls = 5
SPECIFICATION Spec




INVARIANT NoUnderestimate
