CONSTANTS
    P = 31
    M4 = 8
    SlotCounts = {4, 8}
    Budgets <- BudgetsBV
    Dims <- DimsBV
    LateKeys = FALSE
    LatePairs = FALSE
    MaxSetups = 2
SPECIFICATION Spec
CHECK_DEADLOCK FALSE
INVARIANTS TypeOK BootstrapReturnsMessage RotationKeysCover
