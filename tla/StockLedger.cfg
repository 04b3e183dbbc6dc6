SPECIFICATION StockSpec
CONSTANTS
    l1 = l1
    l2 = l2
    Lines <- TwoLines
    Need = 2
    MaxTasks = 2
    Opening = 4
    MaxSupply = 4
SYMMETRY LineSymmetry
CHECK_DEADLOCK FALSE
INVARIANTS
    StockTypeOK
    StockIsExplained
    ReservedIsBacked
    MaterialIsNotBothUsedAndReturned
    ServedFromStock
    HeldForLiveWorkInVisit
