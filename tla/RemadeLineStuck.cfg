SPECIFICATION StockSpec
CONSTANTS
    l1 = l1
    l2 = l2
    Lines <- OneLine
    Need = 2
    MaxTasks = 2
    Opening = 4
    MaxSupply = 4
CHECK_DEADLOCK FALSE
INVARIANTS
    ReadyRemakeIsDeliverable
