SPECIFICATION FairSpec
CONSTANTS
    r1 = r1
    r2 = r2
    online = online
    till = till
    food = food
    drink = drink
    o1 = o1
    o2 = o2
    s1 = s1
    s2 = s2
    None = None
    Refunds <- TwoRefunds
    Payments <- BothPayments
    Items <- BothItems
    OrderOf <- OrderOfBoth
    Price <- PriceOfBoth
    Share <- ShareOfBoth
    Captured <- CapturedByBoth
    Provider <- ProviderCash
    Staff <- BothStaff
CHECK_DEADLOCK FALSE
INVARIANTS
    TypeOK
    RefundsFitTheirFunds
    MoneyLeavesOncePerDecision
    BooksMatchTheChannel
PROPERTIES
    ReturnedMoneyIsBooked
    RefundsKeepPromise
