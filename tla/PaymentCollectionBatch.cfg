SPECIFICATION Spec
CONSTANTS
    p1 = p1
    p2 = p2
    p3 = p3
    o1 = o1
    o2 = o2
    None = None
    Payments <- TwoPayments
    Orders <- TwoOrders
    Immediate <- TwoOrders
    GuestQr <- NoOrders
    Methods <- Jsapi
SYMMETRY SymmetryOfBoth
CONSTRAINT BatchScope
CHECK_DEADLOCK FALSE
INVARIANTS
    DoubleCaptureIsExplained
    ProductionFollowsFulfilment
