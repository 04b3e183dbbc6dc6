SPECIFICATION Spec
CONSTANTS
    p1 = p1
    p2 = p2
    p3 = p3
    o1 = o1
    o2 = o2
    None = None
    Payments <- TwoPayments
    Orders <- OneOrder
    Immediate <- OneOrder
    GuestQr <- NoOrders
    Methods <- Jsapi
CHECK_DEADLOCK FALSE
PROPERTIES
    CancellationWaitsForPayments
