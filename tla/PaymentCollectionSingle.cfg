SPECIFICATION Spec
CONSTANTS
    p1 = p1
    p2 = p2
    p3 = p3
    o1 = o1
    o2 = o2
    None = None
    Payments <- TwoPayments
    Orders <- OneOrder
    Immediate <- OneOrder
    GuestQr <- OneOrder
    Methods <- Jsapi
SYMMETRY SymmetryOfPayments
CHECK_DEADLOCK FALSE
INVARIANTS
    TypeOK
    LedgerMatchesCaptures
    CaptureHasEvidence
    CollectedOrderIsServed
    ServedForTimelyMoney
    FinishedAttemptIsNotPayable
PROPERTIES
    DeadlineAloneReleasesNothing
    ImplementsPromise
