SPECIFICATION Spec
CONSTANTS
    r1 = r1
    r2 = r2
    t1 = t1
    t2 = t2
    Bookings <- TwoBookings
    Tables <- TwoTables
    Seats <- OneSeatEach
    Periods <- ThreePeriods
    MaxParty = 2
CHECK_DEADLOCK FALSE
INVARIANT
    AdmissionFitsCapacity
