SPECIFICATION PrintFairSpec
CONSTANTS
    j1 = j1
    Jobs = {j1}
    MaxAttempts = 2
    Nobody = Nobody
CHECK_DEADLOCK FALSE
PROPERTIES
    LostTicketIsHandedOver
