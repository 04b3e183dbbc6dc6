SPECIFICATION FairLoopSpec
CONSTANTS
    d1 = d1
    d2 = d2
    w1 = w1
    w2 = w2
    Messages <- Items
    Workers <- Processes
    BatchLimit = 2
    MaxTroubles = 2
    None = None
    Notifications <- Items
    Senders <- Processes
    MaxTries = 2
    NoSender = NoSender
    Tickets <- Items
    Printers <- Processes
    MaxPrintTries = 2
    NoWorker = NoWorker
    Jobs <- Items
    MaxAttempts = 3
    Nobody = Nobody
CHECK_DEADLOCK FALSE
INVARIANTS
    LoopTypeOK
    DuplicatesAreExplained
    HandoversWithinAttempts
    RecordsAreTrue
PROPERTIES
    LoopsKeepTheirPromises
    OnlyALateSenderHandsOverAnEndedOne
    LoopsFinish
