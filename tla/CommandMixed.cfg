SPECIFICATION FairSpec
CONSTANTS
    a1 = a1
    a2 = a2
    a3 = a3
    a4 = a4
    a5 = a5
    k1 = k1
    k2 = k2
    e1 = e1
    c1 = c1
    c2 = c2
    None = None
    Keys <- MixedKeys
    Attempts <- MixedAttempts
    KeyOf <- MixedKeyOf
    HashOf <- MixedHashOf
    EventOf <- MixedEventOf
    Events <- OneEvent
    Contents <- OneContent
    ReplayOnly <- MixedReplayOnly
    Retained <- MixedRetained
    Strict <- MixedRetained
    Provisional <- MixedProvisional
CHECK_DEADLOCK FALSE
INVARIANTS
    RetainedRunsOnce
PROPERTIES
    AttemptsEnd
