SPECIFICATION Spec
CONSTANTS
    a1 = a1
    a2 = a2
    a3 = a3
    a4 = a4
    a5 = a5
    k1 = k1
    k2 = k2
    e1 = e1
    c1 = c1
    c2 = c2
    None = None
    Keys <- TtlKeys
    Attempts <- TtlAttempts
    KeyOf <- TtlKeyOf
    HashOf <- TtlHashOf
    EventOf <- TtlEventOf
    Events <- OneEvent
    Contents <- TwoContents
    ReplayOnly <- NoAttempts
    Retained <- NoKeys
    Strict <- NoKeys
    Provisional <- NoKeys
SYMMETRY TtlSymmetry
CHECK_DEADLOCK FALSE
INVARIANTS
    TypeOK
    AnswersAreTrue
    EffectIsAnnounced
PROPERTIES
    ImplementsPromise
