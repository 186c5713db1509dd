SPECIFICATION TxSpec
CONSTANTS
    s1 = s1
    s2 = s2
    s3 = s3
    Senders <- MCSenders
    Retries = 4
    PumpPasses = 4
    EventCap = 3
INVARIANTS
    OneWriter
    TxOnlyWhileStarted
    GateFollowsDriver
    LinkFlagSettles
PROPERTIES
    GateReleased
