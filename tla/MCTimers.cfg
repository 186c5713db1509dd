SPECIFICATION Spec
CONSTANTS
    None = None
    e1 = e1
    e2 = e2
    e3 = e3
    h1 = h1
    h2 = h2
    EtsTimers <- MCEtsTimers
    EspTimers <- MCEspTimers
    Clients <- MCClients
    SelfArmed <- MCSelfArmed
    Slots = 2
    Budget = 1
    DrainCap = 2
    MaxDelay = 2
INVARIANTS
    TimersKept
    WalkStaysInList
    PassServesDue
PROPERTIES
    NoStrayCallback
CHECK_DEADLOCK FALSE
