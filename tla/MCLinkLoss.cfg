SPECIFICATION Spec
CONSTANTS
    Retries = 2
    LinkCap = 2
    EventCap = 1
INVARIANTS
    LossAlwaysNotified
