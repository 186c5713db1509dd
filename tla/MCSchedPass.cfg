SPECIFICATION Spec
CONSTANTS
    RingSize = 3
    QueueCap = 2
    MaxEvents = 3
    Ticker = ticker
    pump = pump
    Pumpers <- MCPumpers
INVARIANTS
    NoReentrantISR
    NotStranded
PROPERTIES
    EventsServed
    ImplementsPipe
