SPECIFICATION Spec
CONSTANTS
    Base = 3
    Bytes = 88
    Requests <- MCRequests
INVARIANTS
    WellFormed
    RefusedOnlyWhenFull
PROPERTIES
    ImplementsHeap
