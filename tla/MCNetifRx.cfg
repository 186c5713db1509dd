SPECIFICATION RxSpec
CONSTANTS
    RingSize = 3
    FrameMax = 4
    BufLen = 2
    Lengths <- MCLengths
    MaxFrames = 5
INVARIANTS
    NoTornRead
PROPERTIES
    ImplementsFifo
    RingEmpties
CHECK_DEADLOCK FALSE
