SPECIFICATION Spec
CONSTANTS
    g1 = g1
    g2 = g2
    mac = mac
    Callers <- MCCallers
    Named <- MCNamed
    Broadcast = all
    RxDepth = 2
    MaxInstances = 2
    MaxPeers = 3
INVARIANTS
    OpenInstanceHasSDK
    CloseClosesPeers
    NamedPeerInTable
    RoutedRight
PROPERTIES
    NothingAfterClose
    CallsReturn
CHECK_DEADLOCK FALSE
