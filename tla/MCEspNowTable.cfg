SPECIFICATION SafeSpec
CONSTANTS
    g1 = g1
    g2 = g2
    mac = mac
    Callers <- MCCallers
    Named <- MCNamed
    Broadcast = all
    RxDepth = 1
    MaxInstances = 2
    MaxPeers = 2
INVARIANTS
    PeersInTable
CHECK_DEADLOCK FALSE
