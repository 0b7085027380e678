\* Two connections, two broadcasts, a channel of two signals.
SPECIFICATION FairSpec
CONSTANTS
    c1 = c1
    c2 = c2
    a1 = a1
    a2 = a2
    t1 = t1
    Conn = {c1, c2}
    Addr = {a1, a2}
    Setup <- Setups
    Thread = {t1}
    Capacity = 2
    MaxBroadcast = 2
    MaxRead = 1
INVARIANTS
    InOrder
    DeadPeerReported
    AllServed
PROPERTIES
    BroadcastReturns
    BroadcastsWritten
    PeersAdmitted
CHECK_DEADLOCK FALSE
