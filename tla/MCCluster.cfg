\* Three nodes; two to four mined blocks.
SPECIFICATION FairSpec
CONSTANTS
    n1 = n1
    n2 = n2
    n3 = n3
    Node = {n1, n2, n3}
    Setup <- Setups
    MaxBlock = 4
INVARIANTS
    AncestorsArrive
    NeighbourBlocksArrive
    OrderedConsensus
PROPERTIES
    GossipEnds
CHECK_DEADLOCK FALSE
