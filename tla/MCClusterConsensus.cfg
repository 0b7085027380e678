\* Three nodes in a line, two mined blocks; the node in the middle mines too.
SPECIFICATION Spec
CONSTANTS
    n1 = n1
    n2 = n2
    n3 = n3
    Node = {n1, n2, n3}
    Setup <- MiningLine
    MaxBlock = 2
INVARIANTS
    Consensus
CHECK_DEADLOCK FALSE
