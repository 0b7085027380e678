\* Every sequence of up to six of two data, every proof, every call of verify.
SPECIFICATION Spec
CONSTANTS
    d1 = d1
    d2 = d2
    Datum = {d1, d2}
    MaxLeaves = 6
SYMMETRY Swap
INVARIANTS
    RootIsReference
    ProofIsSiblings
    ProofAccepted
    AcceptedIsThere
CHECK_DEADLOCK FALSE
