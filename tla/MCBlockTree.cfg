\* Four blocks, two difficulties, every forest over them.
SPECIFICATION Spec
CONSTANTS
    h1 = h1
    h2 = h2
    h3 = h3
    h4 = h4
    a1 = a1
    a2 = a2
    NoHash = NoHash
    Hash = {h1, h2, h3, h4}
    Difficulty = {1, 2}
    TxList <- MCTxList
    LedgerState <- MCLedgerState
    Ico <- IcoState
    Execute <- ExecuteTx
    Account = {a1, a2}
    IcoAccount = a1
    IcoBalance = 1
    Word = 2
INVARIANTS
    WellFormed
    LedgerReplays
    StateQueryFindsHeight
PROPERTIES
    Immutable
SYMMETRY Symmetry
CHECK_DEADLOCK FALSE
