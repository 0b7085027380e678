\* A transaction of an earlier block runs again.
SPECIFICATION Spec
CONSTANTS
    a1 = a1
    a2 = a2
    a3 = a3
    Account = {a1, a2}
    IcoAccount = a1
    IcoBalance = 2
    Word = 16
    MaxValue = 1
    MaxTx = 2
    MaxHeight = 3
    Tx <- MCTxTwo
INVARIANTS
    NoDuplicateTx
CHECK_DEADLOCK FALSE
