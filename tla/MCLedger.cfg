\* Three accounts, three blocks of up to three valid transactions each; with
\* Word = 6 a balance wraps in the last block.
SPECIFICATION Spec
CONSTANTS
    a1 = a1
    a2 = a2
    a3 = a3
    Account = {a1, a2, a3}
    IcoAccount = a1
    IcoBalance = 2
    Word = 6
    MaxValue = 2
    MaxTx = 3
    MaxHeight = 3
    Tx <- MCTx
INVARIANTS
    LastWriterWins
    BalanceBounded
    ReexecutionAgrees
PROPERTIES
    NonceStep
CHECK_DEADLOCK FALSE
