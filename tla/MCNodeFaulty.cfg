\* Two workers, the miner, and peers that send blocks without work or of another
\* difficulty: what must happen and what may not.
SPECIFICATION FairSpec
CONSTANTS
    h1 = h1
    h2 = h2
    h3 = h3
    h4 = h4
    h5 = h5
    a1 = a1
    a2 = a2
    w1 = w1
    w2 = w2
    NoHash = NoHash
    Hash = {h1, h2, h3, h4}
    Difficulty = {1, 2}
    TxList <- MCTxListNone
    LedgerState <- MCLedgerState
    Ico <- IcoState
    Execute <- ExecuteTx
    Account = {a1, a2}
    IcoAccount = a1
    IcoBalance = 1
    Word = 2
    Worker = {w1, w2}
    Tx <- MCTxNone
    Signed <- MCTxNone
    MaxTxPerBlock = 1
    Mining = TRUE
    HonestHeaders = FALSE
    ServerEnds = FALSE
    MaxBatch = 1
    MaxOrphans = 2
PROPERTIES
    RefinesBlockTree
    HandlerFinishes
    MinedBlocksLand
CONSTRAINT InOrder
CHECK_DEADLOCK FALSE
