\* Two workers, the miner and its inserting thread, honest peers.
SPECIFICATION Spec
CONSTANTS
    h1 = h1
    h2 = h2
    h3 = h3
    h4 = h4
    h5 = h5
    a1 = a1
    a2 = a2
    w1 = w1
    w2 = w2
    NoHash = NoHash
    Hash = {h1, h2, h3, h4}
    Difficulty = {1}
    TxList <- MCTxListOne
    LedgerState <- MCLedgerState
    Ico <- IcoState
    Execute <- ExecuteTx
    Account = {a1, a2}
    IcoAccount = a1
    IcoBalance = 1
    Word = 2
    Worker = {w1, w2}
    Tx <- MCTx
    Signed <- MCSigned
    MaxTxPerBlock = 1
    Mining = TRUE
    HonestHeaders = TRUE
    ServerEnds = TRUE
    MaxBatch = 2
    MaxOrphans = 3
INVARIANTS
    TypeOK
    ChainIsWorld
    QueueReady
    InsertedBeforeBroadcast
    MinerReady
    NoMissingState
PROPERTIES
    StatesNeverRewritten
    RefinesBlockTree
SYMMETRY Symmetry
CHECK_DEADLOCK FALSE
