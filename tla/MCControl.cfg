\* How a node is operated: two requests and one signal past the API; two blocks, or one
\* if the requests are not all about the miner.
SPECIFICATION FairSpec
CONSTANTS
    r1 = r1
    r2 = r2
    Request = {r1, r2}
    Lambda = {1}
    Signal = {"Update", "Exit"}
    MaxTip = 2
    MaxSent = 1
INVARIANTS
    FreshAfterSignal
    DeathsHaveCause
    FlagHeldByGenerator
PROPERTIES
    StartedMines
    ExitEnds
    FailStop
    OthersAnswered
CONSTRAINT OneBlockOrMiner
CHECK_DEADLOCK FALSE
