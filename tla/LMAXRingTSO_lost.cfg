CONSTANTS
    Producers = {p1, p2}
    Slots = 4
    Await = TRUE
    MaxSeq = 2
SPECIFICATION FairSpecTSO
PROPERTY EveryFrameConsumed
CHECK_DEADLOCK FALSE
