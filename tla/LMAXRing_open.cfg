CONSTANTS
    Producers = {p1, p2}
    Slots = 2
    Await = FALSE
    MaxSeq = 5
SPECIFICATION OpenSpec
INVARIANTS CursorsOrdered
PROPERTIES QueueUntilOverrun IntactUnlessFull EveryFrameConsumed
CHECK_DEADLOCK FALSE
