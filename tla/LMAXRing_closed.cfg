CONSTANTS
    Producers = {p1, p2, p3}
    Slots = 4
    Await = TRUE
    MaxSeq = 7
SPECIFICATION Spec
SYMMETRY ProducerSymmetry
INVARIANTS ClaimsDistinct FramesIntact
PROPERTIES ImplementsQueue
CHECK_DEADLOCK FALSE
