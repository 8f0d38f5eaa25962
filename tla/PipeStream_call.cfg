CONSTANTS
    PipeCapacity = 3
    InCapacity = 3
    MaxFrames = 3
SPECIFICATION FairSpec
INVARIANTS TypeOK FramesStayInSync EofAfterAccepted TornAfterBody
PROPERTIES ReaderReturns CallReturns
CHECK_DEADLOCK FALSE
