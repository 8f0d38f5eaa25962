CONSTANTS
    a = a
    b = b
    Emitters = {e1, e2}
    Masks <- TwoMasks
    Depth = 2
    RingSize = 1
    Stops = TRUE
    MaxEvents = 3
SPECIFICATION FairSpec
PROPERTIES ReleasedUnlessStopped StopJoins
CHECK_DEADLOCK FALSE
