CONSTANTS
    a = a
    b = b
    Emitters = {e1, e2, e3}
    Masks <- SomeMasks
    Depth = 3
    RingSize = 2
    Stops = FALSE
    MaxEvents = 4
SPECIFICATION Spec
SYMMETRY EmitterSymmetry
INVARIANTS WaitersAccounted NothingLeftIdle NeverConcurrent
PROPERTIES ImplementsDispatch
