CONSTANTS
    c1 = c1
    c2 = c2
    Walkers = {}
    Lives = 1
    Calls = {c1, c2}
    Labels = {"L"}
    Label <- L1
SPECIFICATION FairSpec
INVARIANTS FlagMirrorsScopes DrainSeesCallsOff
PROPERTIES InterruptedLeaves
CHECK_DEADLOCK FALSE
