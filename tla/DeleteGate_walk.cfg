CONSTANTS
    Walkers = {w1, w2, w3}
    Lives = 2
SPECIFICATION GateSpec
INVARIANTS CountIsInside FreedUnderNobody
CHECK_DEADLOCK FALSE
