CONSTANTS
    Entities = {e1, e2, e3}
    Roots = {r1, r2}
    Children = {c1}
    MaxInstances = 2
    MaxPending = 3
SPECIFICATION FairSpec
INVARIANTS OwnerIsAlive OneOwner NeverUnmappedUnder
PROPERTIES VacantEnds JoinEnds
CHECK_DEADLOCK FALSE
