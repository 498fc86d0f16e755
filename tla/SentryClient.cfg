CONSTANT Callers = {c1, c2, c3, c4}
SPECIFICATION FairSpec
INVARIANTS
    OneCallPerClient
PROPERTIES
    KeepsPromise
    EveryCallSettles
CHECK_DEADLOCK FALSE
