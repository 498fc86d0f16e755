CONSTANTS
    Txs = {t1, t2}
    Unreliable = TRUE
    MaxOps = 2
SPECIFICATION FairSpec
INVARIANTS
    CompletionsMatch
    SlotsOwned
    DestroyedQuiescent
    MisuseOnlyAfterEarlyEnd
    StaysUp
PROPERTIES
    KeepsPromise
    EveryCallSettles
CHECK_DEADLOCK FALSE
