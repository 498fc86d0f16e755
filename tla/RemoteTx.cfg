CONSTANTS
    Tables = {A, B}
    Cursors = {c1, c2}
    MaxCalls = 6
    NoTable = NoTable
    NoCursor = NoCursor
SPECIFICATION FairSpec
INVARIANTS
    IdsAgree
    CloseClosesShared
    RejectedOnlyIfNotOpen
    SharedCursorsOpen
PROPERTIES
    AwaitsInTurn
    ActsAtOnce
    MethodsReturn
CHECK_DEADLOCK FALSE
