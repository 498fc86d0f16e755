SPECIFICATION FairToolSpec
INVARIANTS
    SentForksInOrder
PROPERTY Ends
CHECK_DEADLOCK FALSE
