CONSTANTS
    Txs = {t1}
    Unreliable = TRUE
SPECIFICATION FairSpec
INVARIANTS
    OneLink
    StopsAfterLastReply
    QuietExit
PROPERTY EndsOrGivesUp
CHECK_DEADLOCK FALSE
