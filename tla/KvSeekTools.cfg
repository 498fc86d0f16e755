CONSTANTS
    Txs = {t1}
    Unreliable = TRUE
    Tools <- EveryTool
SPECIFICATION FairSpec
INVARIANTS
    ExitCodes
    CursorNamed
    RepliesMatch
PROPERTY EveryToolExits
CHECK_DEADLOCK FALSE
