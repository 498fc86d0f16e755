CONSTANTS
    Threads = {t1, t2}
    NoThread = NoThread
    MaxLines = 2
    MaxChanges = 2
SPECIFICATION FairSpec
INVARIANTS
    LinesWhole
    StreamsAgree
PROPERTY LogGoesOn
CHECK_DEADLOCK FALSE
