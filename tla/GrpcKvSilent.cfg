CONSTANTS
    Txs = {t1, t2}
    Unreliable = FALSE
    MaxOps = 1
SPECIFICATION SilentServerSpec
PROPERTY CallsTimeOut
CHECK_DEADLOCK FALSE
