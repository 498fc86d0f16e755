SPECIFICATION ToolSpec
INVARIANT EveryKnownChainWorks
CHECK_DEADLOCK FALSE
