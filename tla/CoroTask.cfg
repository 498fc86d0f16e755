CONSTANTS
    Root = root
    Coros = {root, c1, c2, c3}
    NoCoro = NoCoro
    Op = Op
    MaxAwaits = 2
SPECIFICATION FairSpec
INVARIANTS
    NothingUndefined
    FramesNested
PROPERTIES
    AwaitIsCall
    RootEnds
CHECK_DEADLOCK FALSE
