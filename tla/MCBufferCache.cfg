SPECIFICATION FairSpec
CONSTANTS
    Procs = {p1, p2}
    NBUF = 2
    BlockNos = {1, 2, 3}
    ReadOnly = {1}
    Nested <- IndirectThenBitmap
    Image <- Formatted
    Vals = {v1, v2}
    NoProc = NoProc
    NoBlock = NoBlock
    HoldMax = 2
    PinMax = 1
INVARIANT BuffersExact
PROPERTIES StoreSpec SleeperWakes
CHECK_DEADLOCK FALSE
