SPECIFICATION FairSpec
CONSTANTS
    Procs = {p1, p2}
    Blocks = {b1, b2}
    Vals = {v1, v2}
    NoBlock = NoBlock
    MAXOPBLOCKS = 4
    LOGSIZE = 8
    LogSize = 8
    OpBlocks = 2
INVARIANT NoPanic
PROPERTIES AtomicSpec SleeperWakes
