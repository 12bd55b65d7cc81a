SPECIFICATION FairSpec
CONSTANTS
    p1 = p1
    p2 = p2
    Procs = {p1, p2}
    Holds <- ParentAndChild
    Bytes = {0, 1}
    PIPESIZE = 2
    CtrMod = 4
    MaxN = 2
    MayDie = {p1, p2}
    None = None
CHECK_DEADLOCK FALSE
INVARIANT FreedUnused
PROPERTIES StreamSpec CallReturns
