SPECIFICATION FairSpec
CONSTANTS
    Procs = {p1, p2}
    Names = {a, b}
    Inums = {1, 2}
    NINODE = 2
    None = None
INVARIANTS CountsExact IputWontBlock
PROPERTY CallReturns
