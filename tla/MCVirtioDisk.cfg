SPECIFICATION Spec
CONSTANTS
    Procs = {p1, p2, p3}
    Sectors = {s1}
    Vals = {v1, v2}
    NoReq = NoReq
    NoProc = NoProc
    NoDesc = NoDesc
    NUM = 7
    RING = 2
    IdxMod = 4
SYMMETRY Symm
VIEW LiveView
INVARIANTS DescsAccounted NoLostSignal
PROPERTY ServiceSpec
