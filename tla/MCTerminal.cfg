SPECIFICATION MCSpec
CONSTANTS
    Procs = {p1, p2}
    Printers = {c1}
    BUFSIZE = 2
    FIFOSIZE = 2
    MaxChars = 2
    None = None
    Writers = {p1, p2}
    INPUT_BUF = 2
    CtrMod = 4
    MaxN = 2
CHECK_DEADLOCK FALSE
INVARIANTS InOrder InputDelivered
PROPERTIES AllSent CommittedKept EofReturnsZero
