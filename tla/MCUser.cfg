SPECIFICATION MCSpec
CONSTANTS
    Words = {"echo", "cat", "f"}
    Readers = {"cat"}
    MAXARGS = 3
    NPROC = 5
    NOFILE = 5
    MaxBack = 2
    Lines <- MCLines
    HEADER = 2
    MINCORE = 4
    MaxBrk = 15
    Requests = {1, 3, 8}
    Extra = 1
INVARIANTS ForegroundDone ForegroundMoves ParseExact HeapExact
