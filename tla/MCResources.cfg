SPECIFICATION MCSpec
CONSTANTS
    Procs = {1, 2}
    NPAGES = 20
    PGSIZE = 16
    RADIX = 4
    UIntMod = 512
    ULongMod = 1024
    MAXARG = 3
    ALIGN = 4
    WORD = 2
    Argvs <- MCArgvs
    Deltas <- StepDeltas
    Images <- Programs
    pi = pi
    InitProc = 1
    NFILE = 3
    NOFILE = 2
    Pipes = {pi}
    None = None
VIEW View
INVARIANTS MemoryAccounted AccessExact ArgumentsExact TableExact
