SPECIFICATION MCSpec
CONSTANTS
    Files = {0, 1}
    Root = 0
    DIRENT = 1
    ImageSizes = {1}
    Writers = {1, 2}
    FileOf <- SameFile
    NBLOCKS = 8
    BSIZE = 2
    NDIRECT = 1
    NINDIRECT = 3
    MAXOPBLOCKS = 8
    BPB = 64
    UIntMod = 16
    NVALUES = 3
    Writes <- TwoWrites
    Counts = {8, 15}
    None = None
    Procs = {1, 2}
    Names = {"a"}
    NINODES = 4
    MaxLink = 3
    Calls <- TwoUsers
INVARIANTS DataAccounted TransactionFits LinksExact TreeIntact NoDeadlock
PROPERTY ContentSpec
VIEW LiveView
