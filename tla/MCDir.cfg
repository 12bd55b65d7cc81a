SPECIFICATION Spec
CONSTANTS
    Procs = {1, 2}
    Names = {"a"}
    NINODES = 4
    MaxLink = 3
    Calls <- TwoUsers
    None = None
INVARIANT NoPanic
