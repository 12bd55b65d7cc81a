SPECIFICATION FairSpec
CONSTANTS
    NPROC = 3
    MaxPid = 5
    KillPids = {0, 2, 3}
    None = None
INVARIANTS SlotReuse FamilySound
PROPERTY ZombieReaped
