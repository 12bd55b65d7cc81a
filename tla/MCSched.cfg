SPECIFICATION Spec
CONSTANTS
    CPUs = {c1, c2}
    Clock = c1
    NPROC = 2
    TicksMod = 3
    None = None
INVARIANTS OneStackOneCPU NoLostWakeup InterruptsRestored
