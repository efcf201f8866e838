CONSTANTS
    None = None
    Thread = {t1, t2}
    Process = {p1, p2}
    Blocker = {}
    CpuAmount = 2
    PRIORITY_MAX = 0
    Timeout = {}
    MaxTime = 0
SPECIFICATION SyscallSpec
INVARIANTS
    RefCountsThreads
PROPERTIES
    ImplementsThreadLife
    
