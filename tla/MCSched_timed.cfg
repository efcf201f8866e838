CONSTANTS
    None = None
    Thread = {t1, t2, t3}
    Process = {p1}
    Blocker = {b1}
    CpuAmount = 1
    PRIORITY_MAX = 0
    Timeout = {0}
    MaxTime = 1
SPECIFICATION TimedSpec
INVARIANTS
    TypeOK
PROPERTIES
    TimeoutReached
    ReadyRuns
