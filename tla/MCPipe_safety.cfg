CONSTANTS
    Thread = {t1, t2}
    RING_SIZE = 3
    Count = {1, 2, 3}
    MaxFd = 2
    Values = 4
SPECIFICATION FairSpec
CHECK_DEADLOCK FALSE
INVARIANTS
    InOrder
    NoFault
PROPERTIES
    PrivateFreed
