CONSTANTS
    Thread = {t1, t2}
    RING_SIZE = 2
    Count = {1}
    MaxFd = 2
    Values = 3
SPECIFICATION FairSpec
CHECK_DEADLOCK FALSE
PROPERTIES
    DataSeen
