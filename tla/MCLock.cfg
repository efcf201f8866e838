CONSTANTS
    None = None
    l1 = l1
    l2 = l2
    CPU = {c1, c2}
    Thread = {t1, t2, t3}
    LockId = {l1, l2}
    Nested <- BlockerThenQueue
    TicketSize = 2
SPECIFICATION FairSpec
INVARIANTS
    MutualExclusion
    MaskingKept
PROPERTIES
    Served
