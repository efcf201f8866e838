CONSTANTS
    CpuAmount = 3
    IPI_QUEUE_MAX = 3
    NoPage = NoPage
    NoCore = NoCore
    Client = {c1, c2, c3}
    HeapPage = 4
    HeapMax = 16
    MallocSize = {0, 1, 2, 4}
    Side = 3
    Count = {1, 2, 3}
    Align = {1, 2, 3}
    LowAmount = 7
    HighPage = {}
    PAGE_BUFFER_MAX = 2
SPECIFICATION Spec
CHECK_DEADLOCK FALSE
INVARIANTS
    HaltSafe
    HeapSound
    ResultsExact
PROPERTIES
    PanicReported
