CONSTANTS
    NoPage = NoPage
    Device = Device
    HighPage = {h1, h2, h3, h4}
    HighAvail = {h1, h2, h3}
    LoaderData = {h4}
    LowAmount = 2
    LowAvail = {0, 1}
    PAGE_BUFFER_MAX = 2
    Space = {s1}
    VirtAmount = 2
    TableSpan = 1
    FirstFree = 0
    Lengths = {1, 2}
    KernelMax = 2
SPECIFICATION VmmSpec
CHECK_DEADLOCK FALSE
INVARIANTS
    ExhaustionNoticed
