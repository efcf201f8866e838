CONSTANTS
    NoPage = NoPage
    Device = Device
    HighPage = {h1, h2, h3, h4, h5, h6}
    HighAvail = {h1, h2, h3, h4, h5}
    LoaderData = {h6}
    LowAmount = 3
    LowAvail = {1, 2}
    PAGE_BUFFER_MAX = 2
    Space = {s1, s2}
    VirtAmount = 3
    TableSpan = 2
    FirstFree = 0
    Lengths = {1, 2}
    KernelMax = 1
SPECIFICATION VmmSpec
CHECK_DEADLOCK FALSE
SYMMETRY Symmetry
INVARIANTS
    PagesConsistent

    
