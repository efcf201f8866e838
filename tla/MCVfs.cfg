CONSTANTS
    None = None
    p1 = p1
    t1 = t1
    t2 = t2
    Process = {p1, p2}
    Thread = {t1, t2}
    Owner <- OneProcess
    File = {f1, f2, f3}
    Volume = {v1}
    Unmountable = {v1}
    CONFIG_MAX_FD = 2
    Hands = 2
    Walker = {w1, w2}
    Label = {"sys", "home"}
    SysLabel = "sys"
    MAX_PATH = 8
    PathArg <- MCPath
    HomeTree <- MCHome
    Exposed <- MCExposed
    MAX_THRD = 2
    ThrdMax = 3
    RefMax = 4
    ResultSize = 2
    Code = {1, 2}
SPECIFICATION SharedSpec
SYMMETRY Symmetry
CHECK_DEADLOCK FALSE
INVARIANTS
    
    PathsResolve
    ThrdRefs
    ThrdOnItsBlock
PROPERTIES
    CwdIsDirectory
