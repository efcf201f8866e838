CONSTANTS
    app = app
    bar = bar
    arrow = arrow
    paper = paper
    Win = {app, bar, arrow, paper}
    TypeOf <- MCTypeOf
    NULL = NULL
    EventReader = {f1, f2}
    RING_MAX = 3
    Motion <- MCMotion
    Key <- MCKey
SPECIFICATION Spec
CHECK_DEADLOCK FALSE
INVARIANTS
    NoDangling
    NothingLeftToDraw
    InputDecoded
PROPERTIES
    FlushShown
    RingIsQueue
