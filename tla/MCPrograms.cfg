CONSTANTS
    lower = lower
    upper = upper
    bar = bar
    Window = {w1, w2}
    MSG_QUEUE_MAX = 3
    None = None
    Pane = {lower, upper, bar}
    Panel = {bar}
    Wall = Wall
    Cursor = Cursor
    ScreenWidth = 3
    ScreenHeight = 2
    PaneRect <- MCPaneRect
    PointerPixel <- MCPointer
    OpMax = 2
    WidgetId = {1, 2}
    WIN_WIDGET_MAX_MSG = 3
    Timeout = {0, 1}
    NsecSize = 16
    ClockMax = 4
    QueueMax = 1
    Caller = {r1}
    SleepTicks = {1, 2}
    CounterSize = 4
    CounterMax = 3
    NowMax = 7
SPECIFICATION Spec
SYMMETRY Symmetry
CHECK_DEADLOCK FALSE
INVARIANTS
    FocusKnown
    
    
    TimerWakes
    WidgetsServed
    
