----------------------------- MODULE Compositor -----------------------------
(***************************************************************************)
(* What is on the screen: the drawing functions of src/kernel/dwm/dwm.c on *)
(* a small screen.                                                         *)
(*                                                                         *)
(* A pass draws the wall and then one window per step; clients flush and   *)
(* move their windows between any two steps.  The pixels of a window all   *)
(* have one colour, which a flush changes.  Module Dwm is about when a     *)
(* pass is made, this one about what it leaves behind.                     *)
(***************************************************************************)
EXTENDS Integers, Sequences, SequencesExt, FiniteSets, Rect

CONSTANTS
    Pane,           \* windows and panels
    Panel,          \* the panels among them
    ScreenWidth, ScreenHeight,
    PaneRect,       \* the rectangles each may take
    PointerPixel,   \* the pixels the cursor may be on
    Wall, Cursor,   \* owners of pixels, with the panes
    OpMax           \* operations of clients before all is drawn

Pixel == [x: 0 .. ScreenWidth - 1, y: 0 .. ScreenHeight - 1]

\* A window has a width and a height, neither of them negative.
ASSUME CompositorAssumption ==
    /\ Panel \subseteq Pane
    /\ Wall # Cursor /\ Wall \notin Pane /\ Cursor \notin Pane
    /\ ScreenWidth \in Nat \ {0} /\ ScreenHeight \in Nat \ {0} /\ OpMax \in Nat
    /\ \A w \in Pane : \A r \in PaneRect[w] :
        r \in [left: Int, top: Int, right: Int, bottom: Int] /\ r.left <= r.right /\ r.top <= r.bottom
    /\ [x |-> 0, y |-> 0] \in PointerPixel /\ PointerPixel \subseteq Pixel

VARIABLES
    stack,          \* windows, from the lowest to the highest
    pane,           \* window_t: position and size, prevRect, flags, colour
    wallpaper,      \* the same of the wall
    clientRect,
    pointer,        \* the position of the cursor
    back,           \* the backbuffer: its pixels and its invalidRect
    front,          \* the pixels of the screen
    pass,           \* the rest of a drawing pass
    ahead,          \* windows shown where no pass has drawn them yet
    torn,           \* and moved on from there: a fragment was left behind
    ops             \* operations of clients since the last time all was drawn

drawVars == <<stack, pane, wallpaper, clientRect, pointer, back, front, pass, ahead, torn,
              ops>>

Colour == 0 .. 1
ScreenRect == RectInit(0, 0, ScreenWidth, ScreenHeight)

\* "idle": the thread is in dwm_poll; "windows": in dwm_draw_windows
CompositorTypeOK ==
    /\ IsInjective(stack) /\ Range(stack) \subseteq Pane
    /\ \A w \in Pane : pane[w].rect \in PaneRect[w] \cup {Empty} /\ pane[w].colour \in Colour
    /\ pointer \in PointerPixel
    /\ DOMAIN back.pixels = Pixel /\ DOMAIN front = Pixel
    /\ ahead \subseteq Pane
    /\ pass.pc \in {"idle", "windows"} /\ Range(pass.todo) \subseteq Pane
    /\ torn \in BOOLEAN /\ ops \in 0 .. OpMax

-----------------------------------------------------------------------------
\* gfx_invalidate: the smallest rectangle around both
Around(rect, other) ==
    IF rect.left = rect.right \/ rect.top = rect.bottom THEN other
    ELSE RectInit(IF rect.left < other.left THEN rect.left ELSE other.left,
                  IF rect.top < other.top THEN rect.top ELSE other.top,
                  IF rect.right > other.right THEN rect.right ELSE other.right,
                  IF rect.bottom > other.bottom THEN rect.bottom ELSE other.bottom)

\* gfx_transfer: the pixels of a rectangle get the colour of an owner.
Paint(buffer, rect, owner, colour) ==
    [pixels |-> [p \in Pixel |-> IF ContainsPoint(rect, p) THEN <<owner, colour>>
                                 ELSE buffer.pixels[p]],
     invalidRect |-> Around(buffer.invalidRect, rect)]

\* gfx_swap, dwm_swap
Swapped(buffer) == [p \in Pixel |-> IF ContainsPoint(buffer.invalidRect, p) THEN buffer.pixels[p]
                                    ELSE front[p]]

FitRect(w) == IF w \in Panel THEN ScreenRect ELSE clientRect

\* dwm_redraw_others: the wall, then every other window where it is now
RedrawOthers(buffer, w, rect) ==
    LET One(b, o) ==
            IF o # w /\ Overlap(rect, pane[o].rect)
            THEN Paint(b, Fit(Fit(rect, pane[o].rect), FitRect(o)), o, pane[o].colour)
            ELSE b
    IN  FoldLeft(One, Paint(buffer, rect, Wall, wallpaper.colour), stack)

\* Those it shows at a position no pass has drawn them at
ShownAhead(w, rect) ==
    {o \in Range(stack) \ {w} : pane[o].moved /\ Overlap(rect, pane[o].rect)}

Shift(rect, dx, dy) == RectInit(rect.left + dx, rect.top + dy, rect.right + dx, rect.bottom + dy)

\* Mutant: the windows above stay covered.
InvalidateNone(ps, above, rect) == ps

\* dwm_invalidate_above
InvalidateAbove(ps, above, rect) ==
    [o \in Pane |->
        IF o \in above /\ Overlap(rect, ps[o].rect)
        THEN [ps[o] EXCEPT !.invalid = TRUE,
                !.invalidRect = Around(@, Shift(Fit(rect, ps[o].rect),
                                                -ps[o].rect.left, -ps[o].rect.top))]
        ELSE ps[o]]

-----------------------------------------------------------------------------
(* dwm_update_client_rect_unlocked *)

\* What a panel leaves of the rectangle, on the side it is nearest to
PanelCut(rect, p) ==
    LET left == p.right
        top == p.bottom
        right == ScreenWidth - p.left
        bottom == ScreenHeight - p.top
        Least(d) == \A e \in {left, top, right, bottom} : d <= e
    IN  CASE Least(left) -> [rect EXCEPT !.left = IF p.right > @ THEN p.right ELSE @]
          [] ~Least(left) /\ Least(top) -> [rect EXCEPT !.top = IF p.bottom > @ THEN p.bottom ELSE @]
          [] ~Least(left) /\ ~Least(top) /\ Least(right) ->
                [rect EXCEPT !.right = IF p.left < @ THEN p.left ELSE @]
          [] OTHER -> [rect EXCEPT !.bottom = IF p.top < @ THEN p.top ELSE @]

ClientRect(list, ps) ==
    FoldLeft(LAMBDA rect, w : IF w \in Panel THEN PanelCut(rect, ps[w].rect) ELSE rect,
             ScreenRect, list)

Moved(ps, list) == [w \in Pane |-> IF w \in Range(list) THEN [ps[w] EXCEPT !.moved = TRUE] ELSE ps[w]]

-----------------------------------------------------------------------------
(* Clients *)

\* list_remove
ListRemove(list, w) == RemoveAt(list, CHOOSE i \in DOMAIN list : list[i] = w)

Operation == ops < OpMax /\ ops' = ops + 1

NewPane(rect) ==
    [rect |-> rect, prevRect |-> Empty, moved |-> TRUE, invalid |-> FALSE, colour |-> 0,
     invalidRect |-> Shift(rect, -rect.left, -rect.top)]

\* IOCTL_DWM_CREATE; the new window is selected, and on top.
PaneCreate(w, rect) ==
    LET new == [pane EXCEPT ![w] = NewPane(rect)]
        list == Append(stack, w)
    IN  /\ Operation
        /\ pass.pc = "idle" /\ w \notin Range(stack)
        /\ stack' = list
        /\ clientRect' = IF w \in Panel THEN ClientRect(list, new) ELSE clientRect
        /\ pane' = IF w \in Panel THEN Moved(new, list) ELSE new
        /\ UNCHANGED <<wallpaper, pointer, back, front, pass, ahead, torn>>

\* dwm_select of a window that is not selected
PaneRaise(w) ==
    /\ Operation
    /\ pass.pc = "idle" /\ w \in Range(stack)
    /\ stack' = Append(ListRemove(stack, w), w)
    /\ pane' = [pane EXCEPT ![w].moved = TRUE]
    /\ UNCHANGED <<wallpaper, clientRect, pointer, back, front, pass, ahead, torn>>

\* dwm_window_cleanup
PaneClose(w) ==
    LET list == ListRemove(stack, w)
        rest == [pane EXCEPT ![w] = NewPane(Empty)]
    IN  /\ Operation
        /\ pass.pc = "idle" /\ w \in Range(stack)
        /\ stack' = list
        /\ clientRect' = IF w \in Panel THEN ClientRect(list, pane) ELSE clientRect
        /\ pane' = IF w \in Panel THEN Moved(rest, list) ELSE rest
        /\ wallpaper' = [wallpaper EXCEPT !.moved = TRUE]
        /\ ahead' = ahead \ {w}
        /\ UNCHANGED <<pointer, back, front, pass, torn>>

\* window_flush, of all the window
PaneFlush(w) ==
    /\ Operation
    /\ w \in Range(stack)
    /\ pane' = [pane EXCEPT ![w].colour = 1 - @, ![w].invalid = TRUE,
                  ![w].invalidRect = Around(@, Shift(pane[w].rect, -pane[w].rect.left, -pane[w].rect.top))]
    /\ UNCHANGED <<stack, wallpaper, clientRect, pointer, back, front, pass, ahead, torn>>

\* IOCTL_WINDOW_MOVE of a window; no program moves a panel.
PaneMove(w, rect) ==
    /\ Operation
    /\ w \in Range(stack) \ Panel
    /\ rect # pane[w].rect
    /\ pane' = [pane EXCEPT ![w].rect = rect, ![w].moved = TRUE]
    /\ torn' = (torn \/ w \in ahead)
    /\ UNCHANGED <<stack, wallpaper, clientRect, pointer, back, front, pass, ahead>>

WallFlush ==
    /\ Operation
    /\ wallpaper' = [wallpaper EXCEPT !.colour = 1 - @, !.invalid = TRUE]
    /\ UNCHANGED <<stack, pane, clientRect, pointer, back, front, pass, ahead, torn>>

-----------------------------------------------------------------------------
(* dwm_loop *)

\* Something waits to be drawn.
Dirty == \/ wallpaper.moved \/ wallpaper.invalid
         \/ \E w \in Range(stack) : pane[w].moved \/ pane[w].invalid

\* dwm_draw_wall
PassBegin ==
    LET dirty == wallpaper.moved \/ wallpaper.invalid
    IN  /\ pass.pc = "idle"
        /\ Dirty
        /\ wallpaper' = [wallpaper EXCEPT !.moved = FALSE, !.invalid = FALSE]
        /\ back' = IF dirty THEN Paint(back, Fit(ScreenRect, clientRect), Wall, wallpaper.colour)
                   ELSE back
        /\ pane' = IF dirty THEN Moved(pane, stack) ELSE pane
        /\ pass' = [pc |-> "windows", todo |-> stack]
        /\ torn' = (torn /\ ~dirty)
        /\ UNCHANGED <<stack, clientRect, pointer, front, ahead, ops>>

\* One window of dwm_draw_windows
PassWindow ==
    LET w == Head(pass.todo)
        r == pane[w]
        whole == Fit(r.rect, FitRect(w))
        part == Fit(Shift(r.invalidRect, r.rect.left, r.rect.top), FitRect(w))
        rect == IF r.moved THEN whole ELSE part
        uncovered == r.moved /\ Subtract(r.prevRect, whole) # <<>>
        clean == [pane EXCEPT ![w].moved = FALSE, ![w].invalid = FALSE, ![w].invalidRect = Empty,
                              ![w].prevRect = IF r.moved THEN whole ELSE @]
    IN  /\ pass.pc = "windows"
        /\ pass.todo # <<>>
        /\ pass' = [pass EXCEPT !.todo = Tail(@)]
        /\ IF r.moved \/ r.invalid
           THEN /\ back' = Paint(IF uncovered THEN RedrawOthers(back, w, r.prevRect) ELSE back,
                                 rect, w, r.colour)
                /\ pane' = InvalidateAbove(clean, Range(Tail(pass.todo)), rect)
                /\ ahead' = (IF uncovered THEN ahead \cup ShownAhead(w, r.prevRect) ELSE ahead) \ {w}
           ELSE UNCHANGED <<back, pane, ahead>>
        /\ UNCHANGED <<stack, wallpaper, clientRect, pointer, front, torn, ops>>

CursorRect(p) == Fit(RectInit(p.x, p.y, p.x + 1, p.y + 1), ScreenRect)

\* dwm_draw_cursor and dwm_swap
PassEnd ==
    LET b == Paint(back, CursorRect(pointer), Cursor, 0)
    IN  /\ pass.pc = "windows"
        /\ pass.todo = <<>>
        /\ pass' = [pass EXCEPT !.pc = "idle"]
        /\ front' = Swapped(b)
        /\ back' = [b EXCEPT !.invalidRect = Empty]
        /\ ops' = IF ~Dirty THEN 0 ELSE ops
        /\ UNCHANGED <<stack, pane, wallpaper, clientRect, pointer, ahead, torn>>

\* dwm_handle_mouse_message restores what the cursor covered.
PointerMove(p) ==
    LET old == CursorRect(pointer)
        b == Paint(RedrawOthers(back, Cursor, old), CursorRect(p), Cursor, 0)
    IN  /\ pass.pc = "idle"
        /\ p # pointer
        /\ pointer' = p
        /\ front' = Swapped(b)
        /\ back' = [b EXCEPT !.invalidRect = Empty]
        /\ ahead' = ahead \cup ShownAhead(Cursor, old)
        /\ UNCHANGED <<stack, pane, wallpaper, clientRect, pass, torn, ops>>

\* dwm_start, with the wall and the cursor the shell creates first
CompositorInit ==
    LET blank == [p \in Pixel |-> <<Wall, 0>>]
    IN  /\ stack = <<>>
        /\ pane = [w \in Pane |-> NewPane(Empty)]
        /\ wallpaper = [moved |-> TRUE, invalid |-> FALSE, colour |-> 0]
        /\ clientRect = ScreenRect
        /\ pointer = [x |-> 0, y |-> 0]
        /\ back = [pixels |-> blank, invalidRect |-> Empty]
        /\ front = blank
        /\ pass = [pc |-> "idle", todo |-> <<>>]
        /\ ahead = {}
        /\ torn = FALSE
        /\ ops = 0

CompositorNext ==
    \/ \E w \in Pane :
        \/ \E rect \in PaneRect[w] : PaneCreate(w, rect) \/ PaneMove(w, rect)
        \/ PaneRaise(w) \/ PaneClose(w) \/ PaneFlush(w)
    \/ WallFlush \/ PassBegin \/ PassWindow \/ PassEnd
    \/ \E p \in PointerPixel : PointerMove(p)

CompositorSpec == CompositorInit /\ [][CompositorNext]_drawVars

-----------------------------------------------------------------------------
(* Properties *)

Settled == pass.pc = "idle" /\ ~torn /\ ~Dirty

\* What the screen should show at a pixel: the cursor, or the highest of the windows there
Shown(p) ==
    LET there == {i \in DOMAIN stack : ContainsPoint(Fit(pane[stack[i]].rect, FitRect(stack[i])), p)}
        top == CHOOSE i \in there : \A j \in there : j <= i
    IN  CASE p = pointer -> <<Cursor, 0>>
          [] p # pointer /\ there # {} -> <<stack[top], pane[stack[top]].colour>>
          [] OTHER -> <<Wall, wallpaper.colour>>

\* When nothing is left to draw, every pixel shows the cursor, the highest
\* window there or the wall: redrawing only what moved or was invalidated, the
\* way dwm_draw_windows does, leaves nothing of an older picture behind.
\* (Beside a panel, outside of the client rectangle, nobody draws.)
Composed ==
    Settled => \A p \in Pixel :
        ContainsPoint(clientRect, p) \/ Shown(p)[1] # Wall => front[p] = Shown(p)

\* Between passes the screen is the backbuffer: what dwm_swap copies, the one
\* rectangle gfx_invalidate keeps, holds every pixel that was drawn.
SwapComplete == pass.pc = "idle" => front = back.pixels

\* What is on the screen is right: all that was drawn got there, and when nothing
\* is left to draw it is the picture the windows make.
ScreenRight == CompositorTypeOK /\ SwapComplete /\ Composed
=============================================================================
