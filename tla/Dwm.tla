-------------------------------- MODULE Dwm ---------------------------------
(***************************************************************************)
(* The desktop window manager: src/kernel/dwm/dwm.c and window.c.  Which   *)
(* windows exist, and what has to be drawn when.                           *)
(*                                                                         *)
(* The lock of the manager is held through a whole drawing pass; a window  *)
(* has a lock of its own, which is all that flush and move take.  Where    *)
(* windows are and what they show is module Compositor; here it is any     *)
(* choice: the window under the mouse, the windows above that overlap.     *)
(* The messages to the windows are module Focus.                           *)
(***************************************************************************)
EXTENDS Sequences, SequencesExt, FiniteSets

CONSTANTS
    Win,            \* windows, one file each
    TypeOf,         \* dwm_type_t of each
    NULL

ASSUME DwmAssumption ==
    /\ TypeOf \in [Win -> {"window", "panel", "cursor", "wall"}]
    /\ IsFiniteSet(Win) /\ NULL \notin Win

VARIABLES
    windows,        \* the list, from the lowest to the highest
    selected, cursor, wall,
    win,            \* window_t, and where its client is
    dwm,            \* the thread of dwm_loop; it holds the lock while it draws
    redrawNeeded,
    unasked         \* windows were marked without a request to redraw

dwmVars == <<windows, selected, cursor, wall, win, dwm, redrawNeeded, unasked>>

\* "none": no window; "live"; "flushing", "moving":
\* the flag is set, the lock of the window held; "moved": inside the move of a
\* panel, no lock held; "closing": inside window_cleanup
WinRecord == [
    life: {"none", "live", "flushing", "moving", "moved", "closing"},
    moved: BOOLEAN,
    invalid: BOOLEAN]

NoWindow == [life |-> "none", moved |-> FALSE, invalid |-> FALSE]

DwmTypeOK ==
    /\ windows \in BoundedSeq(Win, Cardinality(Win))
    /\ {selected, cursor, wall} \subseteq Win \cup {NULL}
    /\ win \in [Win -> WinRecord]
    /\ dwm \in [pc: {"draw", "windows", "poll", "block", "input", "fault"},
                todo: BoundedSeq(Win, Cardinality(Win))]
    /\ redrawNeeded \in BOOLEAN /\ unasked \in BOOLEAN

\* The lock of the manager is free.
Unlocked == dwm.pc # "windows"

-----------------------------------------------------------------------------
(* Selection and marks *)

\* dwm_select moves the window to the end of the list
Raise(list, w) == IF w \in {selected, NULL} THEN list ELSE Append(RemoveFirst(list, w), w)

\* and marks it.
Select(ws, w) == IF w \in {selected, NULL} THEN ws ELSE [ws EXCEPT ![w].moved = TRUE]

\* dwm_update_client_rect_unlocked
MarkMoved(ws, list) ==
    [x \in Win |-> IF x \in Range(list) THEN [ws[x] EXCEPT !.moved = TRUE] ELSE ws[x]]

-----------------------------------------------------------------------------
(* dwm_ioctl *)

Listed(w) == TypeOf[w] \in {"window", "panel"}

\* IOCTL_DWM_CREATE of a window or a panel
CreateListed(w) ==
    LET new == [win EXCEPT ![w] = [NoWindow EXCEPT !.life = "live", !.moved = TRUE]]
        list == Append(windows, w)
    IN  /\ win[w].life = "none" /\ Unlocked
        /\ Listed(w)
        /\ windows' = Raise(list, w)
        /\ win' = Select(IF TypeOf[w] = "panel" THEN MarkMoved(new, list) ELSE new, w)
        /\ selected' = w
        /\ redrawNeeded' = TRUE
        /\ UNCHANGED <<cursor, wall, dwm, unasked>>

\* of the cursor and of the wall; a second one is refused: EEXIST
CreateCursor(w) ==
    /\ win[w].life = "none" /\ Unlocked
    /\ TypeOf[w] = "cursor" /\ cursor = NULL
    /\ cursor' = w
    /\ win' = [win EXCEPT ![w] = [NoWindow EXCEPT !.life = "live", !.moved = TRUE]]
    /\ redrawNeeded' = TRUE
    /\ UNCHANGED <<windows, selected, wall, dwm, unasked>>

CreateWall(w) ==
    /\ win[w].life = "none" /\ Unlocked
    /\ TypeOf[w] = "wall" /\ wall = NULL
    /\ wall' = w
    /\ win' = [win EXCEPT ![w] = [NoWindow EXCEPT !.life = "live", !.moved = TRUE]]
    /\ redrawNeeded' = TRUE
    /\ UNCHANGED <<windows, selected, cursor, dwm, unasked>>

-----------------------------------------------------------------------------
(* window_flush, window_ioctl, window_cleanup *)

\* The flags of the cursor are never read: its client only asks for a redraw.
CursorRequest(w) ==
    /\ win[w].life = "live" /\ TypeOf[w] = "cursor"
    /\ redrawNeeded' = TRUE
    /\ UNCHANGED <<windows, selected, cursor, wall, win, dwm, unasked>>

\* The flag is set first, the request comes after it.
Flush(w) ==
    /\ win[w].life = "live" /\ TypeOf[w] # "cursor"
    /\ win' = [win EXCEPT ![w].life = "flushing", ![w].invalid = TRUE]
    /\ UNCHANGED <<windows, selected, cursor, wall, dwm, redrawNeeded, unasked>>

\* Mutant: a flush does not ask for a redraw.
FlushRequestNot(w) ==
    /\ win[w].life = "flushing"
    /\ win' = [win EXCEPT ![w].life = "live"]
    /\ UNCHANGED <<windows, selected, cursor, wall, dwm, redrawNeeded, unasked>>

FlushRequest(w) ==
    /\ win[w].life = "flushing"
    /\ redrawNeeded' = TRUE
    /\ win' = [win EXCEPT ![w].life = "live"]
    /\ UNCHANGED <<windows, selected, cursor, wall, dwm, unasked>>

\* IOCTL_WINDOW_MOVE
Move(w) ==
    /\ win[w].life = "live" /\ TypeOf[w] # "cursor"
    /\ win' = [win EXCEPT ![w].life = "moving", ![w].moved = TRUE]
    /\ UNCHANGED <<windows, selected, cursor, wall, dwm, redrawNeeded, unasked>>

MoveRequest(w) ==
    /\ win[w].life = "moving"
    /\ redrawNeeded' = TRUE
    /\ win' = [win EXCEPT ![w].life = IF TypeOf[w] = "panel" THEN "moved" ELSE "live"]
    /\ UNCHANGED <<windows, selected, cursor, wall, dwm, unasked>>

\* dwm_update_client_rect marks every window and asks for nothing.
UpdateClientRect(w) ==
    /\ win[w].life = "moved" /\ Unlocked
    /\ win' = MarkMoved([win EXCEPT ![w].life = "live"], windows)
    /\ unasked' = TRUE
    /\ UNCHANGED <<windows, selected, cursor, wall, dwm, redrawNeeded>>

\* Mutant: the selection outlives the window.
CleanupKeepsSelected(w) ==
    /\ win[w].life = "live" /\ Unlocked
    /\ windows' = RemoveFirst(windows, w)
    /\ cursor' = IF cursor = w THEN NULL ELSE cursor
    /\ wall' = IF wall = w THEN NULL ELSE wall
    /\ LET rest == [win EXCEPT ![w].life = "closing"]
       IN  win' = [x \in Win |->
                    IF x = wall' THEN [rest[x] EXCEPT !.moved = TRUE] ELSE rest[x]]
    /\ redrawNeeded' = TRUE
    /\ UNCHANGED <<selected, dwm, unasked>>

\* dwm_window_cleanup
Cleanup(w) ==
    /\ win[w].life = "live" /\ Unlocked
    /\ selected' = IF selected = w THEN NULL ELSE selected
    /\ windows' = RemoveFirst(windows, w)
    /\ cursor' = IF cursor = w THEN NULL ELSE cursor
    /\ wall' = IF wall = w THEN NULL ELSE wall
    /\ LET closing == [win EXCEPT ![w].life = "closing"]
           rest == IF TypeOf[w] = "panel" THEN MarkMoved(closing, windows') ELSE closing
       IN  win' = [x \in Win |->
                    IF x = wall' THEN [rest[x] EXCEPT !.moved = TRUE] ELSE rest[x]]
    /\ redrawNeeded' = TRUE
    /\ UNCHANGED <<dwm, unasked>>

\* window_free
Free(w) ==
    /\ win[w].life = "closing"
    /\ win' = [win EXCEPT ![w] = NoWindow]
    /\ UNCHANGED <<windows, selected, cursor, wall, dwm, redrawNeeded, unasked>>

-----------------------------------------------------------------------------
(* dwm_loop *)

\* Nobody holds the lock of the window.
WinUnlocked(w) == win[w].life \notin {"flushing", "moving"}

\* dwm_draw_wall.  It waits for the lock of each window it marks, but what a
\* client still does under that lock leaves the mark alone.
DrawWall ==
    /\ dwm.pc = "draw"
    /\ wall # NULL
    /\ WinUnlocked(wall)
    /\ LET drawn == [win EXCEPT ![wall].moved = FALSE, ![wall].invalid = FALSE]
           dirty == win[wall].moved \/ win[wall].invalid
       IN  win' = IF dirty THEN MarkMoved(drawn, windows) ELSE win
    /\ dwm' = [dwm EXCEPT !.pc = "windows", !.todo = windows]
    /\ unasked' = FALSE
    /\ UNCHANGED <<windows, selected, cursor, wall, redrawNeeded>>

DrawNothing ==
    /\ dwm.pc = "draw"
    /\ wall = NULL
    /\ dwm' = [dwm EXCEPT !.pc = "poll"]
    /\ UNCHANGED <<windows, selected, cursor, wall, win, redrawNeeded, unasked>>

\* The windows dwm_invalidate_above may find
Above == Range(Tail(dwm.todo))

\* One window of dwm_draw_windows
DrawWindow ==
    LET w == Head(dwm.todo)
    IN  /\ dwm.pc = "windows"
        /\ dwm.todo # <<>>
        /\ WinUnlocked(w)
        /\ dwm' = [dwm EXCEPT !.todo = Tail(@)]
        /\ IF win[w].moved \/ win[w].invalid
           THEN \E above \in SUBSET Above :
                win' = [x \in Win |->
                    CASE x = w -> [win[x] EXCEPT !.moved = FALSE, !.invalid = FALSE]
                      [] x \in above -> [win[x] EXCEPT !.invalid = TRUE]
                      [] OTHER -> win[x]]
           ELSE UNCHANGED win
        /\ UNCHANGED <<windows, selected, cursor, wall, redrawNeeded, unasked>>

\* dwm_draw_cursor, dwm_swap
DrawEnd ==
    /\ dwm.pc = "windows"
    /\ dwm.todo = <<>>
    /\ dwm' = [dwm EXCEPT !.pc = "poll"]
    /\ UNCHANGED <<windows, selected, cursor, wall, win, redrawNeeded, unasked>>

\* Mutant: a request that came in while the thread was drawing is dropped.
PollForgets ==
    /\ dwm.pc = "poll"
    /\ redrawNeeded' = FALSE
    /\ dwm' = [dwm EXCEPT !.pc = "block"]
    /\ UNCHANGED <<windows, selected, cursor, wall, win, unasked>>

\* The exchange in the condition of dwm_poll
Poll ==
    /\ dwm.pc = "poll"
    /\ redrawNeeded' = FALSE
    /\ dwm' = [dwm EXCEPT !.pc = IF redrawNeeded THEN "draw" ELSE "block"]
    /\ UNCHANGED <<windows, selected, cursor, wall, win, unasked>>

\* sched_block returns after a 256th of a second at the latest.
Wake ==
    /\ dwm.pc = "block"
    /\ dwm' = [dwm EXCEPT !.pc = "input"]
    /\ UNCHANGED <<windows, selected, cursor, wall, win, redrawNeeded, unasked>>

\* dwm_handle_mouse_message: a button goes down over w or not, the mouse moved
\* or not.  A move redraws from the wall, unchecked.
Mouse(press, moved, w) ==
    /\ dwm.pc = "input"
    /\ cursor # NULL
    /\ IF moved /\ wall = NULL
       THEN /\ dwm' = [dwm EXCEPT !.pc = "fault"]
            /\ UNCHANGED <<windows, selected, win, redrawNeeded>>
       ELSE /\ dwm' = [dwm EXCEPT !.pc = "poll"]
            /\ windows' = IF press THEN Raise(windows, w) ELSE windows
            /\ selected' = IF press THEN w ELSE selected
            /\ win' = IF press THEN Select(win, w) ELSE win
            /\ redrawNeeded' = (redrawNeeded \/ (press /\ w \notin {selected, NULL}))
    /\ UNCHANGED <<cursor, wall, unasked>>

NoInput ==
    /\ dwm.pc = "input"
    /\ dwm' = [dwm EXCEPT !.pc = "poll"]
    /\ UNCHANGED <<windows, selected, cursor, wall, win, redrawNeeded, unasked>>

-----------------------------------------------------------------------------
DwmInit ==
    /\ windows = <<>>
    /\ selected = NULL /\ cursor = NULL /\ wall = NULL
    /\ win = [w \in Win |-> NoWindow]
    /\ dwm = [pc |-> "draw", todo |-> <<>>]
    /\ redrawNeeded = TRUE /\ unasked = FALSE

DwmStep ==
    DrawWall \/ DrawNothing \/ DrawWindow \/ DrawEnd \/ Poll \/ Wake \/ NoInput

DwmNext ==
    \/ DwmStep
    \/ \E press, moved \in BOOLEAN, w \in Range(windows) \cup {NULL} : Mouse(press, moved, w)
    \/ \E w \in Win :
        \/ CreateListed(w) \/ CreateCursor(w) \/ CreateWall(w)
        \/ CursorRequest(w) \/ Flush(w) \/ FlushRequest(w) \/ Move(w) \/ MoveRequest(w) \/ UpdateClientRect(w)
        \/ Cleanup(w) \/ Free(w)

DwmSpec == DwmInit /\ [][DwmNext]_dwmVars

-----------------------------------------------------------------------------
(* Properties *)

(***************************************************************************)
(* Nothing the thread reaches has been freed: the list, the selection, the *)
(* cursor and the wall name living windows only, also while a pass is on   *)
(* (dwm_window_cleanup unlinks under the lock, window_free comes after).   *)
(***************************************************************************)
NoDangling ==
    /\ DwmTypeOK
    /\ \A w \in Win : w \in Range(windows) \cup Range(dwm.todo) \cup {selected, cursor, wall} =>
            win[w].life \notin {"none", "closing"}

(***************************************************************************)
(* When the thread goes to sleep with no request pending, nothing is left  *)
(* to draw: no flag set during a pass is overlooked, whichever windows     *)
(* were already behind it.  The move of a panel is the exception:          *)
(* dwm_update_client_rect marks windows and requests nothing.              *)
(***************************************************************************)
NothingLeftToDraw ==
    dwm.pc \in {"block", "input"} /\ ~redrawNeeded /\ ~unasked /\ wall # NULL =>
        \A w \in Range(windows) \cup {wall} :
            WinUnlocked(w) => ~win[w].moved /\ ~win[w].invalid

(***************************************************************************)
(* What a client has flushed is drawn, unless the window or the wall is    *)
(* closed before, however busy the other clients are.                      *)
(***************************************************************************)
FlushShown ==
    \A w \in Win :
        (w \in Range(windows) /\ win[w].invalid /\ wall # NULL)
            ~> (~win[w].invalid \/ w \notin Range(windows) \/ wall = NULL \/ dwm.pc = "fault")
=============================================================================
