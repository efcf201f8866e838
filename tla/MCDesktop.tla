----------------------------- MODULE MCDesktop ------------------------------
(***************************************************************************)
(* Small instances of the window manager and of what feeds it, in one run: *)
(* the manager itself, the event rings, and the interrupt handlers of the  *)
(* mouse and of the keyboard.  A behaviour is one of the part that unit    *)
(* names.                                                                  *)
(***************************************************************************)
EXTENDS Dwm, EventRing, Ps2, TLC

CONSTANTS app, bar, arrow, paper

VARIABLE unit

vars == <<unit, dwmVars, ringVars, mouseVars, kbdVars>>

\* One window of each type
MCTypeOf == (app :> "window") @@ (bar :> "panel") @@ (arrow :> "cursor") @@ (paper :> "wall")

\* Buttons in different places, and both signs and both ends of a movement
Moved(l, r, m, x, y) == [left |-> l, right |-> r, middle |-> m, x |-> x, y |-> y]
MCMotion == {Moved(TRUE, FALSE, FALSE, -1, 255), Moved(FALSE, TRUE, TRUE, 255, -256)}

\* Both shift keys, both control keys (the right one is extended), and a letter
MCKey == [code: {42, 54, 29, 30}, extended: {FALSE}] \cup [code: {29}, extended: {TRUE}]

Init ==
    /\ unit \in {"dwm", "ring", "mouse", "kbd"} /\ DwmInit /\ RingInit /\ Ps2Init
    /\ unit # "ring" => kind = "msg"

Next ==
    /\ UNCHANGED unit
    /\ \/ unit = "dwm" /\ DwmNext /\ UNCHANGED <<ringVars, mouseVars, kbdVars>>
       \/ unit = "ring" /\ RingNext /\ UNCHANGED <<dwmVars, mouseVars, kbdVars>>
       \/ unit = "mouse" /\ MouseNext /\ UNCHANGED <<dwmVars, ringVars, kbdVars>>
       \/ unit = "kbd" /\ KbdNext /\ UNCHANGED <<dwmVars, ringVars, mouseVars>>

\* The thread runs on, and a client that holds the lock of its window does; the
\* ticket lock serves the thread (Served of module Lock).
DwmFairness ==
    /\ WF_dwmVars(unit = "dwm" /\ DwmStep)
    /\ SF_dwmVars(unit = "dwm" /\ DrawWall)
    /\ SF_dwmVars(unit = "dwm" /\ DrawWindow)
    /\ \A x \in Win :
        /\ WF_dwmVars(unit = "dwm" /\ FlushRequest(x))
        /\ WF_dwmVars(unit = "dwm" /\ MoveRequest(x))

Spec == Init /\ [][Next]_vars /\ DwmFairness
=============================================================================
