----------------------------- MODULE MCPrograms -----------------------------
(***************************************************************************)
(* Small instances of what programs run on, in one run: the messages and   *)
(* the pictures of their windows, the loop of the window library, and      *)
(* time.  A behaviour is one of the part that unit names.                  *)
(***************************************************************************)
EXTENDS Focus, Compositor, Win, Time, TLC

CONSTANTS lower, upper, bar

VARIABLE unit

\* No action of Focus names a window.
Symmetry == Permutations(Window)

vars == <<unit, focusVars, drawVars, winVars, timeVars>>

\* A panel below two windows that overlap each other and it; one of them may be
\* moved aside
MCPaneRect == [x \in Pane |-> CASE x = bar -> {RectInit(0, 1, 3, 2)}
                                [] x = lower -> {RectInit(0, 0, 2, 1), RectInit(1, 0, 3, 2)}
                                [] x = upper -> {RectInit(1, 0, 3, 2)}]
MCPointer == {[x |-> 0, y |-> 0], [x |-> 1, y |-> 1]}

Init ==
    /\ unit \in {"focus", "draw", "win", "time"}
    /\ FocusInit /\ CompositorInit /\ WinInit /\ TimeInit

Next ==
    /\ UNCHANGED unit
    /\ \/ unit = "focus" /\ FocusNext /\ UNCHANGED <<drawVars, winVars, timeVars>>
       \/ unit = "draw" /\ CompositorNext /\ UNCHANGED <<focusVars, winVars, timeVars>>
       \/ unit = "win" /\ WinNext /\ UNCHANGED <<focusVars, drawVars, timeVars>>
       \/ unit = "time" /\ TimeNext /\ UNCHANGED <<focusVars, drawVars, winVars>>

Spec == Init /\ [][Next]_vars
=============================================================================
