-------------------------------- MODULE Rect --------------------------------
(***************************************************************************)
(* The rectangles of include/stdlib/_AUX/rect_t.h: left and top inside,    *)
(* right and bottom outside.                                               *)
(***************************************************************************)
EXTENDS Integers, Sequences

RectInit(l, t, r, b) == [left |-> l, top |-> t, right |-> r, bottom |-> b]

Empty == RectInit(0, 0, 0, 0)

Clamp(x, low, high) == IF x > low THEN IF x < high THEN x ELSE high
                       ELSE IF low < high THEN low ELSE high

ContainsPoint(rect, p) ==
    p.x >= rect.left /\ p.x < rect.right /\ p.y >= rect.top /\ p.y < rect.bottom

Overlap(rect, other) ==
    ~(rect.right <= other.left \/ rect.left >= other.right
        \/ rect.bottom <= other.top \/ rect.top >= other.bottom)

Fit(rect, parent) ==
    RectInit(Clamp(rect.left, parent.left, parent.right), Clamp(rect.top, parent.top, parent.bottom),
             Clamp(rect.right, parent.left, parent.right), Clamp(rect.bottom, parent.top, parent.bottom))

\* RECT_SUBTRACT: the parts of rect outside of other
Subtract(rect, other) ==
    IF ~Overlap(rect, other) THEN <<rect>>
    ELSE (IF other.top > rect.top
            THEN <<RectInit(rect.left, rect.top, rect.right, other.top)>> ELSE <<>>) \o
         (IF other.bottom < rect.bottom
            THEN <<RectInit(rect.left, other.bottom, rect.right, rect.bottom)>> ELSE <<>>) \o
         (IF other.left > rect.left
            THEN <<RectInit(rect.left, other.top, other.left, other.bottom)>> ELSE <<>>) \o
         (IF other.right < rect.right
            THEN <<RectInit(other.right, other.top, rect.right, other.bottom)>> ELSE <<>>)
=============================================================================
