------------------------------ MODULE Searches ------------------------------
(***************************************************************************)
(* Two algorithms on their own, called with every argument there is on a   *)
(* small scale: RECT_SUBTRACT of rect_t.h, and page_bitmap_alloc's search  *)
(* for aligned pages in pmm.c.                                             *)
(***************************************************************************)
EXTENDS Rect, Pmm

CONSTANTS
    Side,           \* width and height of the plane the rectangles lie in
    Count, Align    \* pages asked for, and their alignment in pages

ASSUME SearchesAssumption == Side \in Nat /\ Count \subseteq Nat \ {0} /\ Align \subseteq Nat \ {0}

VARIABLE call       \* the last call: the function, its arguments and its result

NoCall == [of |-> "none"]

SearchesTypeOK == call.of \in {"none", "RECT_SUBTRACT", "page_bitmap_alloc"}

RectArg == {RectInit(l, t, r, b) : l \in 0 .. Side, t \in 0 .. Side, r \in 0 .. Side, b \in 0 .. Side}
Solid(rect) == rect.left < rect.right /\ rect.top < rect.bottom

RectSubtract(rect, other) ==
    /\ call = NoCall
    /\ call' = [of |-> "RECT_SUBTRACT", rect |-> rect, other |-> other, result |-> Subtract(rect, other)]

\* Every set of reserved pages; firstFreeIndex is 0 from page_bitmap_init on.
PageBitmapAlloc(reserved, count, max, align) ==
    LET m == [FullBitmap EXCEPT !.reserved = reserved]
    IN  /\ call = NoCall
        /\ call' = [of |-> "page_bitmap_alloc", bitmap |-> m, count |-> count, max |-> max,
                    align |-> align, result |-> BitmapFind(m, count, max, align)]

SearchesInit == call = NoCall

SearchReturn == call # NoCall /\ call' = NoCall

SearchesNext ==
    \/ SearchReturn
    \/ \E rect, other \in {r \in RectArg : Solid(r)} : RectSubtract(rect, other)
    \/ \E reserved \in SUBSET LowPage, count \in Count, max \in 0 .. LowAmount, align \in Align :
            PageBitmapAlloc(reserved, count, max, align)

SearchesSpec == SearchesInit /\ [][SearchesNext]_call

-----------------------------------------------------------------------------
(* Properties *)

Plane == [x: 0 .. Side - 1, y: 0 .. Side - 1]
In(rect) == {p \in Plane : ContainsPoint(rect, p)}

\* RECT_SUBTRACT leaves out nothing of the rectangle that the other one does not
\* cover, returns no point of the other one and no point twice; that it returns
\* nothing exactly when the other one covers all is what dwm_draw_windows uses.
SubtractExact == call.of = "RECT_SUBTRACT" =>
    LET parts == call.result
        left == In(call.rect) \ In(call.other)
    IN  /\ left \subseteq UNION {In(parts[i]) : i \in DOMAIN parts}
        /\ \A i \in DOMAIN parts :
            /\ In(parts[i]) \cap In(call.other) = {}
            /\ \A j \in DOMAIN parts : i # j => In(parts[i]) \cap In(parts[j]) = {}
        /\ parts = <<>> <=> left = {}

Fits(i, c) == /\ i % c.align = 0 /\ i + c.count < c.max
              /\ (i .. i + c.count - 1) \cap c.bitmap.reserved = {}

\* page_bitmap_alloc returns the lowest aligned block of free pages below the
\* limit whenever there is one, skipping nothing.  (A block that ends exactly at the
\* limit is not seen.)
BitmapFindsLowest == call.of = "page_bitmap_alloc" =>
    LET found == {i \in LowPage : Fits(i, call)}
    IN  IF found = {} THEN call.result = NoPage
        ELSE call.result \in found /\ \A i \in found : call.result <= i

\* A call returns what the reference definition of its function says.
ResultsExact == SearchesTypeOK /\ SubtractExact /\ BitmapFindsLowest
=============================================================================
