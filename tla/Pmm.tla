-------------------------------- MODULE Pmm --------------------------------
(***************************************************************************)
(* The physical page allocator of src/kernel/pmm.c: a stack of the free    *)
(* pages above PMM_MAX_SPECIAL_ADDR, and a bitmap of the pages below.      *)
(*                                                                         *)
(* The stack keeps its entries in free pages: a page_buffer_t is a free    *)
(* page that holds a pointer to the previous buffer and up to              *)
(* PAGE_BUFFER_MAX other free pages.  Every function runs under one lock,  *)
(* so each is an operator from a state of the allocator to the next.       *)
(***************************************************************************)
EXTENDS Integers, Sequences, FiniteSets, SequencesExt

CONSTANTS
    HighPage,           \* pages above PMM_MAX_SPECIAL_ADDR
    LowAmount,          \* PMM_MAX_SPECIAL_ADDR / PAGE_SIZE
    PAGE_BUFFER_MAX,
    NoPage              \* NULL

LowPage == 0 .. LowAmount - 1
Page == HighPage \cup LowPage

ASSUME PageAssumption == LowAmount \in Nat \ {0} /\ HighPage \cap Nat = {} /\ IsFiniteSet(HighPage)
ASSUME BufferAssumption == PAGE_BUFFER_MAX \in Nat \ {0, 1}
ASSUME PmmNoneAssumption == NoPage \notin Page

-----------------------------------------------------------------------------
(* The page stack *)

\* "last" of page_stack_t is the end of buffers, "prev" the order of the
\* sequence.  The entries of the last buffer above "index" are dead.
Buffer == [page: HighPage, pages: Seq(HighPage)]

Stack == [buffers: Seq(Buffer), index: 0 .. PAGE_BUFFER_MAX]

EmptyStack == [buffers |-> <<>>, index |-> 0]

\* page_stack_alloc.  The page is NoPage when it returns NULL.  It is "fault"
\* when it reads through stack.last = NULL: the page of the last buffer was
\* handed out and the index left at PAGE_BUFFER_MAX - 1.
StackAlloc(s) ==
    LET b == Last(s.buffers)
        Cut(c) == [c EXCEPT !.pages = SubSeq(@, 1, PAGE_BUFFER_MAX - 1)]
        previous == Front(s.buffers)
        n == Len(previous)
    IN  CASE s.index = 0 /\ s.buffers = <<>> -> [page |-> NoPage, stack |-> s]
          [] s.index = 0 /\ s.buffers # <<>> ->
                [page |-> b.page,
                 stack |-> [buffers |-> IF n = 0 THEN <<>> ELSE [previous EXCEPT ![n] = Cut(@)],
                            index |-> PAGE_BUFFER_MAX - 1]]
          [] s.index # 0 /\ s.buffers = <<>> -> [page |-> "fault", stack |-> s]
          [] s.index # 0 /\ s.buffers # <<>> ->
                [page |-> b.pages[s.index],
                 stack |-> [buffers |-> Append(Front(s.buffers),
                                               [b EXCEPT !.pages = Front(@)]),
                            index |-> s.index - 1]]

\* page_stack_free
StackFree(s, p) ==
    IF s.buffers = <<>> \/ s.index = PAGE_BUFFER_MAX
    THEN [buffers |-> Append(s.buffers, [page |-> p, pages |-> <<>>]), index |-> 0]
    ELSE [buffers |-> [s.buffers EXCEPT ![Len(s.buffers)].pages = Append(@, p)],
          index |-> s.index + 1]

-----------------------------------------------------------------------------
(* The bitmap *)

Bitmap == [reserved: SUBSET LowPage, firstFreeIndex: 0 .. LowAmount]

\* page_bitmap_init
FullBitmap == [reserved |-> LowPage, firstFreeIndex |-> 0]

BitmapFree(m, i) == [
    reserved |-> m.reserved \ {i},
    firstFreeIndex |-> IF i < m.firstFreeIndex THEN i ELSE m.firstFreeIndex]

\* Mutant: not rounded.
RoundUpNot(n, a) == n

RoundUp(n, a) == ((n + a - 1) \div a) * a

\* The search of page_bitmap_alloc: the first page of a block of "count" free
\* pages below page "max", or NoPage.  "stop" is where the inner loop ends.
BitmapFind(m, count, max, align) ==
    LET Stops(i) == {j \in i + 1 .. max : j = max \/ j - i = count \/ j \in m.reserved}
        stop(i) == CHOOSE j \in Stops(i) : \A k \in Stops(i) : j <= k
        search[i \in 0 .. max + align] ==
            IF i >= max THEN NoPage
            ELSE IF i \in m.reserved THEN search[i + align]
            ELSE IF stop(i) < max /\ stop(i) - i = count THEN i
            ELSE search[RoundUp(stop(i), align)]
    IN  search[m.firstFreeIndex]

BitmapReserve(m, low, high) == [m EXCEPT !.reserved = @ \cup (low .. high - 1)]

-----------------------------------------------------------------------------
(* pmm_free: the address says which of the two a page belongs to *)

Pmm == [stack: Stack, bitmap: Bitmap]

PmmFree(m, p) ==
    IF p \in HighPage THEN [m EXCEPT !.stack = StackFree(@, p)]
    ELSE [m EXCEPT !.bitmap = BitmapFree(@, p)]

PmmAlloc(m) ==
    LET r == StackAlloc(m.stack)
    IN  [page |-> r.page, pmm |-> [m EXCEPT !.stack = r.stack]]

\* Places in the allocator where a page is recorded as free, with the page
FreePlaces(m) ==
    LET bs == m.stack.buffers
    IN  {<<"buffer", i, 0, bs[i].page>> : i \in 1 .. Len(bs)}
        \cup (UNION {{<<"entry", i, j, bs[i].pages[j]>> : j \in 1 .. Len(bs[i].pages)} : i \in 1 .. Len(bs)})
        \cup {<<"bitmap", 0, 0, i>> : i \in LowPage \ m.bitmap.reserved}
=============================================================================
