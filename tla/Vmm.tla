-------------------------------- MODULE Vmm --------------------------------
(***************************************************************************)
(* Address spaces: src/kernel/vmm.c, space.c and the page tables of pml.c, *)
(* over the page allocator.                                                *)
(*                                                                         *)
(* The four levels of a page table are reduced to two: a root and tables   *)
(* of TableSpan entries each.  An operation on a space runs under the lock *)
(* of the space, but takes and frees its pages one at a time under the     *)
(* lock of the allocator, so operations on different spaces interleave     *)
(* page by page.                                                           *)
(***************************************************************************)
EXTENDS Pmm

CONSTANTS
    Space,          \* process_t slots
    VirtAmount,     \* bound: virtual pages of the lower half
    TableSpan,      \* PAGE_ENTRY_AMOUNT
    FirstFree,      \* the page of address 0x400000
    Lengths,        \* lengths in pages, as passed to the functions
    KernelMax,      \* bound on the pages the kernel holds for itself
    LowAvail, HighAvail, \* pages of available memory in the memory map
    LoaderData,     \* pages of type EFI_LOADER_DATA
    Device          \* memory that the allocator does not manage

ASSUME MemoryMapAssumption ==
    LowAvail \subseteq LowPage /\ HighAvail \subseteq HighPage /\ LoaderData \subseteq HighPage \ HighAvail
ASSUME VirtAssumption ==
    VirtAmount \in Nat \ {0} /\ TableSpan \in Nat \ {0} /\ FirstFree \in 0 .. VirtAmount /\ Lengths \subseteq Nat \ {0}
ASSUME DeviceAssumption == Device \notin Page \cup {NoPage}

VARIABLES
    pmm,        \* the allocator
    space,      \* space_t with its page table, and the operation in progress
    kernel,     \* pages the kernel uses itself: simd contexts, ring buffers, its heap
    kernelPml,  \* root and first table of the kernel's own space
    memoryMap,  \* pages of the memory map not given to the allocator yet
    panic       \* "no more memory", or "fault" for a read through NULL

vmmVars == <<pmm, space, kernel, kernelPml, memoryMap, panic>>

Virt == 0 .. VirtAmount - 1
TableOf(v) == v \div TableSpan
Table == {TableOf(v) : v \in Virt}

\* An entry of a table: a page, or memory that the allocator does not know
Entry == [page: HighPage \cup {NoPage, Device}, owned: BOOLEAN]

NoEntry == [page |-> NoPage, owned |-> FALSE]

SpaceRecord == [
    pml: HighPage \cup {NoPage},        \* the root; NoPage: the space does not exist
    upper: HighPage \cup {NoPage},      \* the kernel half, shared with kernelPml
    tables: [Table -> HighPage \cup {NoPage}],
    entries: [Virt -> Entry],
    freeAddress: 0 .. VirtAmount,
    op: {"none", "map", "unmap", "cleanup"},    \* who holds space->lock
    hand: HighPage \cup {NoPage},       \* the result of pmm_alloc in vmm_alloc
    owned: BOOLEAN,                     \* PAGE_OWNED in the flags of a "map"
    at: 0 .. VirtAmount,
    end: 0 .. VirtAmount]

NoSpace == [pml |-> NoPage, upper |-> NoPage, tables |-> [t \in Table |-> NoPage],
            entries |-> [v \in Virt |-> NoEntry], freeAddress |-> 0,
            op |-> "none", hand |-> NoPage, owned |-> FALSE, at |-> 0, end |-> 0]

VmmTypeOK ==
    /\ pmm \in Pmm
    /\ space \in [Space -> SpaceRecord]
    /\ kernel \subseteq HighPage
    /\ kernelPml \in [pml: LowPage \cup {NoPage}, table: HighPage \cup {NoPage}]
    /\ memoryMap \subseteq Page
    /\ panic \in {"none", "no more memory", "fault"}

-----------------------------------------------------------------------------
(* Helpers *)

Idle(s) == space[s].pml # NoPage /\ space[s].op = "none"

\* pml_mapped: every page of the region is present
PmlMapped(s, v, n) == \A i \in v .. v + n - 1 : space[s].entries[i].page # NoPage

\* What a pmm_alloc that returned page p leads to
AllocPanic(p) == CASE p = NoPage -> "no more memory"
                   [] p = "fault" -> "fault"
                   [] OTHER -> "none"

\* pmm_alloc, on allocator m, returns page p to the caller
TakesFrom(m, p) ==
    LET r == PmmAlloc(m)
    IN  panic = "none" /\ AllocPanic(r.page) = "none" /\ p = r.page /\ pmm' = r.pmm /\ UNCHANGED panic

Takes(p) == TakesFrom(pmm, p)

\* Before pml_map can write the next entry, vmm_alloc needs the page for it, and
\* pml_get_or_allocate may need a table.
NeedsPage(s) ==
    /\ space[s].op = "map"
    /\ space[s].at < space[s].end
    /\ \/ space[s].owned /\ space[s].hand = NoPage
       \/ space[s].tables[TableOf(space[s].at)] = NoPage

-----------------------------------------------------------------------------
(* Boot, on one CPU: pmm_init, then vmm_init *)

\* pmm_load_memory, page by page and in any order
PmmLoadMemory(p) ==
    /\ panic = "none"
    /\ kernelPml.pml = NoPage
    /\ p \in memoryMap \ LoaderData
    /\ pmm' = PmmFree(pmm, p)
    /\ memoryMap' = memoryMap \ {p}
    /\ UNCHANGED <<space, kernel, kernelPml, panic>>

\* pmm_init has returned
Loaded == memoryMap \subseteq LoaderData

\* vmm_load_memory_map: the root comes from pmm_alloc_special, which panics when
\* there is none, and the first table from pml_map.
VmmLoadMemoryMap(root, p) ==
    /\ kernelPml.pml = NoPage
    /\ Loaded
    /\ root = BitmapFind(pmm.bitmap, 1, LowAmount, 1)
    /\ TakesFrom([pmm EXCEPT !.bitmap = BitmapReserve(@, root, root + 1)], p)
    /\ kernelPml' = [pml |-> root, table |-> p]
    /\ UNCHANGED <<space, kernel, memoryMap>>

-----------------------------------------------------------------------------
(* Operations *)

\* space_init of a new process
SpaceInit(s, p) ==
    /\ kernelPml.pml # NoPage
    /\ space[s].pml = NoPage
    /\ Takes(p)
    /\ space' = [space EXCEPT ![s].pml = p, ![s].upper = kernelPml.table, ![s].freeAddress = FirstFree]
    /\ UNCHANGED <<kernel, kernelPml, memoryMap>>

\* The loop of vmm_find_free_region: regions of n pages from freeAddress on
IsFreeRegion(s, v, n) ==
    LET region(k) == space[s].freeAddress + k * n
    IN  \E k \in 0 .. VirtAmount : /\ v = region(k)
                                  /\ v + n <= VirtAmount
                                  /\ ~PmlMapped(s, v, n)
                                  /\ \A j \in 0 .. k - 1 : PmlMapped(s, region(j), n)

\* The loop over the pages of a region ends, and the lock is released.
Continue(r) ==
    IF r.at < r.end THEN r ELSE [r EXCEPT !.op = "none", !.owned = FALSE, !.at = 0, !.end = 0]

BeginMap(s, v, n, owned) ==
    [space[s] EXCEPT !.op = "map", !.owned = owned, !.at = v, !.end = v + n]

\* vmm_alloc and vmm_map at a given address, up to their loop
VmmAllocAt(s, v, n, owned) ==
    /\ panic = "none"
    /\ Idle(s)
    /\ v + n <= VirtAmount
    /\ ~PmlMapped(s, v, n)
    /\ space' = [space EXCEPT ![s] = BeginMap(s, v, n, owned)]
    /\ UNCHANGED <<pmm, kernel, kernelPml, memoryMap, panic>>

\* The same with a NULL address
VmmAllocAnywhere(s, v, n, owned) ==
    /\ panic = "none"
    /\ Idle(s)
    /\ IsFreeRegion(s, v, n)
    /\ space' = [space EXCEPT ![s] = [BeginMap(s, v, n, owned) EXCEPT !.freeAddress = v + n]]
    /\ UNCHANGED <<pmm, kernel, kernelPml, memoryMap, panic>>

\* vmm_alloc: the page for the next entry
MapTakePage(s, p) ==
    /\ NeedsPage(s)
    /\ space[s].owned /\ space[s].hand = NoPage
    /\ Takes(p)
    /\ space' = [space EXCEPT ![s].hand = p]
    /\ UNCHANGED <<kernel, kernelPml, memoryMap>>

\* pml_get_or_allocate
MapTakeTable(s, p) ==
    /\ NeedsPage(s)
    /\ space[s].owned => space[s].hand # NoPage
    /\ Takes(p)
    /\ space' = [space EXCEPT ![s].tables[TableOf(space[s].at)] = p]
    /\ UNCHANGED <<kernel, kernelPml, memoryMap>>

\* pml_map: the entry is written, whatever it was
MapEntry(s) ==
    /\ panic = "none"
    /\ space[s].op = "map"
    /\ ~NeedsPage(s)
    /\ LET e == IF space[s].owned THEN [page |-> space[s].hand, owned |-> TRUE]
                ELSE [page |-> Device, owned |-> FALSE]
           r == [space[s] EXCEPT !.entries[space[s].at] = e, !.hand = NoPage, !.at = @ + 1]
       IN  space' = [space EXCEPT ![s] = Continue(r)]
    /\ UNCHANGED <<pmm, kernel, kernelPml, memoryMap, panic>>

\* vmm_unmap, up to pml_unmap
VmmUnmap(s, v, n) ==
    /\ panic = "none"
    /\ Idle(s)
    /\ v + n <= VirtAmount
    /\ PmlMapped(s, v, n)
    /\ space' = [space EXCEPT ![s].op = "unmap", ![s].at = v, ![s].end = v + n]
    /\ UNCHANGED <<pmm, kernel, kernelPml, memoryMap, panic>>

\* pml_unmap of one page
FreeIfOwned(e) == IF e.owned THEN PmmFree(pmm, e.page) ELSE pmm

UnmapEntry(s) ==
    LET v == space[s].at
        r == [space[s] EXCEPT !.entries[v] = NoEntry, !.at = @ + 1]
    IN  /\ panic = "none"
        /\ space[s].op = "unmap"
        /\ pmm' = FreeIfOwned(space[s].entries[v])
        /\ space' = [space EXCEPT ![s] = Continue(r)]
        /\ UNCHANGED <<kernel, kernelPml, memoryMap, panic>>

\* Mutant: the new flags replace PAGE_OWNED.
ChangeFlagsAll(e) == [page |-> e.page, owned |-> FALSE]

\* pml_change_flags makes a new entry: PAGE_OWNED has to be carried over.  The
\* other flags are not represented.
ChangeFlags(e) == [page |-> e.page, owned |-> e.owned]

\* vmm_protect
VmmProtect(s, v, n) ==
    /\ panic = "none"
    /\ Idle(s)
    /\ v + n <= VirtAmount
    /\ PmlMapped(s, v, n)
    /\ space' = [space EXCEPT ![s].entries = [i \in Virt |-> IF i \in v .. v + n - 1 THEN ChangeFlags(@[i]) ELSE @[i]]]
    /\ UNCHANGED <<pmm, kernel, kernelPml, memoryMap, panic>>

\* Mutant: the kernel half is not cleared.
SpaceCleanupAll(s) ==
    /\ panic = "none"
    /\ Idle(s)
    /\ space' = [space EXCEPT ![s].op = "cleanup"]
    /\ UNCHANGED <<pmm, kernel, kernelPml, memoryMap, panic>>

\* process_free: space_cleanup clears the kernel half and calls pml_free
SpaceCleanup(s) ==
    /\ panic = "none"
    /\ Idle(s)
    /\ space' = [space EXCEPT ![s].op = "cleanup", ![s].upper = NoPage]
    /\ UNCHANGED <<pmm, kernel, kernelPml, memoryMap, panic>>

\* pml_free_level frees the owned pages of a table, then the table, and after
\* the last table the root.  A kernel half that is still there would be freed
\* like any other table.
TablesLeft(s) == {t \in Table : space[s].tables[t] # NoPage}

Lowest(v, S) == v \in S /\ \A w \in S : v <= w

OwnedIn(s, t) == {v \in Virt : TableOf(v) = t /\ space[s].entries[v].owned}

FreePage(s, v) ==
    /\ panic = "none"
    /\ space[s].op = "cleanup"
    /\ Lowest(TableOf(v), TablesLeft(s))
    /\ Lowest(v, OwnedIn(s, TableOf(v)))
    /\ pmm' = PmmFree(pmm, space[s].entries[v].page)
    /\ space' = [space EXCEPT ![s].entries[v] = NoEntry]
    /\ UNCHANGED <<kernel, kernelPml, memoryMap, panic>>

FreeTable(s, t) ==
    /\ panic = "none"
    /\ space[s].op = "cleanup"
    /\ Lowest(t, TablesLeft(s)) /\ OwnedIn(s, t) = {}
    /\ pmm' = PmmFree(pmm, space[s].tables[t])
    /\ space' = [space EXCEPT ![s].tables[t] = NoPage,
                              ![s].entries = [v \in Virt |-> IF TableOf(v) = t THEN NoEntry ELSE @[v]]]
    /\ UNCHANGED <<kernel, kernelPml, memoryMap, panic>>

FreeRoot(s) ==
    /\ panic = "none"
    /\ space[s].op = "cleanup"
    /\ TablesLeft(s) = {}
    /\ LET m == IF space[s].upper # NoPage THEN PmmFree(pmm, space[s].upper) ELSE pmm
       IN  pmm' = PmmFree(m, space[s].pml)
    /\ space' = [space EXCEPT ![s] = NoSpace]
    /\ UNCHANGED <<kernel, kernelPml, memoryMap, panic>>

\* simd_context_init, ring_init and the kernel's heap
KernelAlloc(p) ==
    /\ kernelPml.pml # NoPage
    /\ Cardinality(kernel) < KernelMax
    /\ Takes(p)
    /\ kernel' = kernel \cup {p}
    /\ UNCHANGED <<space, kernelPml, memoryMap>>

\* simd_context_cleanup, ring_cleanup
KernelFree(p) ==
    /\ panic = "none"
    /\ p \in kernel
    /\ pmm' = PmmFree(pmm, p)
    /\ kernel' = kernel \ {p}
    /\ UNCHANGED <<space, kernelPml, memoryMap, panic>>

\* kernel_free_boot_data: one call of pmm_free_pages per descriptor, of a page each
FreeBootData(p) ==
    /\ panic = "none"
    /\ kernelPml.pml # NoPage
    /\ p \in memoryMap
    /\ pmm' = PmmFree(pmm, p)
    /\ memoryMap' = memoryMap \ {p}
    /\ UNCHANGED <<space, kernel, kernelPml, panic>>

\* Some caller of pmm_alloc finds no page: the LOG_ASSERT of pmm_alloc, or a
\* page fault in page_stack_alloc, stops the kernel.
OutOfMemory ==
    /\ panic = "none"
    /\ Loaded
    /\ panic' = AllocPanic(PmmAlloc(pmm).page)
    /\ panic' # "none"
    /\ UNCHANGED <<pmm, space, kernel, kernelPml, memoryMap>>

-----------------------------------------------------------------------------
VmmInit ==
    /\ pmm = [stack |-> EmptyStack, bitmap |-> FullBitmap]
    /\ kernelPml = [pml |-> NoPage, table |-> NoPage]
    /\ space = [s \in Space |-> NoSpace]
    /\ kernel = {}
    /\ memoryMap = LowAvail \cup HighAvail \cup LoaderData
    /\ panic = "none"

Operation(s) ==
    \/ \E p \in HighPage : SpaceInit(s, p) \/ MapTakePage(s, p) \/ MapTakeTable(s, p)
    \/ \E v \in Virt, n \in Lengths :
        \/ \E owned \in BOOLEAN : VmmAllocAt(s, v, n, owned) \/ VmmAllocAnywhere(s, v, n, owned)
        \/ VmmUnmap(s, v, n)
        \/ VmmProtect(s, v, n)
    \/ MapEntry(s)
    \/ UnmapEntry(s)
    \/ SpaceCleanup(s)
    \/ \E v \in Virt : FreePage(s, v)
    \/ \E t \in Table : FreeTable(s, t)
    \/ FreeRoot(s)

VmmNext ==
    \/ \E p \in Page : PmmLoadMemory(p) \/ FreeBootData(p)
    \/ \E root \in LowPage, p \in HighPage : VmmLoadMemoryMap(root, p)
    \/ \E s \in Space : Operation(s)
    \/ \E p \in HighPage : KernelAlloc(p) \/ KernelFree(p)
    \/ OutOfMemory

VmmSpec == VmmInit /\ [][VmmNext]_vmmVars

-----------------------------------------------------------------------------
(* Properties *)

\* What space s uses pages for: place and page
SpacePlaces(s) ==
    LET r == space[s]
    IN  {<<"pml", s, 0, r.pml>>, <<"hand", s, 0, r.hand>>}
        \cup {<<"table", s, t, r.tables[t]>> : t \in Table}
        \cup {<<"entry of", s, v, r.entries[v].page>> : v \in Virt}

\* Everything that pages are used for
Places ==
    {x \in FreePlaces(pmm)
            \cup (UNION {SpacePlaces(s) : s \in Space})
            \cup {<<"kernel", 0, 0, p>> : p \in kernel}
            \cup {<<"kernelPml", 0, 0, kernelPml.pml>>, <<"kernelPml", 0, 1, kernelPml.table>>}
            \cup {<<"memoryMap", 0, 0, p>> : p \in memoryMap}
        : x[4] \notin {NoPage, Device}}

Used == {x[4] : x \in Places}

(***************************************************************************)
(* A page of memory has one use: it is free, in one place of the page      *)
(* stack or the bitmap, or a table of one space, or mapped by one entry,   *)
(* or the kernel's.  What space_cleanup and vmm_unmap give back and what   *)
(* vmm_alloc takes is never shared, with any number of operations on other *)
(* spaces in between.                                                      *)
(***************************************************************************)
PageUsedOnce == Cardinality(Used) = Cardinality(Places)

\* Pages that nobody will ever give back
Lost == (HighAvail \cup LoaderData) \ Used

\* page_stack_alloc hands out the page of a buffer: the last entry of the
\* buffer before it is cut off.
CutOff ==
    LET old == pmm.stack.buffers
        n == Len(old)
    IN  IF n > 1 /\ Len(pmm'.stack.buffers) < n THEN {Last(old[n - 1].pages)} ELSE {}

\* pml_map writes over an entry.
Overwritten == {space[s].entries[space[s].at].page : s \in {s \in Space : MapEntry(s)}}

(***************************************************************************)
(* Unmapping, protecting and freeing lose no page: PAGE_OWNED survives     *)
(* vmm_protect, and pml_free finds every owned page and table.  The code   *)
(* loses pages in two ways only: the switch to an earlier buffer in        *)
(* page_stack_alloc, and a mapping over part of another one, which         *)
(* pml_mapped does not notice.                                             *)
(***************************************************************************)
PagesKept ==
    [][Lost' \subseteq Lost \cup CutOff \cup Overwritten]_vmmVars

(***************************************************************************)
(* Running out of memory is noticed where pmm_alloc says so: "no more      *)
(* memory".                                                                *)
(***************************************************************************)
ExhaustionNoticed == panic # "fault"

(***************************************************************************)
(* Memory is consistent: every page has one use, and the page stack, the   *)
(* bitmap and the tables hold what they can hold.                          *)
(***************************************************************************)
PagesConsistent == VmmTypeOK /\ PageUsedOnce
=============================================================================
