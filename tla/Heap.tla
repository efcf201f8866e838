-------------------------------- MODULE Heap --------------------------------
(***************************************************************************)
(* The heap of src/stdlib/internal/heap.c with malloc, realloc and free of *)
(* src/stdlib/stdlib.c, as the kernel builds them: under a lock, on pages  *)
(* that follow each other.                                                 *)
(*                                                                         *)
(* Memory is counted in units of HEAP_ALIGNMENT; a header takes one.  The  *)
(* list of headers is a sequence, and every unit of memory holds           *)
(* what was last written to it, by the heap or by the owner of a pointer.  *)
(***************************************************************************)
EXTENDS Integers, Sequences, SequencesExt, FiniteSets

CONSTANTS
    Client,         \* holders of a pointer
    HeapPage,       \* PAGE_SIZE
    HeapMax,        \* bound on the memory mapped
    MallocSize      \* sizes asked for

ASSUME HeapAssumption ==
    /\ HeapPage \in Nat \ {0} /\ HeapMax \in Nat /\ HeapMax >= 2 * HeapPage
    /\ MallocSize \subseteq Nat
    /\ "header" \notin Client

VARIABLES
    heapBlocks,     \* heap_header_t from firstBlock on
    newAddress,
    memory,
    owned           \* the pointer of each client, its size and how much of it was filled

heapVars == <<heapBlocks, newAddress, memory, owned>>

NULL == -1
NoPointer == [ptr |-> NULL, size |-> 0]

HeapTypeOK ==
    /\ newAddress \in 0 .. HeapMax
    /\ \A i \in DOMAIN heapBlocks :
        heapBlocks[i] \in [at: 0 .. HeapMax, size: 0 .. HeapMax, reserved: BOOLEAN]
    /\ memory \in [0 .. HeapMax - 1 -> Client \cup {"header", "none"}]
    /\ owned \in [Client -> [ptr: {NULL} \cup 0 .. HeapMax, size: {0} \cup MallocSize]]

-----------------------------------------------------------------------------
Write(mem, from, n, what) == [u \in DOMAIN mem |-> IF u \in from .. from + n - 1 THEN what ELSE mem[u]]

BlockStart(block) == block.at + 1

\* Room for the size asked for, another header and a unit behind it
SplitRoom(block, size) == block.size > size + 2

\* Mutant: the new block is as large as if its header took no room.
BlockSplitLong(list, i, size) ==
    LET b == list[i]
        new == [at |-> b.at + 1 + size, size |-> b.size - size, reserved |-> FALSE]
    IN  InsertAt([list EXCEPT ![i].size = size], i + 1, new)

\* _HeapBlockSplit; the header it writes is in HeaderWrites.
BlockSplit(list, i, size) ==
    LET b == list[i]
        new == [at |-> b.at + 1 + size, size |-> b.size - 1 - size, reserved |-> FALSE]
    IN  InsertAt([list EXCEPT ![i].size = size], i + 1, new)

\* _HeapBlockNew
PagesFor(size) == ((size + 1 + HeapPage - 1) \div HeapPage) * HeapPage
BlockNew(size) == [at |-> newAddress, size |-> PagesFor(size) - 1, reserved |-> FALSE]

\* What malloc_unlocked accepts, and how it takes block k of a list
BlockFits(block, size) == ~block.reserved /\ (block.size = size \/ SplitRoom(block, size))

BlockReserve(list, k, size) ==
    LET cut == IF SplitRoom(list[k], size) THEN BlockSplit(list, k, size) ELSE list
    IN  [cut EXCEPT ![k].reserved = TRUE]

\* malloc_unlocked of a size that is not zero: the list afterwards, and the
\* index of the block.  The first block that fits is taken, else a new one.
MallocUnlocked(size) ==
    LET found == {i \in DOMAIN heapBlocks : BlockFits(heapBlocks[i], size)}
        first == CHOOSE i \in found : \A j \in found : i <= j
        grown == Append(heapBlocks, BlockNew(size))
    IN  IF found # {} THEN [list |-> BlockReserve(heapBlocks, first, size), index |-> first]
        ELSE [list |-> BlockReserve(grown, Len(grown), size), index |-> Len(grown)]

\* Headers written by a step that makes the list new
HeaderWrites(new) ==
    [u \in DOMAIN memory |->
        IF \E b \in Range(new) : b.at = u /\ b \notin Range(heapBlocks) THEN "header" ELSE memory[u]]

Grown(new) == LET b == Last(new) IN IF b.at >= newAddress THEN b.at + 1 + b.size ELSE newAddress

\* The block is filled by its new owner; malloc(0) returns NULL.
Malloc(c, size) ==
    LET r == MallocUnlocked(size)
        ptr == BlockStart(r.list[r.index])
    IN  /\ owned[c].ptr = NULL
        /\ IF size = 0 THEN UNCHANGED heapVars
           ELSE /\ Grown(r.list) <= HeapMax
                /\ heapBlocks' = r.list
                /\ newAddress' = Grown(r.list)
                /\ memory' = Write(HeaderWrites(r.list), ptr, size, c)
                /\ owned' = [owned EXCEPT ![c] = [ptr |-> ptr, size |-> size]]

\* free_unlocked.  The header is found by the address.
Freed(list, ptr) == [i \in DOMAIN list |-> IF BlockStart(list[i]) = ptr THEN [list[i] EXCEPT !.reserved = FALSE]
                                           ELSE list[i]]

\* What a client wrote to memory it gave back no longer matters.
Abandon(mem, c) ==
    LET o == owned[c]
    IN  [u \in DOMAIN mem |-> IF u \in o.ptr .. o.ptr + o.size - 1 THEN "none" ELSE mem[u]]

Free(c) ==
    /\ owned[c].ptr # NULL
    /\ heapBlocks' = Freed(heapBlocks, owned[c].ptr)
    /\ owned' = [owned EXCEPT ![c] = NoPointer]
    /\ memory' = Abandon(memory, c)
    /\ UNCHANGED newAddress

\* realloc: what both sizes have in common is copied, and its owner fills the
\* rest; with size zero it is a free.
Realloc(c, size) ==
    LET r == MallocUnlocked(size)
        from == owned[c].ptr
        to == BlockStart(r.list[r.index])
        old == CHOOSE b \in Range(heapBlocks) : BlockStart(b) = from
        n == IF size < old.size THEN size ELSE old.size
        kept == IF size < owned[c].size THEN size ELSE owned[c].size
        copied == [u \in DOMAIN memory |->
                    IF u \in to .. to + n - 1 THEN memory[from + (u - to)]
                    ELSE HeaderWrites(r.list)[u]]
    IN  /\ from # NULL
        /\ IF size = 0
           THEN /\ heapBlocks' = Freed(heapBlocks, from)
                /\ owned' = [owned EXCEPT ![c] = NoPointer]
                /\ memory' = Abandon(memory, c)
                /\ UNCHANGED newAddress
           ELSE /\ Grown(r.list) <= HeapMax
                /\ heapBlocks' = Freed(r.list, from)
                /\ newAddress' = Grown(r.list)
                /\ memory' = Abandon(Write(copied, to + kept, size - kept, c), c)
                /\ owned' = [owned EXCEPT ![c] = [ptr |-> to, size |-> size]]

\* _HeapInit
HeapInit ==
    LET first == PagesFor(HeapPage)
    IN  /\ heapBlocks = <<[at |-> 0, size |-> first - 1, reserved |-> FALSE]>>
        /\ newAddress = first
        /\ memory = [u \in 0 .. HeapMax - 1 |-> IF u = 0 THEN "header" ELSE "none"]
        /\ owned = [c \in Client |-> NoPointer]

HeapNext == \E c \in Client :
    \/ Free(c)
    \/ \E size \in MallocSize : Malloc(c, size) \/ Realloc(c, size)

HeapSpec == HeapInit /\ [][HeapNext]_heapVars

-----------------------------------------------------------------------------
(* Properties *)

\* The blocks of the list lie side by side and fill all that was mapped: a
\* split or a new block neither loses memory nor claims any twice.
HeapTiles ==
    /\ heapBlocks[1].at = 0
    /\ \A i \in 1 .. Len(heapBlocks) - 1 : heapBlocks[i + 1].at = heapBlocks[i].at + 1 + heapBlocks[i].size
    /\ Last(heapBlocks).at + 1 + Last(heapBlocks).size = newAddress

\* What malloc returned is its owner's: no other allocation and no header is
\* written into it, and a realloc keeps what was there.  Headers survive too.
HeapKeepsData ==
    /\ \A c \in Client : \A u \in owned[c].ptr .. owned[c].ptr + owned[c].size - 1 : memory[u] = c
    /\ \A b \in Range(heapBlocks) : memory[b.at] = "header"

\* The two log_panic calls of free_unlocked are not reached: in front of every
\* pointer that is still owned is the header of a reserved block.
HeapFreeable ==
    \A c \in Client : owned[c].ptr # NULL =>
        \E i \in DOMAIN heapBlocks : BlockStart(heapBlocks[i]) = owned[c].ptr /\ heapBlocks[i].reserved

\* The heap keeps its memory together, what malloc returned to its owner, and
\* accepts that back.
HeapSound == HeapTypeOK /\ HeapTiles /\ HeapKeepsData /\ HeapFreeable
=============================================================================
