-------------------------------- MODULE Heap --------------------------------
(***************************************************************************)
(* The kernel heap: mm/heap.c on top of mm/blocks.c.                       *)
(*                                                                         *)
(* g_heap is an arena of capacity bytes, addressed 0 .. capacity - 1.      *)
(* `blocks' maps the address of every block header that the list starting  *)
(* at g_first_block reaches to its header.  A header the list no longer    *)
(* reaches is dead memory and is not kept.  Sums of sizes inside the arena *)
(* stay below WORD (the range of size_t), so only mm_align_size, which     *)
(* works on the caller's number, needs the wrap-around.                    *)
(***************************************************************************)
EXTENDS Integers, FiniteSets

CONSTANTS
    HDR,           \* sizeof(block_t): 12 on i386
    ALIGN,         \* 8, the rounding of mm_align_size
    SPLIT,         \* 16, the least payload worth a block of its own
    WORD,          \* number of values of size_t: 2^32 on i386
    HEAP_CAPACITY, \* bytes of g_heap
    RamSizes,      \* values mem_init may be called with
    Sizes          \* values kmalloc may be called with

ASSUME HeapAssumption ==
    /\ HDR \in Nat \ {0}
    /\ ALIGN \in Nat \ {0}
    /\ SPLIT \in Nat \ {0}
    /\ WORD \in Nat
    /\ HEAP_CAPACITY \in Nat
    /\ HDR <= HEAP_CAPACITY
    /\ HEAP_CAPACITY < WORD
    /\ RamSizes \subseteq Nat
    /\ Sizes \subseteq 0 .. WORD - 1

VARIABLES
    capacity,  \* bytes mem_init gave to the list, 0 before it ran
    blocks,    \* header address -> [size, used, next]
    held       \* payload address -> bytes asked for, for every live allocation

vars == <<capacity, blocks, held>>

NULL == -1
NoHeap == [b \in {} |-> [size |-> 0, used |-> FALSE, next |-> NULL]]
NoneHeld == [p \in {} |-> 0]

MIN_SPLIT_SIZE == HDR + SPLIT
Header == [size : Nat, used : BOOLEAN, next : Nat \cup {NULL}]

\* mm_align_size: round up to a multiple of ALIGN, in size_t arithmetic.
AlignSize(n) ==
    LET up == (n + ALIGN - 1) % WORD
    IN  IF n = 0 THEN ALIGN ELSE up - (up % ALIGN)

MinOf(a, b) == IF a < b THEN a ELSE b
MaxOf(a, b) == IF a < b THEN b ELSE a
With(f, p, v) == [q \in DOMAIN f \cup {p} |-> IF q = p THEN v ELSE f[q]]
Without(f, p) == [q \in DOMAIN f \ {p} |-> f[q]]

-----------------------------------------------------------------------------
(* Pure steps on a list of blocks, shared by every entry point.            *)

Mark(bs, b, u) == [bs EXCEPT ![b].used = u]
FreeBlocks(bs) == {b \in DOMAIN bs : ~bs[b].used}
\* Mutant: the loop forgets to test `used'.
Fits_Any(bs, n) == {b \in DOMAIN bs : bs[b].size >= n}
Fits(bs, n) == {b \in FreeBlocks(bs) : bs[b].size >= n}

\* The list is in address order (Tiling below), so the first block the loop
\* of kmalloc accepts is the fitting block of least address.
FirstFit(bs, n) == {b \in Fits(bs, n) : \A c \in Fits(bs, n) : b <= c}

\* mm_find_previous_block: the blocks whose next is b (none for the first).
Previous(bs, b) == {p \in DOMAIN bs : bs[p].next = b}

\* Take n bytes of block b.  The rest becomes a free block of its own, put
\* after b, when it is worth a split; otherwise b keeps it.
Carve(bs, b, n) ==
    LET leftover == bs[b].size - n
        split    == b + HDR + n
    IN  IF leftover >= MIN_SPLIT_SIZE
        THEN [c \in DOMAIN bs \cup {split} |->
                CASE c = split -> [size |-> leftover - HDR, used |-> FALSE, next |-> bs[b].next]
                  [] c = b     -> [size |-> n, used |-> TRUE, next |-> split]
                  [] OTHER     -> bs[c]]
        ELSE Mark(bs, b, TRUE)

\* Append the block after b to b.
Absorb(bs, b) ==
    LET n == bs[b].next
    IN  [c \in DOMAIN bs \ {n} |->
            IF c = b THEN [size |-> bs[b].size + bs[n].size + HDR,
                           used |-> bs[b].used, next |-> bs[n].next]
                     ELSE bs[c]]

NextIsFree(bs, b) == bs[b].next # NULL /\ ~bs[bs[b].next].used
AbsorbFreeNext(bs, b) == IF NextIsFree(bs, b) THEN Absorb(bs, b) ELSE bs

\* Mutant: no merge with the successor.
Release_NoNext(bs, b) ==
    LET freed == Mark(bs, b, FALSE)
        prev  == Previous(bs, b) \cap FreeBlocks(bs)
    IN  IF prev = {} THEN freed ELSE Absorb(freed, CHOOSE q \in prev : TRUE)

\* kfree of heap.c: the block joins a free predecessor first, and whichever
\* block now holds it then absorbs a free successor.
Release(bs, b) ==
    LET freed == Mark(bs, b, FALSE)
        prev  == Previous(bs, b) \cap FreeBlocks(bs)
    IN  IF prev = {}
        THEN AbsorbFreeNext(freed, b)
        ELSE LET p == CHOOSE q \in prev : TRUE
             IN  AbsorbFreeNext(Absorb(freed, p), p)

-----------------------------------------------------------------------------
(* The entry points.                                                       *)

Init ==
    /\ capacity = 0
    /\ blocks = NoHeap
    /\ held = NoneHeld

\* mem_init runs once, from main (kernel/main.c:79).  0 stands for "unknown".
MemInit(total_ram) ==
    /\ capacity = 0
    /\ capacity' = MaxOf(HDR, IF total_ram = 0 THEN HEAP_CAPACITY
                                               ELSE MinOf(total_ram, HEAP_CAPACITY))
    /\ blocks' = [b \in {0} |-> [size |-> capacity' - HDR, used |-> FALSE, next |-> NULL]]
    /\ UNCHANGED held

\* kmalloc returns 0 for size 0, for a list without a fitting block and, since
\* g_first_block is then 0, before mem_init.
Kmalloc(size) ==
    LET request == AlignSize(size)
    IN  IF size = 0 \/ Fits(blocks, request) = {}
        THEN UNCHANGED vars
        ELSE \E b \in FirstFit(blocks, request) :
                /\ blocks' = Carve(blocks, b, request)
                /\ held' = With(held, b + HDR, size)
                /\ UNCHANGED capacity

\* Callers free what they hold, once: main.c:50, 57, init_sched.c:52, hfs.c:94.
Kfree(ptr) ==
    /\ blocks' = Release(blocks, ptr - HDR)
    /\ held' = Without(held, ptr)
    /\ UNCHANGED capacity

Next ==
    \/ \E ram \in RamSizes : MemInit(ram)
    \/ \E n \in Sizes : Kmalloc(n)
    \/ \E p \in DOMAIN held : Kfree(p)

Spec == Init /\ [][Next]_vars

-----------------------------------------------------------------------------
(* Properties.                                                             *)

IsList(bs) == DOMAIN bs \subseteq Nat /\ bs \in [DOMAIN bs -> Header]

\* Headers have the fields of block_t, and allocations are numbers of bytes.
TypeOK ==
    /\ capacity \in Nat
    /\ IsList(blocks)
    /\ DOMAIN held \subseteq Nat
    /\ held \in [DOMAIN held -> Sizes]

End(bs, b) == b + HDR + bs[b].size

Tiled(bs, top) ==
    /\ 0 \in DOMAIN bs
    /\ \A b \in DOMAIN bs :
          \/ End(bs, b) = top /\ bs[b].next = NULL
          \/ End(bs, b) \in DOMAIN bs /\ bs[b].next = End(bs, b)
    /\ \A b, c \in DOMAIN bs : b < c => End(bs, b) <= c
    /\ \A b \in DOMAIN bs : End(bs, b) <= top

\* The list of blocks is the arena: it starts at address 0, every header's
\* next is the byte after its payload, the last payload ends at the arena's
\* last byte, and no block overlaps the following ones.  kmalloc's split and
\* both merges of kfree have to move size and next together for this.  Before
\* mem_init there is no list.
Tiling == IF capacity = 0 THEN DOMAIN blocks = {} ELSE Tiled(blocks, capacity)

\* Free blocks followed by a free block.
FreePairs(bs) == {b \in FreeBlocks(bs) : bs[b].next \in FreeBlocks(bs)}

\* kfree leaves no two free blocks side by side: free space is never cut up
\* more than the live allocations cut it.
Coalesced == FreePairs(blocks) = {}

UsedBlocks(bs) == {b \in DOMAIN bs : bs[b].used}

\* What clients hold is what the list marks used: no allocation is lost from
\* the list and no used block is left without an owner.
HeldIsUsed == DOMAIN held = {b + HDR : b \in UsedBlocks(blocks)}

\* After any sequence of kmalloc and kfree the list is sound: no gap and no
\* overlap, no two free neighbours, and the used blocks are the live ones.
ListSound == Tiling /\ Coalesced /\ HeldIsUsed

\* Every allocation has room for what its caller asked of kmalloc.
RoomForRequest ==
    \A p \in DOMAIN held : held[p] <= blocks[p - HDR].size

\* Once every allocation has been freed the heap is one block again, as
\* mem_init left it, whatever the order of the calls before.
FreedHeapIsWhole ==
    capacity # 0 /\ DOMAIN held = {} =>
        blocks = [b \in {0} |-> [size |-> capacity - HDR, used |-> FALSE, next |-> NULL]]

LiveKept ==
    \A p \in DOMAIN held \cap DOMAIN held' :
        /\ p - HDR \in UsedBlocks(blocks')
        /\ blocks'[p - HDR].size = blocks[p - HDR].size

\* An allocation stays as it is while kmalloc and kfree serve others: a live
\* block's header changes at most in `next'.
OthersUntouched == [][LiveKept]_vars

Promise == INSTANCE Allocator WITH
    arena  <- capacity,
    extent <- [p \in DOMAIN held |-> blocks[p - HDR].size]

\* The heap is an allocator: seen through its live payloads alone, every call
\* of mem_init, kmalloc and kfree is a step the callers were promised.
IsAllocator == Promise!Spec
=============================================================================
