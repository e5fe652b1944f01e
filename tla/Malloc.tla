------------------------------- MODULE Malloc -------------------------------
(***************************************************************************)
(* mm/malloc.c, the larger variant of the heap.  Its mem_init and kmalloc  *)
(* are those of heap.c, with a bigger HEAP_CAPACITY; its kfree merges in   *)
(* the other order; and it adds krealloc.                                  *)
(***************************************************************************)
EXTENDS Heap

CONSTANT NewSizes  \* values krealloc may be called with

ASSUME MallocAssumption == NewSizes \subseteq 0 .. WORD - 1

VARIABLE data  \* live payload -> leading bytes that hold what its owner wrote

mvars == <<capacity, blocks, held, data>>

\* Mutant: looks for the predecessor only when there was no free successor.
ReleaseForward_OneMerge(bs, b) ==
    LET freed  == Mark(bs, b, FALSE)
        prev   == Previous(bs, b) \cap FreeBlocks(bs)
    IN  IF NextIsFree(bs, b) \/ prev = {}
        THEN AbsorbFreeNext(freed, b)
        ELSE Absorb(freed, CHOOSE p \in prev : TRUE)

\* kfree of malloc.c: first the successor joins the block, then both join a
\* free predecessor.
ReleaseForward(bs, b) ==
    LET merged == AbsorbFreeNext(Mark(bs, b, FALSE), b)
        prev   == Previous(merged, b) \cap FreeBlocks(merged)
    IN  IF prev = {} THEN merged ELSE Absorb(merged, CHOOSE p \in prev : TRUE)

\* Mutant: the shrunk block keeps its old size.
Shrink_KeepsSize(bs, b, request) ==
    IF bs[b].size - request >= MIN_SPLIT_SIZE
    THEN [AbsorbFreeNext(Carve(bs, b, request), b + HDR + request)
             EXCEPT ![b].size = bs[b].size]
    ELSE bs

\* The part of krealloc for a block that is big enough.
Shrink(bs, b, request) ==
    IF bs[b].size - request >= MIN_SPLIT_SIZE
    THEN AbsorbFreeNext(Carve(bs, b, request), b + HDR + request)
    ELSE bs

\* Mutant: takes any free successor for big enough.
CanGrow_AnySize(bs, b, request) == NextIsFree(bs, b)

\* The following block is free and the two together are big enough.
CanGrow(bs, b, request) ==
    /\ NextIsFree(bs, b)
    /\ bs[b].size + HDR + bs[bs[b].next].size >= request

Grow(bs, b, request) == Carve(Absorb(bs, b), b, request)

-----------------------------------------------------------------------------

MInit == Init /\ data = NoneHeld

MMemInit(ram) == MemInit(ram) /\ UNCHANGED data

\* Callers fill what they are given.
MKmalloc(size) ==
    /\ Kmalloc(size)
    /\ data' = [p \in DOMAIN held' |-> IF p \in DOMAIN held THEN data[p] ELSE size]

MKfree(ptr) ==
    /\ blocks' = ReleaseForward(blocks, ptr - HDR)
    /\ held' = Without(held, ptr)
    /\ data' = Without(data, ptr)
    /\ UNCHANGED capacity

\* In place: the split header, if any, lies `request' bytes into the payload.
ResizeInPlace(ptr, new_size, resized) ==
    /\ blocks' = resized
    /\ held' = [held EXCEPT ![ptr] = new_size]
    /\ data' = [data EXCEPT ![ptr] = MinOf(@, MinOf(new_size, resized[ptr - HDR].size))]
    /\ UNCHANGED capacity

\* Mutant: takes the header for part of the block's size.
CopySize_LessHeader(old_size, new_size) == MinOf(old_size - HDR, new_size)

CopySize(old_size, new_size) == MinOf(old_size, new_size)

\* kmalloc, copy, kfree; a failed kmalloc leaves the old block alone.
ReallocMove(ptr, new_size) ==
    LET request == AlignSize(new_size)
        old     == blocks[ptr - HDR].size
    IN  IF Fits(blocks, request) = {}
        THEN UNCHANGED mvars
        ELSE \E b \in FirstFit(blocks, request) :
                /\ blocks' = ReleaseForward(Carve(blocks, b, request), ptr - HDR)
                /\ held' = With(Without(held, ptr), b + HDR, new_size)
                /\ data' = With(Without(data, ptr), b + HDR,
                                MinOf(data[ptr], CopySize(old, new_size)))
                /\ UNCHANGED capacity

\* krealloc of a live pointer.  krealloc(0, n) is kmalloc(n), MKmalloc.
Krealloc(ptr, new_size) ==
    LET b       == ptr - HDR
        request == AlignSize(new_size)
    IN  \/ new_size = 0 /\ MKfree(ptr)
        \/ /\ new_size # 0
           /\ request <= blocks[b].size
           /\ ResizeInPlace(ptr, new_size, Shrink(blocks, b, request))
        \/ /\ new_size # 0
           /\ request > blocks[b].size
           /\ CanGrow(blocks, b, request)
           /\ ResizeInPlace(ptr, new_size, Grow(blocks, b, request))
        \/ /\ new_size # 0
           /\ request > blocks[b].size
           /\ ~CanGrow(blocks, b, request)
           /\ ReallocMove(ptr, new_size)

MNext ==
    \/ \E ram \in RamSizes : MMemInit(ram)
    \/ \E n \in Sizes : MKmalloc(n)
    \/ \E p \in DOMAIN held : MKfree(p)
    \/ \E p \in DOMAIN held, n \in NewSizes : Krealloc(p, n)

MSpec == MInit /\ [][MNext]_mvars

-----------------------------------------------------------------------------
(* Properties, next to those of Heap, which hold here too.                 *)

\* The order of the two merges does not matter: freeing any live block gives
\* the same heap in heap.c and in malloc.c.  This is what the comment at
\* malloc.c:85 relies on when it merges forward first.
KfreesAgree ==
    \A p \in DOMAIN held :
        Release(blocks, p - HDR) = ReleaseForward(blocks, p - HDR)

\* krealloc keeps the first min(old, new) bytes its owner wrote, in place or
\* moved, and touches no other allocation's bytes.
ReallocKeepsData ==
    [][/\ \A p \in DOMAIN held \cap DOMAIN held' : data'[p] = MinOf(data[p], held'[p])
       /\ \A p \in DOMAIN held \ DOMAIN held', q \in DOMAIN held' \ DOMAIN held :
             data'[q] = MinOf(data[p], held'[q])]_mvars

\* The whole of malloc.c, krealloc included, is still an allocator.
MIsAllocator == Promise!ReallocSpec
=============================================================================
