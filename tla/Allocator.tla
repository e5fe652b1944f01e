----------------------------- MODULE Allocator -----------------------------
(***************************************************************************)
(* What the kernel's allocators promise their callers (memory/memory.h):   *)
(* live allocations are extents of the arena that never overlap, and an    *)
(* allocation changes only by an operation on that very allocation.        *)
(* Where an extent is placed, and how the rest is kept, is left open.      *)
(***************************************************************************)
EXTENDS Integers

VARIABLES
    arena,   \* bytes under management, 0 before initialisation
    extent   \* start of each live allocation -> its length

Disjoint == \A p, q \in DOMAIN extent : p < q => p + extent[p] <= q
Inside == \A p \in DOMAIN extent : p + extent[p] <= arena

\* No extent but those starting in S appears, disappears or changes.
OnlyChanged(S) ==
    \A p \in (DOMAIN extent \cup DOMAIN extent') \ S :
        /\ p \in DOMAIN extent
        /\ p \in DOMAIN extent'
        /\ extent'[p] = extent[p]

Init == arena = 0 /\ DOMAIN extent = {}

Open ==
    /\ arena = 0
    /\ arena' \in Nat
    /\ UNCHANGED extent

\* The starts in `gone' are given back and the ones in `new' are handed out.
Exchange(gone, new) ==
    /\ gone \subseteq DOMAIN extent
    /\ new \subseteq DOMAIN extent'
    /\ DOMAIN extent' = (DOMAIN extent \ gone) \cup new
    /\ OnlyChanged(gone \cup new)
    /\ Disjoint'
    /\ Inside'
    /\ UNCHANGED arena

Grant(p)   == p \notin DOMAIN extent /\ Exchange({}, {p})
Return(p)  == Exchange({p}, {})
Resize(p)  == Exchange({p}, {p})
Move(p, q) == q \notin DOMAIN extent /\ Exchange({p}, {q})

\* kmalloc and kfree only: nothing that is live may change.
Next ==
    \/ Open
    \/ \E p \in DOMAIN extent' : Grant(p)
    \/ \E p \in DOMAIN extent : Return(p)

Spec == Init /\ [][Next]_<<arena, extent>>

\* With krealloc.
ReallocNext ==
    \/ Next
    \/ \E p \in DOMAIN extent : Resize(p) \/ \E q \in DOMAIN extent' : Move(p, q)

ReallocSpec == Init /\ [][ReallocNext]_<<arena, extent>>
=============================================================================
