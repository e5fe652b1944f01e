---------------------------- MODULE MallocProofs ----------------------------
(***************************************************************************)
(* mm/malloc.c for every header size, alignment, split threshold, capacity *)
(* and word size.  Its kfree is shown to compute what heap.c's does, and   *)
(* krealloc to be made of the splits and merges of HeapProofs.             *)
(***************************************************************************)
EXTENDS Malloc, HeapProofs

-----------------------------------------------------------------------------
(* kfree.                                                                  *)

\* Whichever neighbour is merged first, the result is the same list.
LEMMA SameRelease ==
    ASSUME NEW bs, NEW top \in Nat, IsList(bs), Tiled(bs, top),
           FreePairs(bs) = {}, NEW b \in UsedBlocks(bs)
    PROVE  Release(bs, b) = ReleaseForward(bs, b)
<1> DEFINE freed  == Mark(bs, b, FALSE)
           prev   == Previous(bs, b) \cap FreeBlocks(bs)
           merged == AbsorbFreeNext(freed, b)
           after  == Previous(merged, b) \cap FreeBlocks(merged)
<1>1. /\ IsList(freed)
      /\ Tiled(freed, top)
      /\ DOMAIN freed = DOMAIN bs
      /\ FreeBlocks(freed) = FreeBlocks(bs) \cup {b}
      /\ \A c \in DOMAIN bs : freed[c].next = bs[c].next
      /\ \A c \in DOMAIN bs \ {b} : freed[c] = bs[c]
  BY ZenonT(60), UnmarkLemma
<1>2. /\ Release(bs, b) = IF prev = {} THEN AbsorbFreeNext(freed, b)
                          ELSE AbsorbFreeNext(Absorb(freed, CHOOSE q \in prev : TRUE),
                                              CHOOSE q \in prev : TRUE)
      /\ ReleaseForward(bs, b) = IF after = {} THEN merged
                                 ELSE Absorb(merged, CHOOSE p \in after : TRUE)
  BY DEF Release, ReleaseForward
<1>3. b \in DOMAIN bs /\ b \in Nat /\ b # NULL /\ bs[b].next # b /\ b \notin FreeBlocks(bs)
  <2>1. b \in DOMAIN bs /\ b \notin FreeBlocks(bs)
    BY DEF UsedBlocks, FreeBlocks
  <2>2. b \in Nat /\ b # NULL /\ End(bs, b) > b /\ End(bs, b) \in Nat
    BY <2>1, BlockType DEF NULL
  <2> QED BY <2>1, <2>2 DEF Tiled
<1>4. merged = freed \/ (NextIsFree(freed, b) /\ merged = Absorb(freed, b))
  BY Zenon DEF AbsorbFreeNext
<1> HIDE DEF freed, merged
<1>5. NextIsFree(freed, b) => Tiled(Absorb(freed, b), top) /\ IsMerge(freed, b, Absorb(freed, b))
  BY <1>1, <1>3, AbsorbLemma
<1>6. after = prev
  <2>1. CASE merged = freed
    BY <1>1, <1>3, <2>1 DEF Previous, FreeBlocks
  <2>2. CASE NextIsFree(freed, b) /\ merged = Absorb(freed, b)
    <3> DEFINE n == freed[b].next
    <3>1. /\ DOMAIN merged = DOMAIN bs \ {n}
          /\ FreeBlocks(merged) = FreeBlocks(freed) \ {n}
          /\ \A c \in DOMAIN bs \ {b, n} : merged[c] = freed[c]
          /\ merged[b].next = freed[n].next
          /\ n \in FreeBlocks(freed) /\ n = bs[b].next /\ n # b
          /\ Tiled(merged, top) /\ IsList(merged) /\ b \in DOMAIN merged
      BY <1>1, <1>3, <1>5, <2>2 DEF IsMerge
    <3> HIDE DEF n
    <3>2. merged[b].next # b
      <4>1. End(merged, b) > b /\ End(merged, b) \in Nat
        BY <3>1, BlockType
      <4> QED BY <1>3, <3>1, <4>1 DEF Tiled
    <3>3. n \notin Previous(bs, b)
      <4>0. n \in DOMAIN bs /\ n = bs[b].next
        BY <1>1, <3>1 DEF FreeBlocks
      <4>1. n \in DOMAIN bs /\ End(bs, b) = n
        BY <1>3, <4>0, BlockType DEF Tiled, NULL
      <4>2. End(bs, n) > n /\ n > b /\ End(bs, n) \in Nat /\ n \in Nat
        BY <1>3, <4>1, BlockType
      <4> QED BY <1>3, <4>1, <4>2 DEF Previous, Tiled
    <3>4. ASSUME NEW c PROVE c \in after <=> c \in prev
      <4>1. CASE c = b BY <1>3, <3>2, <4>1 DEF Previous
      <4>2. CASE c = n BY <3>1, <3>3, <4>2 DEF Previous
      <4>3. CASE c # b /\ c # n
        <5>1. c \in FreeBlocks(merged) <=> c \in FreeBlocks(bs) BY <1>1, <3>1, <4>3
        <5>2. c \in DOMAIN bs => merged[c].next = bs[c].next BY <1>1, <3>1, <4>3
        <5> QED BY <3>1, <4>3, <5>1, <5>2 DEF Previous
      <4> QED BY <4>1, <4>2, <4>3
    <3> QED BY <3>4
  <2> QED BY <1>4, <2>1, <2>2
<1>7. CASE prev = {}
  BY <1>2, <1>6, <1>7 DEF merged
<1>8. CASE prev # {}
  <2> DEFINE p == CHOOSE q \in prev : TRUE
             joined == Absorb(freed, p)
  <2>1. p \in prev
    BY <1>8
  <2>2. Release(bs, b) = AbsorbFreeNext(joined, p) /\ ReleaseForward(bs, b) = Absorb(merged, p)
    BY Zenon, <1>2, <1>6, <1>8
  <2> HIDE DEF p
  <2>3. /\ p \in DOMAIN bs /\ bs[p].next = b /\ p # b /\ p \in FreeBlocks(bs)
        /\ freed[p].next = b /\ freed[p] = bs[p]
    BY <1>1, <1>3, <2>1 DEF Previous, FreeBlocks
  <2> DEFINE n == freed[b].next
             sum == freed[p].size + freed[b].size + HDR
  <2>4. joined = [c \in DOMAIN bs \ {b} |->
                    IF c = p THEN [size |-> sum, used |-> freed[p].used, next |-> n] ELSE freed[c]]
    BY <1>1, <2>3 DEF Absorb
  <2>5. /\ freed[p].size \in Nat /\ freed[b].size \in Nat /\ HDR \in Nat
        /\ n # b /\ (n # NULL => n \in DOMAIN bs /\ n # p /\ freed[n].size \in Nat)
    <3>1. freed[p].size \in Nat /\ freed[b].size \in Nat /\ HDR \in Nat /\ n # b
      BY <1>1, <1>3, <2>3, BlockType, HeapAssumption
    <3>2. ASSUME n # NULL PROVE n \in DOMAIN bs /\ n # p /\ freed[n].size \in Nat
      <4>1. n \in DOMAIN bs /\ n = End(freed, b)
        BY <1>1, <1>3, <3>2 DEF Tiled
      <4>2. n > b /\ End(freed, p) = b /\ End(freed, p) > p /\ p \in Nat /\ n \in Nat
        BY <1>1, <1>3, <2>3, <4>1, BlockType DEF Tiled
      <4> QED BY <1>1, <1>3, <4>1, <4>2, BlockType
    <3> QED BY <3>1, <3>2
  <2>6. NextIsFree(joined, p) <=> NextIsFree(freed, b)
    <3>1. joined[p].next = n BY <2>3, <2>4
    <3>2. n # NULL => joined[n] = freed[n] BY <2>4, <2>5
    <3> QED BY <3>1, <3>2 DEF NextIsFree
  <2>7. CASE ~NextIsFree(freed, b)
    <3>1. merged = freed BY Z3T(60), <2>7, <1>4
    <3> QED BY <2>2, <2>6, <2>7, <3>1 DEF AbsorbFreeNext
  <2>8. CASE NextIsFree(freed, b)
    <3>1. n # NULL BY <2>8 DEF NextIsFree
    <3> DEFINE total == sum + freed[n].size + HDR
    <3>2. AbsorbFreeNext(joined, p) =
            [c \in DOMAIN bs \ {b, n} |->
                IF c = p THEN [size |-> total, used |-> freed[p].used, next |-> freed[n].next] ELSE freed[c]]
      <4>1. joined[p] = [size |-> sum, used |-> freed[p].used, next |-> n] /\ joined[n] = freed[n]
            /\ DOMAIN joined = DOMAIN bs \ {b}
            /\ \A c \in DOMAIN bs \ {b, p} : joined[c] = freed[c]
        BY <2>3, <2>4, <2>5, <3>1
      <4> HIDE DEF joined, sum
      <4>2. AbsorbFreeNext(joined, p) = Absorb(joined, p) BY <2>6, <2>8 DEF AbsorbFreeNext
      <4>3. Absorb(joined, p) =
              [c \in (DOMAIN bs \ {b}) \ {n} |->
                 IF c = p THEN [size |-> joined[p].size + joined[n].size + HDR, used |-> joined[p].used,
                                next |-> joined[n].next] ELSE joined[c]]
        BY Z3T(60), <4>1 DEF Absorb
      <4>4. Absorb(joined, p) =
              [c \in DOMAIN bs \ {b, n} |->
                 IF c = p THEN [size |-> total, used |-> freed[p].used, next |-> freed[n].next] ELSE freed[c]]
        BY Z3T(60), <4>1, <4>3
      <4> QED BY Z3T(60), <4>2, <4>4
    <3>3. Absorb(merged, p) =
            [c \in DOMAIN bs \ {b, n} |->
                IF c = p THEN [size |-> total, used |-> freed[p].used, next |-> freed[n].next] ELSE freed[c]]
      <4>1. merged = [c \in DOMAIN bs \ {n} |->
                        IF c = b THEN [size |-> freed[b].size + freed[n].size + HDR,
                                       used |-> freed[b].used, next |-> freed[n].next]
                                 ELSE freed[c]]
        BY Zenon, <1>1, <2>8 DEF merged, AbsorbFreeNext, Absorb
      <4>2. /\ merged[b].size = freed[b].size + freed[n].size + HDR /\ merged[b].next = freed[n].next
            /\ merged[p] = freed[p] /\ DOMAIN merged = DOMAIN bs \ {n}
            /\ \A c \in DOMAIN bs \ {b, n} : merged[c] = freed[c]
        BY Z3T(60), <1>3, <2>3, <2>5, <3>1, <4>1
      <4>3. Absorb(merged, p) =
              [c \in (DOMAIN bs \ {n}) \ {b} |->
                 IF c = p THEN [size |-> freed[p].size + merged[b].size + HDR, used |-> freed[p].used,
                                next |-> freed[n].next] ELSE merged[c]]
        BY Z3T(60), <2>3, <4>2 DEF Absorb
      <4>4. freed[p].size + merged[b].size + HDR = total
        BY <2>5, <3>1, <4>2
      <4> HIDE DEF total
      <4> QED BY <4>2, <4>3, <4>4
    <3> QED BY <2>2, <3>2, <3>3
  <2> QED BY <2>7, <2>8
<1> QED BY <1>7, <1>8

\* What kfree of malloc.c leaves, from what heap.c's leaves.
LEMMA ReleaseForwardLemma ==
    ASSUME NEW bs, NEW top \in Nat, IsList(bs), Tiled(bs, top),
           FreePairs(bs) = {}, NEW b \in UsedBlocks(bs)
    PROVE  /\ Tiled(ReleaseForward(bs, b), top)
           /\ IsSettled(bs, UsedBlocks(bs) \ {b}, ReleaseForward(bs, b))
BY SameRelease, ReleaseLemma

-----------------------------------------------------------------------------
(* krealloc.                                                               *)

\* new is the list bs with the used block b resized to no less than n bytes.
IsResize(bs, b, n, new) ==
    /\ IsList(new)
    /\ FreePairs(new) = {}
    /\ UsedBlocks(new) = UsedBlocks(bs)
    /\ new[b].size >= n
    /\ new[b].size \in Nat
    /\ \A c \in UsedBlocks(bs) \ {b} : new[c] = bs[c]

\* Splitting a used block: the only pair this can make is the remainder's with
\* the block after it.
LEMMA CarveUsed ==
    ASSUME NEW bs, NEW top \in Nat, IsList(bs), Tiled(bs, top), FreePairs(bs) = {},
           NEW b \in UsedBlocks(bs), NEW n \in Nat, n <= bs[b].size
    PROVE  /\ Tiled(Carve(bs, b, n), top)
           /\ IsGrant(bs, b, n, Carve(bs, b, n))
           /\ bs[b].size - n >= MIN_SPLIT_SIZE => b + HDR + n \in FreeBlocks(Carve(bs, b, n))
           /\ \A c \in FreePairs(Carve(bs, b, n)) :
                 /\ c = b + HDR + n /\ bs[b].size - n >= MIN_SPLIT_SIZE
                 /\ bs[b].next \in FreeBlocks(bs)
<1> DEFINE leftover == bs[b].size - n
           split == b + HDR + n
           new == Carve(bs, b, n)
<1>0. b \in DOMAIN bs /\ b \notin FreeBlocks(bs)
  BY DEF UsedBlocks, FreeBlocks
<1>1. Tiled(new, top) /\ IsGrant(bs, b, n, new)
  BY <1>0, CarveLemma
<1>2. CASE leftover >= MIN_SPLIT_SIZE
  <2>1. /\ b < split /\ split < End(bs, b) /\ split \in Nat
    BY <1>0, <1>2, BlockType, HeapAssumption DEF MIN_SPLIT_SIZE, End
  <2>2. split \notin DOMAIN bs
    BY <1>0, <2>1, BlockType DEF Tiled
  <2>3. new = [c \in DOMAIN bs \cup {split} |->
                 CASE c = split -> [size |-> leftover - HDR, used |-> FALSE, next |-> bs[b].next]
                   [] c = b     -> [size |-> n, used |-> TRUE, next |-> split]
                   [] OTHER     -> bs[c]]
    BY Zenon, <1>2 DEF Carve
  <2>4. /\ DOMAIN new = DOMAIN bs \cup {split}
        /\ new[split].used = FALSE /\ new[split].next = bs[b].next
        /\ new[b].used = TRUE
        /\ \A c \in DOMAIN bs \ {b} : new[c] = bs[c]
    BY <1>0, <2>2, <2>3
  <2> HIDE DEF new
  <2>5. FreeBlocks(new) = FreeBlocks(bs) \cup {split}
    BY <1>0, <2>2, <2>4 DEF FreeBlocks
  <2>6. ASSUME NEW c \in FreePairs(new) PROVE c = split /\ bs[b].next \in FreeBlocks(bs)
    <3>1. /\ c \in FreeBlocks(bs) \cup {split}
          /\ new[c].next \in FreeBlocks(bs) \cup {split}
      BY <2>5 DEF FreePairs
    <3>2. \A d \in DOMAIN bs : bs[d].next # split
      BY <2>1, <2>2 DEF Tiled, NULL
    <3>3. c = split
      <4>1. ASSUME c # split PROVE FALSE
        <5>1. c \in FreeBlocks(bs) /\ c \in DOMAIN bs /\ c # b BY <1>0, <3>1, <4>1 DEF FreeBlocks
        <5>2. bs[c].next \in FreeBlocks(bs) BY <2>4, <3>1, <3>2, <5>1
        <5> QED BY <5>1, <5>2 DEF FreePairs
      <4> QED BY <4>1
    <3> QED BY <1>0, <2>4, <3>1, <3>2, <3>3
  <2> QED BY <1>1, <1>2, <2>5, <2>6 DEF new
<1>3. CASE ~(leftover >= MIN_SPLIT_SIZE)
  <2>1. new = Mark(bs, b, TRUE) /\ TRUE \in BOOLEAN
    BY Zenon, <1>3 DEF Carve
  <2> HIDE DEF new
  <2>2. /\ DOMAIN Mark(bs, b, TRUE) = DOMAIN bs
        /\ \A c \in DOMAIN bs \ {b} : Mark(bs, b, TRUE)[c] = bs[c]
        /\ Mark(bs, b, TRUE)[b].size = bs[b].size
        /\ Mark(bs, b, TRUE)[b].next = bs[b].next
        /\ Mark(bs, b, TRUE)[b].used = TRUE
        /\ IsList(Mark(bs, b, TRUE))
    BY ZenonT(60), <1>0, <2>1, MarkLemma
  <2>3. FreeBlocks(new) = FreeBlocks(bs)
    BY Zenon, <1>0, <2>1, <2>2 DEF FreeBlocks
  <2>4. \A c \in FreeBlocks(bs) : new[c] = bs[c]
    BY Zenon, <1>0, <2>1, <2>2 DEF FreeBlocks
  <2>5. FreePairs(new) = {}
    BY <2>3, <2>4 DEF FreePairs
  <2> QED BY <1>1, <1>3, <2>5 DEF new
<1> QED BY <1>2, <1>3

LEMMA ShrinkLemma ==
    ASSUME NEW bs, NEW top \in Nat, IsList(bs), Tiled(bs, top), FreePairs(bs) = {},
           NEW b \in UsedBlocks(bs), NEW n \in Nat, n <= bs[b].size
    PROVE  Tiled(Shrink(bs, b, n), top) /\ IsResize(bs, b, n, Shrink(bs, b, n))
<1> DEFINE new == Carve(bs, b, n)
           split == b + HDR + n
           done == AbsorbFreeNext(new, split)
<1>0. b \in DOMAIN bs /\ bs[b].size \in Nat
  BY BlockType DEF UsedBlocks
<1>1. CASE bs[b].size - n >= MIN_SPLIT_SIZE
  <2>1. /\ Tiled(new, top) /\ IsGrant(bs, b, n, new)
        /\ split \in FreeBlocks(new) /\ FreePairs(new) \subseteq {split}
    BY <1>1, CarveUsed
  <2> HIDE DEF new, split
  <2>2. /\ IsList(new) /\ UsedBlocks(new) = UsedBlocks(bs) \cup {b}
        /\ new[b].size >= n /\ new[b].size \in Nat
        /\ \A c \in DOMAIN bs \ {b} : new[c] = bs[c]
    BY <2>1 DEF IsGrant
  <2>3. Tiled(done, top) /\ IsSettled(new, UsedBlocks(new), done)
    BY <2>1, <2>2, SettleLemma
  <2> HIDE DEF done
  <2>4. UsedBlocks(new) = UsedBlocks(bs) BY <2>2
  <2>5. \A c \in UsedBlocks(bs) \ {b} : done[c] = bs[c]
    BY <2>2, <2>3, <2>4 DEF IsSettled, UsedBlocks
  <2>6. done[b] = new[b] BY <2>3, <2>4 DEF IsSettled
  <2>7. IsResize(bs, b, n, done)
    BY <2>2, <2>3, <2>4, <2>5, <2>6 DEF IsResize, IsSettled
  <2> QED BY <1>1, <2>3, <2>7 DEF Shrink, done, new, split
<1>2. CASE ~(bs[b].size - n >= MIN_SPLIT_SIZE)
  BY <1>0, <1>2 DEF Shrink, IsResize
<1> QED BY <1>1, <1>2

LEMMA GrowLemma ==
    ASSUME NEW bs, NEW top \in Nat, IsList(bs), Tiled(bs, top), FreePairs(bs) = {},
           NEW b \in UsedBlocks(bs), NEW n \in Nat, CanGrow(bs, b, n)
    PROVE  Tiled(Grow(bs, b, n), top) /\ IsResize(bs, b, n, Grow(bs, b, n))
<1> DEFINE m == Absorb(bs, b)
           new == Carve(m, b, n)
           nx == bs[b].next
<1>0. b \in DOMAIN bs /\ bs[b].size \in Nat /\ NextIsFree(bs, b) /\ HDR \in Nat
  BY BlockType, HeapAssumption DEF UsedBlocks, CanGrow
<1>1. Tiled(m, top) /\ IsMerge(bs, b, m)
  BY Zenon, <1>0, AbsorbLemma
<1>2. /\ nx \in FreeBlocks(bs) /\ nx \in DOMAIN bs /\ nx # b /\ bs[nx].size \in Nat
      /\ bs[nx].next \notin FreeBlocks(bs)
  BY <1>1, BlockType DEF IsMerge, FreeBlocks, FreePairs, UsedBlocks
<1>3. n <= m[b].size
  <2>1. m[b].size = bs[b].size + bs[nx].size + HDR
    BY <1>0, <1>2 DEF Absorb
  <2>2. bs[b].size + HDR + bs[nx].size >= n BY DEF CanGrow
  <2> HIDE DEF m
  <2> QED BY <1>0, <1>2, <2>1, <2>2
<1> HIDE DEF m, nx
<1>4. FreePairs(m) = {}
  <2> SUFFICES ASSUME NEW c \in FreePairs(m) PROVE FALSE
    OBVIOUS
  <2>1. IF c = b THEN bs[b].next \in FreePairs(bs) ELSE c \in FreePairs(bs)
    BY <1>1, MergePairs
  <2> QED BY <2>1
<1>5. IsList(m) /\ UsedBlocks(m) = UsedBlocks(bs) /\ m[b].next = bs[nx].next
      /\ FreeBlocks(m) = FreeBlocks(bs) \ {nx}
      /\ \A c \in DOMAIN bs \ {b, nx} : m[c] = bs[c]
  BY <1>1 DEF IsMerge, nx
<1>6. /\ Tiled(new, top) /\ IsGrant(m, b, n, new)
      /\ \A c \in FreePairs(new) : m[b].next \in FreeBlocks(m)
  BY <1>1, <1>3, <1>4, <1>5, CarveUsed
<1>7. FreePairs(new) = {}
  BY <1>2, <1>5, <1>6
<1> HIDE DEF new
<1>8. /\ IsList(new) /\ UsedBlocks(new) = UsedBlocks(bs)
      /\ new[b].size >= n /\ new[b].size \in Nat
      /\ \A c \in DOMAIN m \ {b} : new[c] = m[c]
  BY <1>5, <1>6 DEF IsGrant
<1>9. \A c \in UsedBlocks(bs) \ {b} : new[c] = bs[c]
  BY <1>2, <1>5, <1>8 DEF UsedBlocks, FreeBlocks
<1>10. IsResize(bs, b, n, new)
  BY Zenon, <1>7, <1>8, <1>9 DEF IsResize
<1> QED BY <1>6, <1>10 DEF Grow, new, m

\* Block old of bs has given its place to block b in new.
IsMoved(bs, top, old, n, b, new) ==
    /\ Tiled(new, top)
    /\ IsList(new) /\ FreePairs(new) = {}
    /\ UsedBlocks(new) = (UsedBlocks(bs) \ {old}) \cup {b}
    /\ new[b].size >= n /\ new[b].size \in Nat
    /\ \A c \in UsedBlocks(bs) \ {old} : new[c] = bs[c]
    /\ b # old /\ b \in FreeBlocks(bs) /\ b \in DOMAIN bs

\* kmalloc, copy, kfree of the old block.
LEMMA MoveLemma ==
    ASSUME NEW bs, NEW top \in Nat, IsList(bs), Tiled(bs, top), FreePairs(bs) = {},
           NEW old \in UsedBlocks(bs), NEW n \in Nat, NEW b \in Fits(bs, n)
    PROVE  IsMoved(bs, top, old, n, b, ReleaseForward(Carve(bs, b, n), old))
<1> DEFINE cut == Carve(bs, b, n)
           new == ReleaseForward(cut, old)
<1>1. b \in DOMAIN bs /\ b \in FreeBlocks(bs) /\ n <= bs[b].size /\ b # old
  BY BlockType DEF Fits, FreeBlocks, UsedBlocks
<1>2. Tiled(cut, top) /\ IsGrant(bs, b, n, cut) /\ FreePairs(cut) = {}
  BY <1>1, CarveLemma
<1> HIDE DEF cut
<1>3. /\ IsList(cut) /\ UsedBlocks(cut) = UsedBlocks(bs) \cup {b}
      /\ cut[b].size >= n /\ cut[b].size \in Nat
      /\ \A c \in DOMAIN bs \ {b} : cut[c] = bs[c]
  BY <1>2 DEF IsGrant
<1>4. Tiled(new, top) /\ IsSettled(cut, UsedBlocks(cut) \ {old}, new)
  BY Z3T(60), <1>2, <1>3, ReleaseForwardLemma
<1> HIDE DEF new
<1>5. /\ IsList(new) /\ FreePairs(new) = {} /\ UsedBlocks(new) = UsedBlocks(cut) \ {old}
      /\ \A c \in UsedBlocks(cut) \ {old} : new[c] = cut[c]
  BY <1>4 DEF IsSettled
<1>6. UsedBlocks(new) = (UsedBlocks(bs) \ {old}) \cup {b}
  BY <1>1, <1>3, <1>5
<1>7. new[b] = cut[b]
  BY <1>1, <1>3, <1>5
<1>8. \A c \in UsedBlocks(bs) \ {old} : new[c] = bs[c]
  BY <1>1, <1>3, <1>5 DEF UsedBlocks, FreeBlocks
<1>9. new[b].size >= n /\ new[b].size \in Nat
  BY <1>3, <1>7
<1>10. IsMoved(bs, top, old, n, b, new)
  BY Zenon, <1>1, <1>4, <1>5, <1>6, <1>8, <1>9 DEF IsMoved
<1> QED BY Zenon, <1>10 DEF new, cut

-----------------------------------------------------------------------------
(* The steps.                                                              *)

\* The live allocations and their blocks correspond.
LEMMA LiveIs ==
    ASSUME Sound
    PROVE  /\ HDR \in Nat
           /\ \A p \in DOMAIN held : p - HDR \in UsedBlocks(blocks) /\ p \in Nat /\ p - HDR \in Nat
           /\ \A b \in UsedBlocks(blocks) : b \in Nat /\ b + HDR \in DOMAIN held /\ (b + HDR) - HDR = b
           /\ DOMAIN held # {} => capacity # 0
           /\ capacity # 0 => Tiled(blocks, capacity)
           /\ FreePairs(blocks) = {}
<1>1. \A b \in UsedBlocks(blocks) : b \in Nat /\ b \in DOMAIN blocks
  BY DEF Sound, IsList, UsedBlocks
<1>2. HDR \in Nat
  BY HeapAssumption
<1>3. /\ \A p \in DOMAIN held : p - HDR \in UsedBlocks(blocks) /\ p \in Nat /\ p - HDR \in Nat
      /\ \A b \in UsedBlocks(blocks) : b + HDR \in DOMAIN held /\ (b + HDR) - HDR = b
  BY <1>1, <1>2 DEF Sound, HeldIsUsed
<1> QED BY <1>1, <1>2, <1>3 DEF Sound, Tiling, Coalesced

\* What a call may do, in terms of the allocations that go and come: the list is
\* as it should be and every other live block is as it was.
Served(gone, new) ==
    /\ capacity' = capacity
    /\ Sound'
    /\ gone \subseteq DOMAIN held
    /\ DOMAIN held' = (DOMAIN held \ gone) \cup new
    /\ \A p \in DOMAIN held \ (gone \cup new) : blocks'[p - HDR] = blocks[p - HDR]

\* A list in which the blocks of gone have become free and those of new used.
LEMMA ServedBy ==
    ASSUME Sound, capacity # 0, capacity' = capacity,
           NEW gone, NEW new, gone \subseteq DOMAIN held,
           DOMAIN held' = (DOMAIN held \ gone) \cup new,
           IsList(blocks'), Tiled(blocks', capacity), FreePairs(blocks') = {},
           NEW G, G \subseteq UsedBlocks(blocks), gone = {b + HDR : b \in G},
           NEW N \in SUBSET Nat, new = {b + HDR : b \in N},
           UsedBlocks(blocks') = (UsedBlocks(blocks) \ G) \cup N,
           \A b \in UsedBlocks(blocks) \ (G \cup N) : blocks'[b] = blocks[b]
    PROVE  Served(gone, new)
<1>1. HDR \in Nat /\ \A b \in UsedBlocks(blocks) : b \in Nat
  BY LiveIs
<1>2. DOMAIN held = {b + HDR : b \in UsedBlocks(blocks)}
  BY DEF Sound, HeldIsUsed
<1>3. \A b \in Nat, c \in Nat : b + HDR = c + HDR => b = c
  BY <1>1
<1>4. HeldIsUsed'
  <2>1. ASSUME NEW b \in UsedBlocks(blocks') PROVE b + HDR \in DOMAIN held'
    <3>1. CASE b \in N BY <3>1
    <3>2. CASE b \in UsedBlocks(blocks) \ G
      <4>1. b + HDR \in DOMAIN held BY <1>2, <3>2
      <4>2. b + HDR \notin gone BY <1>1, <1>3, <3>2
      <4> QED BY <4>1, <4>2
    <3> QED BY <3>1, <3>2
  <2>2. ASSUME NEW p \in DOMAIN held' PROVE \E b \in UsedBlocks(blocks') : p = b + HDR
    BY <1>1, <1>2, <1>3
  <2> QED BY <2>1, <2>2 DEF HeldIsUsed
<1>5. ASSUME NEW p \in DOMAIN held \ (gone \cup new) PROVE blocks'[p - HDR] = blocks[p - HDR]
  <2>1. PICK b \in UsedBlocks(blocks) : p = b + HDR BY <1>2
  <2>2. b \notin G \cup N /\ p - HDR = b BY <1>1, <2>1
  <2> QED BY <2>2
<1> QED BY <1>4, <1>5 DEF Served, Sound, Tiling, Coalesced

\* The block at q has room for size bytes, rounded up.
Given(q, size) == blocks'[q - HDR].size \in Nat /\ blocks'[q - HDR].size >= AlignSize(size)

\* kmalloc: nothing, or one new block.
LEMMA MKmallocServed ==
    ASSUME Sound, NEW size \in Sizes, Kmalloc(size)
    PROVE  \/ UNCHANGED vars
           \/ \E q : /\ q \notin DOMAIN held /\ Served({}, {q})
                    /\ held' = With(held, q, size) /\ Given(q, size)
<1> SUFFICES ASSUME ~UNCHANGED vars
             PROVE  \E q : /\ q \notin DOMAIN held /\ Served({}, {q})
                          /\ held' = With(held, q, size) /\ Given(q, size)
  BY Z3T(60)
<1> DEFINE n == AlignSize(size)
<1>1. PICK b \in FirstFit(blocks, n) :
          /\ blocks' = Carve(blocks, b, n)
          /\ held' = With(held, b + HDR, size)
          /\ capacity' = capacity
  BY DEF Kmalloc
<1>2. n \in Nat
  BY AlignNat, HeapAssumption
<1> HIDE DEF n
<1>3. b \in DOMAIN blocks /\ b \in FreeBlocks(blocks) /\ n <= blocks[b].size /\ b \in Nat
  BY <1>2, BlockType DEF FirstFit, Fits, FreeBlocks, Sound
<1>4. capacity # 0 /\ capacity \in Nat /\ Tiled(blocks, capacity) /\ IsList(blocks) /\ FreePairs(blocks) = {}
  BY Z3T(60), <1>3 DEF Sound, Tiling, Coalesced
<1>5. Tiled(blocks', capacity) /\ IsGrant(blocks, b, n, blocks') /\ FreePairs(blocks') = {}
  BY Zenon, <1>1, <1>2, <1>3, <1>4, CarveLemma
<1>6. /\ IsList(blocks') /\ UsedBlocks(blocks') = (UsedBlocks(blocks) \ {}) \cup {b}
      /\ \A c \in UsedBlocks(blocks) \ ({} \cup {b}) : blocks'[c] = blocks[c]
  BY <1>5 DEF IsGrant, UsedBlocks
<1>7. b + HDR \notin DOMAIN held
  <2>1. \A c \in UsedBlocks(blocks) : c \in Nat /\ c # b BY <1>3, LiveIs DEF UsedBlocks, FreeBlocks
  <2> QED BY <1>3, <2>1, HeapAssumption DEF Sound, HeldIsUsed
<1>8. DOMAIN held' = (DOMAIN held \ {}) \cup {b + HDR}
  BY Z3T(60), <1>1 DEF With
<1>9. Served({}, {b + HDR})
  <2>1. {} = {c + HDR : c \in {}} /\ {b + HDR} = {c + HDR : c \in {b}} /\ {b} \in SUBSET Nat
        /\ {} \subseteq UsedBlocks(blocks) /\ {} \subseteq DOMAIN held
    BY <1>3
  <2> QED BY Zenon, <1>1, <1>4, <1>5, <1>6, <1>8, <2>1, ServedBy
<1>10. Given(b + HDR, size)
  <2>1. (b + HDR) - HDR = b BY <1>3, HeapAssumption
  <2> QED BY <1>5, <2>1 DEF IsGrant, Given, n
<1> QED BY <1>1, <1>7, <1>9, <1>10

\* kfree.
LEMMA MKfreeServed ==
    ASSUME Sound, NEW ptr \in DOMAIN held, MKfree(ptr) PROVE Served({ptr}, {})
<1> DEFINE b == ptr - HDR
<1>1. /\ b \in UsedBlocks(blocks) /\ b \in Nat /\ ptr = b + HDR
      /\ capacity # 0 /\ capacity \in Nat /\ Tiled(blocks, capacity) /\ FreePairs(blocks) = {}
      /\ IsList(blocks)
  BY LiveIs DEF Sound
<1>2. blocks' = ReleaseForward(blocks, b) /\ held' = Without(held, ptr) /\ capacity' = capacity
  BY DEF MKfree
<1> HIDE DEF b
<1>3. Tiled(blocks', capacity) /\ IsSettled(blocks, UsedBlocks(blocks) \ {b}, blocks')
  BY <1>1, <1>2, ReleaseForwardLemma
<1>4. /\ IsList(blocks') /\ FreePairs(blocks') = {}
      /\ UsedBlocks(blocks') = (UsedBlocks(blocks) \ {b}) \cup {}
      /\ \A c \in UsedBlocks(blocks) \ ({b} \cup {}) : blocks'[c] = blocks[c]
  BY <1>3 DEF IsSettled
<1>5. DOMAIN held' = (DOMAIN held \ {ptr}) \cup {}
  BY <1>2 DEF Without
<1>6. {ptr} = {c + HDR : c \in {b}} /\ {} = {c + HDR : c \in {}} /\ {} \in SUBSET Nat
      /\ {b} \subseteq UsedBlocks(blocks) /\ {ptr} \subseteq DOMAIN held
  BY <1>1
<1> QED BY ZenonT(60), <1>1, <1>2, <1>3, <1>4, <1>5, <1>6, ServedBy

\* krealloc in place.
LEMMA ResizeServed ==
    ASSUME Sound, NEW ptr \in DOMAIN held, NEW size, NEW n, NEW resized,
           Tiled(resized, capacity), IsResize(blocks, ptr - HDR, n, resized),
           n = AlignSize(size), ResizeInPlace(ptr, size, resized)
    PROVE  Served({ptr}, {ptr}) /\ Given(ptr, size)
<1> DEFINE b == ptr - HDR
<1>1. b \in UsedBlocks(blocks) /\ b \in Nat /\ ptr = b + HDR /\ capacity # 0
  BY LiveIs
<1>2. blocks' = resized /\ DOMAIN held' = DOMAIN held /\ capacity' = capacity
  BY DEF ResizeInPlace
<1> HIDE DEF b
<1>3. /\ IsList(blocks') /\ FreePairs(blocks') = {} /\ Tiled(blocks', capacity)
      /\ UsedBlocks(blocks') = (UsedBlocks(blocks) \ {b}) \cup {b}
      /\ \A c \in UsedBlocks(blocks) \ ({b} \cup {b}) : blocks'[c] = blocks[c]
  BY <1>1, <1>2 DEF IsResize, b
<1>4. {ptr} = {c + HDR : c \in {b}} /\ {b} \in SUBSET Nat
      /\ {b} \subseteq UsedBlocks(blocks) /\ {ptr} \subseteq DOMAIN held
      /\ DOMAIN held' = (DOMAIN held \ {ptr}) \cup {ptr}
  BY <1>1, <1>2
<1>5. Given(ptr, size)
  BY <1>2 DEF Given, IsResize, b
<1> QED BY Zenon, <1>1, <1>2, <1>3, <1>4, <1>5, ServedBy

\* krealloc into another block.
LEMMA MoveServed ==
    ASSUME Sound, NEW ptr \in DOMAIN held, NEW size \in NewSizes, ReallocMove(ptr, size)
    PROVE  \/ UNCHANGED mvars
           \/ \E q : /\ q \notin DOMAIN held /\ Served({ptr}, {q}) /\ Given(q, size)
                    /\ held' = With(Without(held, ptr), q, size)
                    /\ data' = With(Without(data, ptr), q,
                                    MinOf(data[ptr], CopySize(blocks[ptr - HDR].size, size)))
<1> SUFFICES ASSUME ~UNCHANGED mvars
             PROVE  \E q : /\ q \notin DOMAIN held /\ Served({ptr}, {q}) /\ Given(q, size)
                          /\ held' = With(Without(held, ptr), q, size)
                          /\ data' = With(Without(data, ptr), q,
                                          MinOf(data[ptr], CopySize(blocks[ptr - HDR].size, size)))
  BY Zenon
<1> DEFINE n == AlignSize(size)
           old == ptr - HDR
<1>1. PICK b \in FirstFit(blocks, n) :
          /\ blocks' = ReleaseForward(Carve(blocks, b, n), old)
          /\ held' = With(Without(held, ptr), b + HDR, size)
          /\ data' = With(Without(data, ptr), b + HDR,
                          MinOf(data[ptr], CopySize(blocks[ptr - HDR].size, size)))
          /\ capacity' = capacity
  BY DEF ReallocMove
<1>2. n \in Nat
  BY AlignNat, MallocAssumption, HeapAssumption
<1>3. /\ old \in UsedBlocks(blocks) /\ old \in Nat /\ ptr = old + HDR
      /\ capacity # 0 /\ capacity \in Nat /\ Tiled(blocks, capacity) /\ FreePairs(blocks) = {}
      /\ IsList(blocks)
  BY LiveIs DEF Sound
<1> HIDE DEF n, old
<1>4. b \in Fits(blocks, n)
  BY Z3T(60) DEF FirstFit
<1>5. /\ Tiled(blocks', capacity)
      /\ IsList(blocks') /\ FreePairs(blocks') = {}
      /\ UsedBlocks(blocks') = (UsedBlocks(blocks) \ {old}) \cup {b}
      /\ \A c \in UsedBlocks(blocks) \ {old} : blocks'[c] = blocks[c]
      /\ b \in FreeBlocks(blocks) /\ b \in DOMAIN blocks
      /\ blocks'[b].size >= n /\ blocks'[b].size \in Nat
  <2>1. IsMoved(blocks, capacity, old, n, b, ReleaseForward(Carve(blocks, b, n), old))
    BY Zenon, <1>2, <1>3, <1>4, MoveLemma
  <2> QED BY Zenon, <1>1, <2>1 DEF IsMoved
<1>6. b \in Nat /\ \A c \in UsedBlocks(blocks) : c \in Nat /\ c # b
  BY Zenon, <1>3, <1>5, LiveIs, BlockType DEF UsedBlocks, FreeBlocks
<1>7. b + HDR \notin DOMAIN held
  BY <1>6, HeapAssumption DEF Sound, HeldIsUsed
<1>8. DOMAIN held' = (DOMAIN held \ {ptr}) \cup {b + HDR}
  BY Z3T(60), <1>1 DEF With, Without
<1>9. Served({ptr}, {b + HDR})
  <2>1. {ptr} = {c + HDR : c \in {old}} /\ {b + HDR} = {c + HDR : c \in {b}} /\ {b} \in SUBSET Nat
        /\ {old} \subseteq UsedBlocks(blocks) /\ {ptr} \subseteq DOMAIN held
    BY Zenon, <1>3, <1>6
  <2>2. \A c \in UsedBlocks(blocks) \ ({old} \cup {b}) : blocks'[c] = blocks[c]
    BY Zenon, <1>5
  <2> QED BY Zenon, <1>1, <1>3, <1>5, <1>8, <2>1, <2>2, ServedBy
<1>10. Given(b + HDR, size)
  <2>1. (b + HDR) - HDR = b BY Z3T(60), <1>6, HeapAssumption
  <2> QED BY <1>5, <2>1 DEF Given, n
<1> QED BY Zenon, <1>1, <1>7, <1>9, <1>10

\* krealloc is kfree, a resize in place, a move or nothing.
InPlace(p, size) ==
    /\ Served({p}, {p}) /\ Given(p, size)
    /\ held' = [held EXCEPT ![p] = size]
    /\ data' = [data EXCEPT ![p] = MinOf(@, MinOf(size, blocks'[p - HDR].size))]

Moved(p, q, size) ==
    /\ q \notin DOMAIN held /\ Served({p}, {q}) /\ Given(q, size)
    /\ held' = With(Without(held, p), q, size)
    /\ data' = With(Without(data, p), q, MinOf(data[p], CopySize(blocks[p - HDR].size, size)))

LEMMA KreallocServed ==
    ASSUME Sound, NEW p \in DOMAIN held, NEW size \in NewSizes, Krealloc(p, size)
    PROVE  UNCHANGED mvars \/ MKfree(p) \/ InPlace(p, size) \/ \E q : Moved(p, q, size)
<1> DEFINE b == p - HDR
           n == AlignSize(size)
<1>1. /\ b \in UsedBlocks(blocks)
      /\ capacity # 0 /\ capacity \in Nat /\ Tiled(blocks, capacity) /\ FreePairs(blocks) = {}
      /\ IsList(blocks) /\ n \in Nat
  BY Z3T(60), LiveIs, AlignNat, MallocAssumption, HeapAssumption DEF Sound
<1>2. \/ MKfree(p)
      \/ n <= blocks[b].size /\ ResizeInPlace(p, size, Shrink(blocks, b, n))
      \/ CanGrow(blocks, b, n) /\ ResizeInPlace(p, size, Grow(blocks, b, n))
      \/ ReallocMove(p, size)
  BY DEF Krealloc
<1>3. ASSUME NEW resized, Tiled(resized, capacity), IsResize(blocks, b, n, resized),
             ResizeInPlace(p, size, resized)
      PROVE  InPlace(p, size)
  <2>1. Served({p}, {p}) /\ Given(p, size) BY Zenon, <1>3, ResizeServed
  <2> QED BY <1>3, <2>1 DEF InPlace, ResizeInPlace
<1>4. CASE n <= blocks[b].size /\ ResizeInPlace(p, size, Shrink(blocks, b, n))
  <2>1. Tiled(Shrink(blocks, b, n), capacity) /\ IsResize(blocks, b, n, Shrink(blocks, b, n))
    <3> HIDE DEF b, n
    <3> QED BY <1>1, <1>4, ShrinkLemma
  <2> QED BY Zenon, <1>3, <1>4, <2>1
<1>5. CASE CanGrow(blocks, b, n) /\ ResizeInPlace(p, size, Grow(blocks, b, n))
  <2>1. Tiled(Grow(blocks, b, n), capacity) /\ IsResize(blocks, b, n, Grow(blocks, b, n))
    <3> HIDE DEF b, n
    <3> QED BY <1>1, <1>5, GrowLemma
  <2> QED BY <1>3, <1>5, <2>1
<1>6. CASE ReallocMove(p, size)
  BY Zenon, <1>6, MoveServed DEF Moved
<1> QED BY <1>2, <1>4, <1>5, <1>6

\* Every call of malloc.c is one of these.
LEMMA StepServed ==
    ASSUME Sound, MNext
    PROVE  \/ UNCHANGED vars
           \/ \E ram \in RamSizes : MemInit(ram)
           \/ \E q : q \notin DOMAIN held /\ Served({}, {q})
           \/ \E p \in DOMAIN held : Served({p}, {}) \/ Served({p}, {p})
           \/ \E p \in DOMAIN held : \E q : q \notin DOMAIN held /\ Served({p}, {q})
<1>1. CASE \E ram \in RamSizes : MMemInit(ram)
  BY <1>1 DEF MMemInit
<1>2. CASE \E n \in Sizes : MKmalloc(n)
  BY Zenon, <1>2, MKmallocServed DEF MKmalloc
<1>3. CASE \E p \in DOMAIN held : MKfree(p)
  BY <1>3, MKfreeServed
<1>4. CASE \E p \in DOMAIN held, size \in NewSizes : Krealloc(p, size)
  BY Zenon, <1>4, KreallocServed, MKfreeServed DEF InPlace, Moved, mvars, vars
<1> QED BY Zenon, <1>1, <1>2, <1>3, <1>4 DEF MNext

LEMMA MInitSound == MInit => Sound
BY DEF MInit, Init, Sound, IsList, Tiling, Coalesced, HeldIsUsed, NoHeap, NoneHeld,
       FreePairs, FreeBlocks, UsedBlocks

LEMMA MNextSound == Sound /\ [MNext]_mvars => Sound'
<1> SUFFICES ASSUME Sound, [MNext]_mvars PROVE Sound'
  OBVIOUS
<1>1. CASE UNCHANGED vars
  BY <1>1 DEF vars, Sound, Tiling, Coalesced, HeldIsUsed
<1>2. ASSUME NEW ram \in RamSizes, MemInit(ram) PROVE Sound'
  <2>1. DOMAIN held = {} /\ held' = held
    BY <1>2 DEF MemInit, Sound, Tiling, HeldIsUsed, UsedBlocks
  <2> QED BY <1>2, <2>1, MemInitLemma DEF Sound, Tiling, Coalesced, HeldIsUsed
<1>3. CASE UNCHANGED mvars
  BY <1>1, <1>3 DEF mvars, vars
<1> QED BY Zenon, <1>1, <1>2, <1>3, StepServed DEF Served

-----------------------------------------------------------------------------
(* Theorems.                                                               *)

\* With krealloc too, whatever is allocated, resized and freed, in whatever
\* order: the list tiles the arena (malloc.c:30-198).
THEOREM MTiles == MSpec => []Tiling
<1>1. Sound => Tiling BY DEF Sound
<1> QED BY <1>1, MInitSound, MNextSound, PTL DEF MSpec

\* Free neighbours are merged, also the rest of a block krealloc shrank.
THEOREM MCoalesces == MSpec => []Coalesced
<1>1. Sound => Coalesced BY DEF Sound
<1> QED BY <1>1, MInitSound, MNextSound, PTL DEF MSpec

\* The used blocks are the live allocations.
THEOREM MOwned == MSpec => []HeldIsUsed
<1>1. Sound => HeldIsUsed BY DEF Sound
<1> QED BY <1>1, MInitSound, MNextSound, PTL DEF MSpec

\* In every reachable heap malloc.c's kfree and heap.c's give the same list,
\* whichever live block is freed.
THEOREM KfreesAlwaysAgree == MSpec => []KfreesAgree
<1>1. Sound => KfreesAgree
  <2> SUFFICES ASSUME Sound, NEW p \in DOMAIN held
               PROVE  Release(blocks, p - HDR) = ReleaseForward(blocks, p - HDR)
    BY DEF KfreesAgree
  <2>1. p - HDR \in UsedBlocks(blocks) /\ capacity \in Nat /\ Tiled(blocks, capacity)
        /\ FreePairs(blocks) = {} /\ IsList(blocks)
    BY LiveIs DEF Sound
  <2> QED BY <2>1, SameRelease
<1> QED BY <1>1, MInitSound, MNextSound, PTL DEF MSpec

\* Every step of malloc.c is a step of the allocator or leaves it alone.
LEMMA MStepAllocates ==
    Sound /\ Sound' /\ [MNext]_mvars
        => [Promise!ReallocNext]_<<capacity, [p \in DOMAIN held |-> blocks[p - HDR].size]>>
<1> SUFFICES ASSUME Sound, Sound', MNext, ~UNCHANGED vars
             PROVE  Promise!ReallocNext
  BY DEF vars, mvars
<1> DEFINE extent == [p \in DOMAIN held |-> blocks[p - HDR].size]
<1>0. Promise!Disjoint' /\ Promise!Inside'
  BY PayloadsApart, PTL
<1>1. ASSUME NEW ram \in RamSizes, MemInit(ram) PROVE Promise!ReallocNext
  <2>1. capacity = 0 /\ held' = held /\ DOMAIN held = {}
    BY <1>1 DEF MemInit, Sound, Tiling, HeldIsUsed, UsedBlocks
  <2>2. capacity' \in Nat
    BY DEF Sound
  <2>3. extent' = extent
    BY <2>1
  <2> QED BY Zenon, <2>1, <2>2, <2>3 DEF Promise!ReallocNext, Promise!Next, Promise!Open
<1>2. ASSUME NEW gone, NEW new, Served(gone, new) PROVE Promise!Exchange(gone, new)
  <2>1. Promise!OnlyChanged(gone \cup new)
    BY <1>2 DEF Served, Promise!OnlyChanged
  <2> QED BY <1>0, <1>2, <2>1 DEF Served, Promise!Exchange
<1>3. ASSUME NEW q, q \notin DOMAIN held, Served({}, {q}) PROVE Promise!ReallocNext
  <2>1. Promise!Grant(q) /\ q \in DOMAIN held' BY <1>2, <1>3 DEF Promise!Grant, Served
  <2> QED BY Zenon, <2>1 DEF Promise!ReallocNext, Promise!Next
<1>4. ASSUME NEW p \in DOMAIN held, Served({p}, {}) PROVE Promise!ReallocNext
  BY <1>2, <1>4 DEF Promise!ReallocNext, Promise!Next, Promise!Return
<1>5. ASSUME NEW p \in DOMAIN held, Served({p}, {p}) PROVE Promise!ReallocNext
  BY <1>2, <1>5 DEF Promise!ReallocNext, Promise!Resize
<1>6. ASSUME NEW p \in DOMAIN held, NEW q, q \notin DOMAIN held, Served({p}, {q})
      PROVE  Promise!ReallocNext
  <2>1. Promise!Move(p, q) /\ q \in DOMAIN held' BY <1>2, <1>6 DEF Promise!Move, Served
  <2> QED BY <2>1 DEF Promise!ReallocNext
<1> QED BY Zenon, <1>1, <1>3, <1>4, <1>5, <1>6, StepServed

\* malloc.c refines the allocator its callers were promised: a call on one
\* allocation, krealloc's moves included, changes no other, and no two live
\* payloads ever overlap.
THEOREM MRefinement == MSpec => MIsAllocator
<1>1. MInit => Promise!Init
  BY DEF MInit, Init, Promise!Init, NoneHeld
<1> QED BY <1>1, MInitSound, MNextSound, MStepAllocates, PTL DEF MSpec, MIsAllocator, Promise!ReallocSpec

-----------------------------------------------------------------------------
(* What krealloc keeps of its owner's bytes.                               *)

\* No request is so close to SIZE_MAX that rounding it up wraps.
MNoWrap == \A n \in Sizes \cup NewSizes : n + ALIGN - 1 < WORD

\* An owner never has more bytes than it asked for, nor asked for more than
\* its block holds: otherwise a move, which copies the block's size, or a
\* shrink could cut off some of them.
DataFits ==
    /\ DOMAIN data = DOMAIN held
    /\ \A p \in DOMAIN held :
          /\ data[p] \in Nat /\ held[p] \in Nat
          /\ data[p] <= held[p] /\ held[p] <= blocks[p - HDR].size

DataKept ==
    /\ \A p \in DOMAIN held \cap DOMAIN held' : data'[p] = MinOf(data[p], held'[p])
    /\ \A p \in DOMAIN held \ DOMAIN held', q \in DOMAIN held' \ DOMAIN held :
          data'[q] = MinOf(data[p], held'[q])

LEMMA SizeFits ==
    ASSUME MNoWrap, NEW q, NEW size \in Sizes \cup NewSizes, Given(q, size)
    PROVE  size \in Nat /\ size <= blocks'[q - HDR].size
<1>1. size \in Nat /\ size <= AlignSize(size) /\ AlignSize(size) \in Nat
  BY Z3T(60), AlignCovers, AlignNat, HeapAssumption, MallocAssumption DEF MNoWrap
<1> QED BY <1>1 DEF Given

\* The allocations a call is not about.
LEMMA RestFits ==
    ASSUME DataFits, NEW gone, NEW new, Served(gone, new), NEW p \in DOMAIN held \ (gone \cup new),
           held'[p] = held[p], data'[p] = data[p]
    PROVE  /\ data'[p] \in Nat /\ held'[p] \in Nat
           /\ data'[p] <= held'[p] /\ held'[p] <= blocks'[p - HDR].size
           /\ data'[p] = MinOf(data[p], held'[p])
<1>1. blocks'[p - HDR] = blocks[p - HDR]
  BY DEF Served
<1> QED BY <1>1 DEF DataFits, MinOf

LEMMA DataStep ==
    ASSUME MNoWrap, Sound, DataFits, MNext
    PROVE  DataFits' /\ DataKept
<1>1. ASSUME UNCHANGED vars, data' = [p \in DOMAIN held' |-> data[p]] PROVE DataFits' /\ DataKept
  BY <1>1 DEF vars, DataFits, DataKept, MinOf
<1>2. CASE \E ram \in RamSizes : MMemInit(ram)
  <2>1. DOMAIN held = {} /\ held' = held /\ data' = data
    BY <1>2 DEF MMemInit, MemInit, Sound, Tiling, HeldIsUsed, UsedBlocks
  <2> QED BY <2>1 DEF DataFits, DataKept
<1>3. ASSUME NEW size \in Sizes, MKmalloc(size) PROVE DataFits' /\ DataKept
  <2>1. Kmalloc(size) /\ data' = [p \in DOMAIN held' |-> IF p \in DOMAIN held THEN data[p] ELSE size]
    BY <1>3 DEF MKmalloc
  <2>2. CASE UNCHANGED vars
    <3>1. data' = [p \in DOMAIN held' |-> data[p]] BY Z3T(60), <2>1, <2>2 DEF vars
    <3> QED BY <1>1, <2>2, <3>1
  <2>3. CASE ~UNCHANGED vars
    <3>1. PICK q : q \notin DOMAIN held /\ Served({}, {q}) /\ held' = With(held, q, size) /\ Given(q, size)
      BY ZenonT(60), <2>1, <2>3, MKmallocServed
    <3>2. /\ DOMAIN held' = DOMAIN held \cup {q} /\ held'[q] = size /\ data'[q] = size
          /\ DOMAIN data' = DOMAIN held'
          /\ \A p \in DOMAIN held : held'[p] = held[p] /\ data'[p] = data[p]
      BY <2>1, <3>1 DEF With
    <3>3. size \in Nat /\ size <= blocks'[q - HDR].size BY Zenon, <3>1, SizeFits
    <3>4. \A p \in DOMAIN held :
             /\ data'[p] \in Nat /\ held'[p] \in Nat
             /\ data'[p] <= held'[p] /\ held'[p] <= blocks'[p - HDR].size
             /\ data'[p] = MinOf(data[p], held'[p])
      BY <3>1, <3>2, RestFits
    <3>5. DataFits' BY Z3T(60), <3>2, <3>3, <3>4 DEF DataFits
    <3> QED BY Z3T(60), <3>2, <3>4, <3>5 DEF DataKept
  <2> QED BY <2>2, <2>3
<1>4. ASSUME NEW ptr \in DOMAIN held, MKfree(ptr) PROVE DataFits' /\ DataKept
  <2>1. Served({ptr}, {}) BY <1>4, MKfreeServed
  <2>2. /\ DOMAIN held' = DOMAIN held \ {ptr} /\ DOMAIN data' = DOMAIN held'
        /\ \A p \in DOMAIN held \ {ptr} : held'[p] = held[p] /\ data'[p] = data[p]
    BY Z3T(60), <1>4 DEF MKfree, Without, DataFits
  <2>3. \A p \in DOMAIN held \ {ptr} :
           /\ data'[p] \in Nat /\ held'[p] \in Nat
           /\ data'[p] <= held'[p] /\ held'[p] <= blocks'[p - HDR].size
           /\ data'[p] = MinOf(data[p], held'[p])
    BY Z3T(60), <2>1, <2>2, RestFits
  <2>4. DataFits' BY Zenon, <2>2, <2>3 DEF DataFits
  <2> QED BY <2>2, <2>3, <2>4 DEF DataKept
<1>5. ASSUME NEW ptr \in DOMAIN held, NEW size \in NewSizes, InPlace(ptr, size) PROVE DataFits' /\ DataKept
  <2>1. size \in Nat /\ size <= blocks'[ptr - HDR].size /\ blocks'[ptr - HDR].size \in Nat
    BY <1>5, SizeFits DEF InPlace, Given
  <2>2. /\ DOMAIN held' = DOMAIN held /\ DOMAIN data' = DOMAIN held' /\ held'[ptr] = size
        /\ data'[ptr] = MinOf(data[ptr], MinOf(size, blocks'[ptr - HDR].size))
        /\ \A p \in DOMAIN held \ {ptr} : held'[p] = held[p] /\ data'[p] = data[p]
    BY <1>5 DEF InPlace, Served, DataFits
  <2>3. data[ptr] \in Nat BY Zenon DEF DataFits
  <2>4. /\ data'[ptr] \in Nat /\ data'[ptr] <= size
        /\ data'[ptr] = MinOf(data[ptr], size)
    BY <2>1, <2>2, <2>3 DEF MinOf
  <2>5. Served({ptr}, {ptr}) BY Z3T(60), <1>5 DEF InPlace
  <2>6. \A p \in DOMAIN held \ {ptr} :
           /\ data'[p] \in Nat /\ held'[p] \in Nat
           /\ data'[p] <= held'[p] /\ held'[p] <= blocks'[p - HDR].size
           /\ data'[p] = MinOf(data[p], held'[p])
    BY Z3T(60), <2>2, <2>5, RestFits
  <2>7. DataFits' BY Zenon, <2>1, <2>2, <2>4, <2>6 DEF DataFits
  <2> QED BY <2>2, <2>4, <2>6, <2>7 DEF DataKept
<1>6. ASSUME NEW ptr \in DOMAIN held, NEW q, NEW size \in NewSizes, Moved(ptr, q, size)
      PROVE  DataFits' /\ DataKept
  <2>1. size \in Nat /\ size <= blocks'[q - HDR].size
    BY ZenonT(60), <1>6, SizeFits DEF Moved
  <2>2. /\ q \notin DOMAIN held /\ q # ptr
        /\ DOMAIN held' = (DOMAIN held \ {ptr}) \cup {q} /\ DOMAIN data' = DOMAIN held' /\ held'[q] = size
        /\ data'[q] = MinOf(data[ptr], CopySize(blocks[ptr - HDR].size, size))
        /\ \A p \in DOMAIN held \ {ptr} : held'[p] = held[p] /\ data'[p] = data[p]
    BY <1>6 DEF Moved, With, Without, DataFits
  <2>3. data[ptr] \in Nat /\ data[ptr] <= blocks[ptr - HDR].size /\ blocks[ptr - HDR].size \in Nat
    <3>1. blocks[ptr - HDR].size \in Nat BY Z3T(60), LiveIs, BlockType DEF UsedBlocks, Sound
    <3> QED BY Z3T(60), <3>1 DEF DataFits
  <2>4. /\ data'[q] \in Nat /\ data'[q] <= size
        /\ data'[q] = MinOf(data[ptr], size)
    BY <2>1, <2>2, <2>3 DEF MinOf, CopySize
  <2>5. Served({ptr}, {q}) BY Zenon, <1>6 DEF Moved
  <2>6. \A p \in DOMAIN held \ {ptr} :
           /\ data'[p] \in Nat /\ held'[p] \in Nat
           /\ data'[p] <= held'[p] /\ held'[p] <= blocks'[p - HDR].size
           /\ data'[p] = MinOf(data[p], held'[p])
    BY Z3T(60), <2>2, <2>5, RestFits
  <2>7. DataFits' BY Zenon, <2>1, <2>2, <2>4, <2>6 DEF DataFits
  <2> QED BY ZenonT(60), <2>2, <2>4, <2>6, <2>7 DEF DataKept
<1>7. CASE UNCHANGED mvars
  BY <1>7 DEF mvars, DataFits, DataKept, MinOf
<1> QED BY Zenon, <1>2, <1>3, <1>4, <1>5, <1>6, <1>7, KreallocServed DEF MNext

\* As long as no request wraps in mm_align_size, krealloc keeps the first
\* min(old, new) bytes its owner wrote, shrunk, grown or moved, and a call
\* touches no byte of another allocation (malloc.c:109-198).
THEOREM DataSurvives == ASSUME MNoWrap PROVE MSpec => ReallocKeepsData
<1>1. MInit => DataFits
  BY DEF MInit, Init, NoneHeld, DataFits
<1>2. Sound /\ DataFits /\ [MNext]_mvars => DataFits' /\ [DataKept]_mvars
  <2>1. CASE MNext BY <2>1, DataStep
  <2>2. CASE UNCHANGED mvars BY <2>2 DEF mvars, DataFits
  <2> QED BY <2>1, <2>2
<1> QED BY <1>1, <1>2, MInitSound, MNextSound, PTL DEF MSpec, ReallocKeepsData, DataKept

\* Every caller of kmalloc and krealloc has room for what it asked for.
THEOREM MRoom == ASSUME MNoWrap PROVE MSpec => []RoomForRequest
<1>1. MInit => DataFits
  BY DEF MInit, Init, NoneHeld, DataFits
<1>2. Sound /\ DataFits /\ [MNext]_mvars => DataFits'
  <2>1. CASE MNext BY <2>1, DataStep
  <2>2. CASE UNCHANGED mvars BY <2>2 DEF mvars, DataFits
  <2> QED BY <2>1, <2>2
<1>3. DataFits => RoomForRequest
  BY DEF DataFits, RoomForRequest
<1> QED BY <1>1, <1>2, <1>3, MInitSound, MNextSound, PTL DEF MSpec
=============================================================================
